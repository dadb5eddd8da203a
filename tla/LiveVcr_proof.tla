---------------------------- MODULE LiveVcr_proof ----------------------------
(***************************************************************************)
(* The VCR of the live page keeps one replay, that of the newest command,  *)
(* for every size of the buffer and of the answers and any number of       *)
(* commands, packets and visits; what the page installs goes with it, its  *)
(* markers are those of nodes it knows, its feed counts every packet once, *)
(* and its animations are accounted for.                                   *)
(***************************************************************************)
EXTENDS LiveVcr, LivePage, LiveFeed, LiveAnim, FiniteSetTheorems, SequenceTheorems, TLAPS

------------------------------------------------------------------------------
(* A request the user can still be waiting for: issued in this visit under *)
(* the generation that is current.                                         *)
Awaited(v, q) == mounted /\ q.visit = visit /\ q.gen = v.gen /\ q.kind # "next"

(* Requests are numbered, none is of a visit or (within one visit) of a    *)
(* generation to come.                                                     *)
RequestsKnown(v) ==
    /\ \A q \in v.reqs : q.id <= v.issued /\ q.visit <= visit
    /\ \A q, r \in v.reqs : q.id = r.id => q = r
    /\ \A q \in v.reqs : mounted /\ q.visit = visit => q.gen <= v.gen

(* The one awaited request is the last command's, and nothing is replayed  *)
(* while it is out, unless an answer of an earlier visit got in.           *)
AwaitedIsLatest(v) ==
    v.applied # "foreign" => \A q \in v.reqs : Awaited(v, q) => q.id = v.latest /\ v.timer = 0

ReplayExact(v) ==
    /\ v.playhead \in -1..v.buffer
    /\ v.applied # "stale"
    /\ v.mode # "LIVE" => v.frozen
    /\ v.ticks # {} => v.mode = "REPLAY" \/ v.applied = "foreign"
    /\ \A t \in v.ticks : v.timer = t.run /\ \A u \in v.ticks : u = t
    /\ \A t \in v.ticks : t.run # 0

(* What every function of the VCR object keeps. *)
Good(v) == v \in VcrType /\ RequestsKnown(v) /\ AwaitedIsLatest(v) /\ ReplayExact(v)

(* Nobody waits for an answer: a replay may be armed. *)
NoneAwaited(v) == v.applied = "foreign" \/ \A q \in v.reqs : ~Awaited(v, q)

(* The inductive invariant. *)
VcrInv == VcrTypeOK /\ Good(VCR)

------------------------------------------------------------------------------
(* Stopping a replay leaves no tick: the handle is that of the only one.   *)
LEMMA StopGood ==
  ASSUME NEW v, Good(v)
  PROVE  /\ Good(stopReplay(v))
         /\ stopReplay(v).ticks = {} /\ stopReplay(v).timer = 0
         /\ stopReplay(v) = [v EXCEPT !.ticks = {}, !.timer = 0]
<1>1. v.ticks # {} => \A t \in v.ticks : t.run = v.timer
  BY DEF Good, ReplayExact
<1>2. {t \in v.ticks : t.run # v.timer} = {}
  BY <1>1
<1>3. stopReplay(v) = [v EXCEPT !.ticks = {}, !.timer = 0]
  BY <1>2 DEF stopReplay, Good, VcrType
<1>4. Good([v EXCEPT !.ticks = {}, !.timer = 0])
  BY DEF Good, VcrType, RequestsKnown, AwaitedIsLatest, ReplayExact, Awaited
<1>5. [v EXCEPT !.ticks = {}, !.timer = 0].ticks = {} /\ [v EXCEPT !.ticks = {}, !.timer = 0].timer = 0
  BY DEF Good, VcrType
<1> QED BY <1>3, <1>4, <1>5

(* Going live starts a generation: no request is awaited any more.         *)
LEMMA ResumeGood ==
  ASSUME NEW v, Good(v)
  PROVE  Good(vcrResumeLive(v))
<1> DEFINE w == stopReplay(v)
           r == vcrResumeLive(v)
<1>1. Good(w) /\ w.ticks = {} /\ w.timer = 0
  BY StopGood
<1>2. w \in VcrType /\ w.gen + 1 \in Nat /\ -1 \in Int /\ 0 \in Nat
  BY <1>1 DEF Good, VcrType
<1>3. r = [w EXCEPT !.gen = w.gen + 1, !.playhead = -1, !.missed = 0, !.scrub = FALSE, !.latest = 0,
                    !.mode = "LIVE", !.frozen = FALSE]
  BY <1>2, Zenon DEF vcrResumeLive, vcrSetMode, VcrType
<1> HIDE DEF w, r
<1>4. r \in VcrType
  BY <1>2, <1>3, Zenon DEF VcrType
<1>5. /\ r.mode = "LIVE" /\ r.gen = w.gen + 1 /\ r.playhead = -1
      /\ r.buffer = w.buffer /\ r.applied = w.applied /\ r.ticks = w.ticks /\ r.timer = w.timer
      /\ r.reqs = w.reqs /\ r.issued = w.issued
  BY <1>2, <1>3 DEF VcrType
<1>6. RequestsKnown(r)
  BY <1>1, <1>2, <1>5 DEF Good, VcrType, RequestsKnown
<1>7. AwaitedIsLatest(r)
  BY <1>1, <1>2, <1>5 DEF Good, VcrType, RequestsKnown, AwaitedIsLatest, Awaited
<1>8. ReplayExact(r)
  BY <1>1, <1>2, <1>5 DEF Good, VcrType, ReplayExact
<1> QED BY <1>4, <1>6, <1>7, <1>8 DEF Good, r

(* Changing the mode is harmless where nothing is armed. *)
LEMMA SetModeGood ==
  ASSUME NEW v, Good(v), NEW m \in {"LIVE", "PAUSED", "REPLAY"},
         v.ticks # {} => m = "REPLAY" \/ v.applied = "foreign"
  PROVE  /\ Good(vcrSetMode(v, m))
         /\ NoneAwaited(v) => NoneAwaited(vcrSetMode(v, m))
<1> DEFINE r == vcrSetMode(v, m)
<1>1. v \in VcrType /\ (m # "LIVE") \in BOOLEAN
  BY DEF Good
<1>2. r = [v EXCEPT !.mode = m, !.frozen = (m # "LIVE")]
  BY DEF vcrSetMode
<1> HIDE DEF r
<1>3. r \in VcrType
  BY <1>1, <1>2, Zenon DEF VcrType
<1>4. /\ r.mode = m /\ r.gen = v.gen /\ r.playhead = v.playhead /\ r.buffer = v.buffer
      /\ r.applied = v.applied /\ r.ticks = v.ticks /\ r.timer = v.timer
      /\ r.reqs = v.reqs /\ r.issued = v.issued /\ r.latest = v.latest
  BY <1>1, <1>2 DEF VcrType
<1>5. r.frozen = (m # "LIVE")
  BY <1>1, <1>2, Zenon DEF VcrType
<1>6. RequestsKnown(r) /\ AwaitedIsLatest(r)
  BY <1>4, Zenon DEF Good, RequestsKnown, AwaitedIsLatest, Awaited
<1>7. ReplayExact(r)
  BY <1>4, <1>5, Zenon DEF Good, ReplayExact
<1>8. NoneAwaited(v) => NoneAwaited(r)
  BY <1>4, Zenon DEF NoneAwaited, Awaited
<1> QED BY <1>3, <1>6, <1>7, <1>8 DEF Good, r

(* A request for the next page is nobody's command. *)
LEMMA SendNextGood ==
  ASSUME NEW v, Good(v), visit \in Nat
  PROVE  Good(Send(v, "next"))
<1> DEFINE q == [id |-> v.issued + 1, kind |-> "next", gen |-> v.gen,
                 visit |-> IF mounted THEN visit ELSE 0]
           r == Send(v, "next")
<1>1. v \in VcrType /\ v.issued + 1 \in Nat /\ v.gen \in Nat
  BY DEF Good, VcrType
<1>2. q \in [id : Nat, kind : {"from", "rewind", "next"}, gen : Nat, visit : Nat]
  BY <1>1
<1>3. /\ q.id = v.issued + 1 /\ q.kind = "next" /\ q.gen = v.gen /\ q.visit <= visit
  OBVIOUS
<1>4. r = [v EXCEPT !.issued = v.issued + 1, !.reqs = v.reqs \union {q}]
  BY <1>1, Zenon DEF Send, VcrType
<1> HIDE DEF q, r
<1>5. v.reqs \union {q} \in SUBSET [id : Nat, kind : {"from", "rewind", "next"}, gen : Nat, visit : Nat]
  BY <1>1, <1>2 DEF VcrType
<1>6. r \in VcrType
  BY <1>1, <1>4, <1>5, Zenon DEF VcrType
<1>7. /\ r.mode = v.mode /\ r.gen = v.gen /\ r.playhead = v.playhead /\ r.buffer = v.buffer
      /\ r.applied = v.applied /\ r.ticks = v.ticks /\ r.timer = v.timer
      /\ r.reqs = v.reqs \union {q} /\ r.issued = v.issued + 1 /\ r.latest = v.latest
  BY <1>1, <1>4 DEF VcrType
<1>8. r.frozen = v.frozen
  BY <1>1, <1>4, Zenon DEF VcrType
<1>9. RequestsKnown(r)
  BY <1>1, <1>3, <1>7 DEF Good, VcrType, RequestsKnown
<1>10. AwaitedIsLatest(r)
  BY <1>1, <1>3, <1>7 DEF Good, VcrType, AwaitedIsLatest, Awaited
<1>11. ReplayExact(r)
  BY <1>7, <1>8, Zenon DEF Good, ReplayExact
<1> QED BY <1>6, <1>9, <1>10, <1>11 DEF Good, r

(* A command's request is the only one of its generation, and is the       *)
(* latest; nothing is armed while it is out.                               *)
LEMMA AskGood ==
  ASSUME NEW v, Good(v), visit \in Nat, NEW kind \in {"from", "rewind"}
  PROVE  Good(Ask(v, kind)) /\ Ask(v, kind).ticks = {}
<1> DEFINE w == stopReplay(v)
           q == [id |-> w.issued + 1, kind |-> kind, gen |-> w.gen + 1,
                 visit |-> IF mounted THEN visit ELSE 0]
           r == Ask(v, kind)
<1>1. Good(w) /\ w.ticks = {} /\ w.timer = 0
  BY StopGood
<1>2. w \in VcrType /\ w.issued + 1 \in Nat /\ w.gen + 1 \in Nat
  BY <1>1 DEF Good, VcrType
<1>3. q \in [id : Nat, kind : {"from", "rewind", "next"}, gen : Nat, visit : Nat]
  BY <1>2
<1>4. /\ q.id = w.issued + 1 /\ q.kind = kind /\ q.gen = w.gen + 1 /\ q.visit <= visit
  OBVIOUS
<1>5. r = [w EXCEPT !.gen = w.gen + 1, !.issued = w.issued + 1, !.reqs = w.reqs \union {q},
                    !.latest = w.issued + 1]
  <2> DEFINE x == [w EXCEPT !.gen = w.gen + 1]
             s == Send(x, kind)
  <2>1. x \in VcrType /\ x.issued = w.issued /\ x.gen = w.gen + 1 /\ x.reqs = w.reqs
    BY <1>2 DEF VcrType
  <2>2. s = [x EXCEPT !.issued = w.issued + 1, !.reqs = w.reqs \union {q}]
    BY <2>1, Zenon DEF Send, VcrType
  <2>3. s.issued = w.issued + 1
    BY <2>1, <2>2 DEF VcrType
  <2>4. r = [s EXCEPT !.latest = s.issued]
    BY <1>2, Zenon DEF Ask, VcrType
  <2> QED BY <2>2, <2>3, <2>4, Zenon
<1> HIDE DEF q, r, w
<1>6. w.reqs \union {q} \in SUBSET [id : Nat, kind : {"from", "rewind", "next"}, gen : Nat, visit : Nat]
  BY <1>2, <1>3 DEF VcrType
<1>7. r \in VcrType
  BY <1>2, <1>5, <1>6, Zenon DEF VcrType
<1>8. /\ r.mode = w.mode /\ r.gen = w.gen + 1 /\ r.playhead = w.playhead /\ r.buffer = w.buffer
      /\ r.applied = w.applied /\ r.ticks = w.ticks /\ r.timer = w.timer
      /\ r.reqs = w.reqs \union {q} /\ r.issued = w.issued + 1 /\ r.latest = w.issued + 1
  BY <1>2, <1>5 DEF VcrType
<1>9. r.frozen = w.frozen
  BY <1>2, <1>5, Zenon DEF VcrType
<1>10. RequestsKnown(r)
  BY <1>1, <1>2, <1>4, <1>8 DEF Good, VcrType, RequestsKnown
<1>11. AwaitedIsLatest(r)
  BY <1>1, <1>2, <1>4, <1>8 DEF Good, VcrType, RequestsKnown, AwaitedIsLatest, Awaited
<1>12. ReplayExact(r)
  BY <1>1, <1>8, <1>9, Zenon DEF Good, ReplayExact
<1> QED BY <1>1, <1>7, <1>8, <1>10, <1>11, <1>12 DEF Good, r

LEMMA ReplayFromGood ==
  ASSUME NEW v, Good(v), visit \in Nat
  PROVE  Good(vcrReplayFromTs(v))
BY AskGood, SetModeGood DEF vcrReplayFromTs

(* A tick with no other armed renders a group and is the one armed again,  *)
(* or asks for the next page, or does nothing.                             *)
LEMMA TickGood ==
  ASSUME NEW v, Good(v), visit \in Nat, v.ticks = {}, NoneAwaited(v),
         NEW r \in Nat \ {0}, NEW n \in Nat, NEW w \in tick(v, r, n)
  PROVE  Good(w)
<1>1. CASE v.mode # "REPLAY"
  BY <1>1 DEF tick
<1>2. CASE v.mode = "REPLAY" /\ n = 0
  <2>1. w = fetchNextReplayPage(v)
    BY <1>2 DEF tick
  <2> QED BY <2>1, ResumeGood, SendNextGood DEF fetchNextReplayPage
<1>3. CASE v.mode = "REPLAY" /\ n # 0
  <2>1. PICK k \in 1..n : w = [v EXCEPT !.playhead = MinOf(v.buffer, v.playhead + k), !.timer = r,
                                        !.ticks = v.ticks \union {[run |-> r, left |-> n - k]}]
    <3>1. v \in VcrType
      BY DEF Good
    <3> QED BY <1>3, <3>1, Zenon DEF tick, VcrType
  <2> DEFINE p == MinOf(v.buffer, v.playhead + k)
             t == [run |-> r, left |-> n - k]
  <2>2. v \in VcrType /\ n - k \in Nat /\ v.buffer \in Nat /\ v.playhead \in -1..v.buffer
    BY DEF Good, VcrType, ReplayExact
  <2>3. p \in Int /\ p \in -1..v.buffer
    BY <2>2 DEF MinOf
  <2>4. t \in [run : Nat, left : Nat] /\ t.run = r
    BY <2>2
  <2> HIDE DEF p, t
  <2>5. w = [v EXCEPT !.playhead = p, !.timer = r, !.ticks = {t}]
    BY <2>1, Zenon DEF p, t
  <2>6. w \in VcrType
    <3>1. {t} \in SUBSET [run : Nat, left : Nat] /\ r \in Nat
      BY <2>4
    <3> QED BY <2>2, <2>3, <2>5, <3>1, Zenon DEF VcrType
  <2>7. /\ w.mode = v.mode /\ w.gen = v.gen /\ w.playhead = p /\ w.buffer = v.buffer
        /\ w.applied = v.applied /\ w.ticks = {t} /\ w.timer = r
        /\ w.reqs = v.reqs /\ w.issued = v.issued /\ w.latest = v.latest
    BY <2>2, <2>5 DEF VcrType
  <2>8. w.frozen = v.frozen
    BY <2>2, <2>5, Zenon DEF VcrType
  <2>9. RequestsKnown(w)
    BY <2>7, Zenon DEF Good, RequestsKnown
  <2>10. AwaitedIsLatest(w)
    BY <2>7, Zenon DEF Good, AwaitedIsLatest, Awaited, NoneAwaited
  <2>11. ReplayExact(w)
    <3>1. w.mode # "LIVE" => w.frozen
      BY <2>7, <2>8, Zenon DEF Good, ReplayExact
    <3>2. \A u \in w.ticks : w.timer = u.run /\ u.run # 0 /\ \A x \in w.ticks : x = u
      BY <2>4, <2>7
    <3> QED BY <1>3, <2>3, <2>7, <3>1, <3>2, Zenon DEF Good, ReplayExact
  <2> QED BY <2>6, <2>9, <2>10, <2>11 DEF Good
<1> QED BY <1>1, <1>2, <1>3

(* Starting a replay stops the one before. *)
LEMMA StartGood ==
  ASSUME NEW v, Good(v), visit \in Nat, NoneAwaited(v), NEW w \in startReplay(v)
  PROVE  Good(w)
<1> DEFINE s == stopReplay(v)
           x == [s EXCEPT !.runs = s.runs + 1]
<1>1. Good(s) /\ s.ticks = {} /\ s.timer = 0
  BY StopGood
<1>2. s \in VcrType /\ s.runs + 1 \in Nat /\ v \in VcrType
  BY <1>1 DEF Good, VcrType
<1>3. s.reqs = v.reqs /\ s.applied = v.applied /\ s.gen = v.gen
  BY <1>2 DEF stopReplay, VcrType
<1>4. w \in tick(x, x.runs, x.buffer)
  <2>1. [s EXCEPT !.runs = @ + 1] = x
    BY <1>2, Zenon DEF VcrType
  <2> QED BY <2>1, Zenon DEF startReplay
<1> HIDE DEF s
<1>5. x \in VcrType
  BY <1>2, Zenon DEF VcrType
<1>6. /\ x.mode = s.mode /\ x.gen = s.gen /\ x.playhead = s.playhead /\ x.buffer = s.buffer
      /\ x.applied = s.applied /\ x.ticks = s.ticks /\ x.timer = s.timer
      /\ x.reqs = s.reqs /\ x.issued = s.issued /\ x.latest = s.latest
      /\ x.runs = s.runs + 1 /\ x.runs \in Nat \ {0} /\ x.buffer \in Nat
  BY <1>2 DEF VcrType
<1>7. x.frozen = s.frozen
  BY <1>2, Zenon DEF VcrType
<1> HIDE DEF x
<1>8. Good(x)
  BY <1>1, <1>5, <1>6, <1>7, ZenonT(60) DEF Good, RequestsKnown, AwaitedIsLatest, Awaited, ReplayExact
<1>9. NoneAwaited(x)
  BY <1>3, <1>6, Zenon DEF NoneAwaited, Awaited
<1> QED BY <1>1, <1>4, <1>6, <1>8, <1>9, TickGood

(* A packet in the buffer moves the playhead no further than the trim. *)
LEMMA BufferGood ==
  ASSUME NEW v, Good(v)
  PROVE  Good(bufferPacket(v))
<1> DEFINE full == v.buffer + 1 > BufferCap
           b == IF full THEN v.buffer + 1 - BufferTrim ELSE v.buffer + 1
           p == IF full /\ v.playhead >= 0 THEN MaxOf(0, v.playhead - BufferTrim) ELSE v.playhead
           m == IF v.mode = "PAUSED" THEN v.missed + 1 ELSE v.missed
           r == bufferPacket(v)
<1>1. v \in VcrType /\ v.buffer \in Nat /\ v.missed \in Nat /\ v.playhead \in -1..v.buffer
  BY DEF Good, VcrType, ReplayExact
<1>2. b \in Nat /\ p \in Int /\ m \in Nat /\ p \in -1..b
  BY <1>1, LiveVcrAssumption DEF MaxOf
<1>3. r = [v EXCEPT !.buffer = b, !.playhead = p, !.missed = m]
  BY <1>1, Zenon DEF bufferPacket, VcrType
<1> HIDE DEF b, p, m, r
<1>4. r \in VcrType
  BY <1>1, <1>2, <1>3, Zenon DEF VcrType
<1>5. /\ r.mode = v.mode /\ r.gen = v.gen /\ r.playhead = p /\ r.buffer = b
      /\ r.applied = v.applied /\ r.ticks = v.ticks /\ r.timer = v.timer
      /\ r.reqs = v.reqs /\ r.issued = v.issued /\ r.latest = v.latest
  BY <1>1, <1>3 DEF VcrType
<1>6. r.frozen = v.frozen
  BY <1>1, <1>3, Zenon DEF VcrType
<1>7. RequestsKnown(r) /\ AwaitedIsLatest(r)
  BY <1>5, Zenon DEF Good, RequestsKnown, AwaitedIsLatest, Awaited
<1>8. ReplayExact(r)
  BY <1>2, <1>5, <1>6, Zenon DEF Good, ReplayExact
<1> QED BY <1>4, <1>7, <1>8 DEF Good, r

(* A request that has settled is dropped, and nothing else changes. *)
LEMMA SettledGood ==
  ASSUME NEW v, Good(v), NEW q \in v.reqs
  PROVE  /\ Good([v EXCEPT !.reqs = v.reqs \ {q}])
         /\ [v EXCEPT !.reqs = v.reqs \ {q}].gen = v.gen
<1> DEFINE r == [v EXCEPT !.reqs = v.reqs \ {q}]
<1>1. v \in VcrType
  BY DEF Good
<1>2. v.reqs \ {q} \in SUBSET [id : Nat, kind : {"from", "rewind", "next"}, gen : Nat, visit : Nat]
  BY <1>1 DEF VcrType
<1>3. r \in VcrType
  BY <1>1, <1>2, Zenon DEF VcrType
<1>4. /\ r.mode = v.mode /\ r.gen = v.gen /\ r.playhead = v.playhead /\ r.buffer = v.buffer
      /\ r.applied = v.applied /\ r.ticks = v.ticks /\ r.timer = v.timer
      /\ r.reqs = v.reqs \ {q} /\ r.issued = v.issued /\ r.latest = v.latest
  BY <1>1 DEF VcrType
<1>5. r.frozen = v.frozen
  BY <1>1, Zenon DEF VcrType
<1> HIDE DEF r
<1>6. RequestsKnown(r) /\ AwaitedIsLatest(r)
  BY <1>4 DEF Good, RequestsKnown, AwaitedIsLatest, Awaited
<1>7. ReplayExact(r)
  BY <1>4, <1>5, Zenon DEF Good, ReplayExact
<1> QED BY <1>3, <1>4, <1>6, <1>7 DEF Good, r

(* An answer that passes the generation test is the latest command's or of *)
(* an earlier visit; after it nobody waits, and nothing is armed.          *)
LEMMA AcceptGood ==
  ASSUME NEW v, Good(v), NEW q \in v.reqs, q.kind # "next", q.gen = v.gen
  PROVE  LET w == Accept([v EXCEPT !.reqs = v.reqs \ {q}], q)
         IN /\ Good(w) /\ NoneAwaited(w)
            /\ w.ticks # {} => w.applied = "foreign"
<1> DEFINE s == [v EXCEPT !.reqs = v.reqs \ {q}]
           a == IF v.applied = "foreign" \/ ~mounted \/ q.visit # visit THEN "foreign"
                ELSE IF q.id = v.latest THEN "fresh" ELSE "stale"
           w == Accept(s, q)
<1>1. Good(s) /\ v \in VcrType
  BY SettledGood DEF Good
<1>2. s \in VcrType /\ s.applied = v.applied /\ s.latest = v.latest /\ s.reqs = v.reqs \ {q}
      /\ s.gen = v.gen /\ s.timer = v.timer /\ s.ticks = v.ticks
  <2>1. s \in VcrType
    BY <1>1 DEF Good
  <2> QED BY <1>1, <2>1 DEF VcrType
<1>3. w = [s EXCEPT !.applied = a]
  BY <1>2, Zenon DEF Accept, VcrType
<1>4. a # "foreign" => Awaited(v, q) /\ v.applied # "foreign"
  BY DEF Awaited
<1>5. a # "foreign" => q.id = v.latest /\ v.timer = 0
  BY <1>4 DEF Good, AwaitedIsLatest
<1>6. a \in {"foreign", "fresh"}
  BY <1>5
<1>7. a # "foreign" => v.ticks = {}
  <2> SUFFICES ASSUME a # "foreign", NEW t \in v.ticks PROVE FALSE
    OBVIOUS
  <2> QED BY <1>5 DEF Good, ReplayExact
<1>8. a # "foreign" => \A r \in v.reqs \ {q} : ~Awaited(v, r)
  <2> SUFFICES ASSUME a # "foreign", NEW r \in v.reqs \ {q}, Awaited(v, r) PROVE FALSE
    OBVIOUS
  <2>1. r.id = v.latest /\ q.id = v.latest
    BY <1>4, <1>5 DEF Good, AwaitedIsLatest
  <2> QED BY <2>1 DEF Good, RequestsKnown
<1> HIDE DEF s, a, w
<1>9. w \in VcrType
  BY <1>2, <1>3, <1>6, Zenon DEF VcrType
<1>10. /\ w.mode = s.mode /\ w.gen = s.gen /\ w.playhead = s.playhead /\ w.buffer = s.buffer
       /\ w.applied = a /\ w.ticks = s.ticks /\ w.timer = s.timer
       /\ w.reqs = s.reqs /\ w.issued = s.issued /\ w.latest = s.latest
  BY <1>2, <1>3 DEF VcrType
<1>11. w.frozen = s.frozen
  BY <1>2, <1>3, Zenon DEF VcrType
<1>12. NoneAwaited(w)
  BY <1>2, <1>8, <1>10, Zenon DEF NoneAwaited, Awaited
<1>13. w.ticks # {} => w.applied = "foreign"
  BY <1>2, <1>7, <1>10
<1>14. RequestsKnown(w)
  BY <1>1, <1>10, Zenon DEF Good, RequestsKnown
<1>15. AwaitedIsLatest(w)
  BY <1>12, Zenon DEF AwaitedIsLatest, NoneAwaited
<1>16. ReplayExact(w)
  BY <1>1, <1>6, <1>10, <1>11, <1>13, Zenon DEF Good, ReplayExact
<1> QED BY <1>9, <1>12, <1>13, <1>14, <1>15, <1>16 DEF Good, s, w

(* What the buffer holds, where the playhead is inside it, and what else   *)
(* the requests and the timer do not depend on, may change freely.         *)
LEMMA SameGood ==
  ASSUME NEW v, Good(v), NEW w \in VcrType,
         w.playhead \in -1..w.buffer,
         w.mode = v.mode, w.gen = v.gen, w.applied = v.applied, w.ticks = v.ticks, w.timer = v.timer,
         w.reqs = v.reqs, w.issued = v.issued, w.latest = v.latest,
         v.frozen => w.frozen
  PROVE  Good(w) /\ (NoneAwaited(v) => NoneAwaited(w))
BY Zenon DEF Good, RequestsKnown, AwaitedIsLatest, Awaited, NoneAwaited, ReplayExact

(* A buffer replaced by an answer: the playhead is at its start. *)
LEMMA ReplacedGood ==
  ASSUME NEW v, Good(v), NEW n \in Nat
  PROVE  LET w == [v EXCEPT !.buffer = n, !.playhead = 0, !.scrub = FALSE]
         IN Good(w) /\ (NoneAwaited(v) => NoneAwaited(w))
<1> DEFINE w == [v EXCEPT !.buffer = n, !.playhead = 0, !.scrub = FALSE]
<1>1. v \in VcrType /\ 0 \in Int
  BY DEF Good
<1>2. w \in VcrType /\ w.frozen = v.frozen
  BY <1>1, Zenon DEF VcrType
<1>3. /\ w.mode = v.mode /\ w.gen = v.gen /\ w.playhead \in -1..w.buffer
      /\ w.applied = v.applied /\ w.ticks = v.ticks /\ w.timer = v.timer
      /\ w.reqs = v.reqs /\ w.issued = v.issued /\ w.latest = v.latest
  BY <1>1 DEF VcrType
<1> HIDE DEF w
<1>4. Good(w) /\ (NoneAwaited(v) => NoneAwaited(w))
  BY <1>2, <1>3, SameGood
<1> QED BY <1>4 DEF w

(* A buffer extended by an answer, the playhead sent to its start or not. *)
LEMMA ExtendedGood ==
  ASSUME NEW v, Good(v), NEW n \in Nat
  PROVE  /\ Good([v EXCEPT !.buffer = v.buffer + n])
         /\ LET w == [v EXCEPT !.buffer = v.buffer + n, !.playhead = 0]
            IN Good(w) /\ (NoneAwaited(v) => NoneAwaited(w)) /\ w.ticks = v.ticks /\ w.applied = v.applied
<1> DEFINE x == [v EXCEPT !.buffer = v.buffer + n]
           w == [v EXCEPT !.buffer = v.buffer + n, !.playhead = 0]
<1>1. v \in VcrType /\ 0 \in Int /\ v.buffer + n \in Nat /\ v.playhead \in -1..v.buffer
      /\ v.buffer \in Nat
  BY DEF Good, VcrType, ReplayExact
<1>2. x \in VcrType /\ x.frozen = v.frozen /\ w \in VcrType /\ w.frozen = v.frozen
  BY <1>1, Zenon DEF VcrType
<1>3. /\ w.mode = v.mode /\ w.gen = v.gen /\ w.playhead \in -1..w.buffer
      /\ w.applied = v.applied /\ w.ticks = v.ticks /\ w.timer = v.timer
      /\ w.reqs = v.reqs /\ w.issued = v.issued /\ w.latest = v.latest
  BY <1>1 DEF VcrType
<1>4. /\ x.mode = v.mode /\ x.gen = v.gen /\ x.playhead \in -1..x.buffer
      /\ x.applied = v.applied /\ x.ticks = v.ticks /\ x.timer = v.timer
      /\ x.reqs = v.reqs /\ x.issued = v.issued /\ x.latest = v.latest
  BY <1>1 DEF VcrType
<1> HIDE DEF x, w
<1>5. Good(x)
  BY <1>2, <1>4, SameGood
<1>6. Good(w) /\ (NoneAwaited(v) => NoneAwaited(w)) /\ w.ticks = v.ticks /\ w.applied = v.applied
  BY <1>2, <1>3, SameGood
<1> QED BY <1>5, <1>6 DEF x, w

(* Whatever an answer is and whenever it comes, the VCR stays good. *)
LEMMA AnswersGood ==
  ASSUME NEW v, Good(v), visit \in Nat, NEW q \in v.reqs,
         NEW w \in Answers([v EXCEPT !.reqs = @ \ {q}], q)
  PROVE  Good(w)
<1> DEFINE s == [v EXCEPT !.reqs = v.reqs \ {q}]
<1>1. v \in VcrType /\ q.kind \in {"from", "rewind", "next"}
  BY DEF Good, VcrType
<1>2. w \in Answers(s, q)
  BY <1>1, Zenon DEF VcrType
<1>3. Good(s) /\ s.gen = v.gen
  BY SettledGood
<1>4. q.kind # "next" /\ Current(s, q) =>
        Good(Accept(s, q)) /\ NoneAwaited(Accept(s, q))
        /\ (Accept(s, q).ticks # {} => Accept(s, q).applied = "foreign")
  BY <1>3, AcceptGood DEF Current
<1> HIDE DEF s
<1>5. CASE w \in Failure(s, q)
  BY <1>3, <1>5, ResumeGood DEF Failure
<1>6. ASSUME NEW n \in 0..MaxFetched, q.kind = "from", w \in AnswerFrom(s, q, n) PROVE Good(w)
  <2>1. CASE ~Current(s, q)
    BY <1>3, <1>6, <2>1 DEF AnswerFrom
  <2>2. CASE Current(s, q) /\ n = 0
    <3>1. w = vcrSetMode(Accept(s, q), "PAUSED")
      BY <1>6, <2>2 DEF AnswerFrom
    <3> QED BY <1>4, <1>6, <2>2, <3>1, SetModeGood
  <2>3. CASE Current(s, q) /\ n # 0
    <3> DEFINE a == Accept(s, q)
               x == [a EXCEPT !.buffer = n, !.playhead = 0, !.scrub = FALSE]
    <3>1. w \in startReplay(x)
      BY <1>6, <2>3 DEF AnswerFrom
    <3>2. Good(a) /\ NoneAwaited(a) /\ n \in Nat
      BY <1>4, <1>6, <2>3, LiveVcrAssumption
    <3> HIDE DEF a
    <3>3. Good(x) /\ NoneAwaited(x)
      BY <3>2, ReplacedGood
    <3> QED BY <3>1, <3>3, StartGood
  <2> QED BY <2>1, <2>2, <2>3
<1>7. ASSUME NEW n \in 0..MaxFetched, q.kind = "rewind", w \in AnswerRewind(s, q, n) PROVE Good(w)
  <2>1. CASE ~Current(s, q)
    BY <1>3, <1>7, <2>1 DEF AnswerRewind
  <2>2. CASE Current(s, q)
    <3> DEFINE a == Accept(s, q)
               x == [a EXCEPT !.buffer = a.buffer + n, !.playhead = 0]
               y == vcrSetMode(x, "REPLAY")
    <3>1. Good(a) /\ NoneAwaited(a) /\ n \in Nat
      BY <1>4, <1>7, <2>2, LiveVcrAssumption
    <3>2. w \in startReplay(y)
      <4>1. [a EXCEPT !.buffer = @ + n, !.playhead = 0] = x
        BY <3>1, Zenon DEF Good, VcrType
      <4> QED BY <1>7, <2>2, <4>1 DEF AnswerRewind
    <3> HIDE DEF a
    <3>3. Good(x) /\ NoneAwaited(x)
      BY <3>1, ExtendedGood
    <3> HIDE DEF x
    <3>4. Good(y) /\ NoneAwaited(y)
      BY <3>3, SetModeGood
    <3> QED BY <3>2, <3>4, StartGood
  <2> QED BY <2>1, <2>2
<1>8. ASSUME NEW n \in 0..MaxFetched, q.kind = "next", w \in AnswerNext(s, q, n) PROVE Good(w)
  <2> DEFINE x == [s EXCEPT !.buffer = s.buffer + n]
  <2>1. Good(x)
    <3>1. n \in Nat
      BY LiveVcrAssumption
    <3> QED BY <1>3, <3>1, ExtendedGood, Zenon
  <2>2. w = vcrResumeLive(x) \/ w = vcrResumeLive(s)
    <3>1. [s EXCEPT !.buffer = @ + n] = x
      BY <1>3, Zenon DEF Good, VcrType
    <3> QED BY <1>8, <3>1 DEF AnswerNext
  <2> QED BY <1>3, <2>1, <2>2, ResumeGood
<1>9. CASE w \notin Failure(s, q)
  <2>1. PICK n \in 0..MaxFetched : w \in CASE q.kind = "from" -> AnswerFrom(s, q, n)
                                          [] q.kind = "rewind" -> AnswerRewind(s, q, n)
                                          [] q.kind = "next" -> AnswerNext(s, q, n)
    BY <1>2, <1>9, Zenon DEF Answers
  <2>2. CASE q.kind = "from"
    BY <1>6, <2>1, <2>2
  <2>3. CASE q.kind = "rewind"
    BY <1>7, <2>1, <2>3
  <2>4. CASE q.kind = "next"
    BY <1>8, <2>1, <2>4
  <2> QED BY <1>1, <2>2, <2>3, <2>4
<1> QED BY <1>5, <1>9

------------------------------------------------------------------------------
(* The steps. *)

(* Within a visit, what is good stays good into the next state. *)
LEMMA Within ==
  ASSUME NEW w, VCR' = w, Good(w), UNCHANGED <<mounted, visit>>
  PROVE  Good(VCR)'
<1>1. RequestsKnown(VCR)'
  BY DEF Good, RequestsKnown
<1>2. AwaitedIsLatest(VCR)'
  BY DEF Good, AwaitedIsLatest, Awaited
<1>3. ReplayExact(VCR)'
  BY Zenon DEF Good, ReplayExact
<1> QED BY <1>1, <1>2, <1>3 DEF Good

(* A timer that is set is one nobody's command has cleared. *)
LEMMA TimedNoneAwaited ==
  ASSUME NEW v, Good(v), v.timer # 0
  PROVE  NoneAwaited(v)
BY DEF Good, AwaitedIsLatest, NoneAwaited

LEMMA PauseKeeps ==
  ASSUME Good(VCR), visit \in Nat, PauseButton
  PROVE  Good(VCR)'
<1> DEFINE w == CASE VCR.mode = "PAUSED" -> vcrUnpause(VCR)
                  [] VCR.mode = "REPLAY" -> vcrSetMode(stopReplay(VCR), "PAUSED")
                  [] VCR.mode = "LIVE" -> vcrPause(VCR)
<1>1. VCR' = w /\ UNCHANGED <<mounted, visit>>
  BY DEF PauseButton, Command
<1>2. VCR.mode \in {"LIVE", "PAUSED", "REPLAY"}
  BY DEF Good, VcrType
<1>3. CASE VCR.mode = "PAUSED"
  <2>1. Good(vcrUnpause(VCR))
    BY ReplayFromGood, ResumeGood DEF vcrUnpause
  <2> QED BY <1>1, <1>3, <2>1, Within
<1>4. CASE VCR.mode = "REPLAY"
  <2>1. Good(vcrSetMode(stopReplay(VCR), "PAUSED"))
    BY StopGood, SetModeGood
  <2> QED BY <1>1, <1>4, <2>1, Within
<1>5. CASE VCR.mode = "LIVE"
  <2> DEFINE s == stopReplay(VCR)
             x == [s EXCEPT !.missed = 0]
  <2>1. Good(s) /\ s.ticks = {}
    BY StopGood
  <2> HIDE DEF s
  <2>2. s \in VcrType
    BY <2>1 DEF Good
  <2>3. x \in VcrType /\ x.frozen = s.frozen
    BY <2>2, Zenon DEF VcrType
  <2>4. /\ x.mode = s.mode /\ x.gen = s.gen /\ x.playhead \in -1..x.buffer
        /\ x.applied = s.applied /\ x.ticks = s.ticks /\ x.timer = s.timer
        /\ x.reqs = s.reqs /\ x.issued = s.issued /\ x.latest = s.latest
    BY <2>1, <2>2 DEF VcrType, Good, ReplayExact
  <2> HIDE DEF x
  <2>5. Good(x) /\ x.ticks = {}
    BY <2>1, <2>3, <2>4, SameGood
  <2>6. Good(vcrSetMode(x, "PAUSED"))
    BY <2>5, SetModeGood
  <2> QED BY <1>1, <1>5, <2>6, Within DEF vcrPause, x, s
<1> QED BY <1>2, <1>3, <1>4, <1>5

LEMMA SpeedKeeps ==
  ASSUME Good(VCR), visit \in Nat, vcrSpeedCycle
  PROVE  Good(VCR)'
<1>1. VCR' \in startReplay(VCR) /\ VCR.timer # 0 /\ UNCHANGED <<mounted, visit>>
  BY DEF vcrSpeedCycle, Command
<1>2. PICK w \in startReplay(VCR) : VCR' = w
  BY <1>1
<1>3. Good(w)
  BY <1>1, StartGood, TimedNoneAwaited
<1> QED BY <1>1, <1>2, <1>3, Within

LEMMA DragKeeps ==
  ASSUME Good(VCR), DragStart
  PROVE  Good(VCR)'
<1> DEFINE s == stopReplay(VCR)
           x == [s EXCEPT !.dragging = TRUE, !.scrub = FALSE, !.frozen = TRUE]
<1>1. Good(s)
  BY StopGood
<1>2. VCR' = x /\ UNCHANGED <<mounted, visit>>
  BY DEF DragStart, Command
<1> HIDE DEF s
<1>3. s \in VcrType
  BY <1>1 DEF Good
<1>4. x \in VcrType /\ x.frozen
  BY <1>3, Zenon DEF VcrType
<1>5. /\ x.mode = s.mode /\ x.gen = s.gen /\ x.playhead \in -1..x.buffer
      /\ x.applied = s.applied /\ x.ticks = s.ticks /\ x.timer = s.timer
      /\ x.reqs = s.reqs /\ x.issued = s.issued /\ x.latest = s.latest
  BY <1>1, <1>3 DEF VcrType, Good, ReplayExact
<1> HIDE DEF x
<1>6. Good(x)
  BY <1>1, <1>4, <1>5, SameGood
<1> QED BY <1>2, <1>6, Within

LEMMA ReleaseKeeps ==
  ASSUME Good(VCR), visit \in Nat, scrubRelease
  PROVE  Good(VCR)'
<1> DEFINE s == vcrReplayFromTs(VCR)
           x == [s EXCEPT !.dragging = FALSE, !.scrub = TRUE]
<1>1. Good(s)
  BY ReplayFromGood
<1>2. VCR' = x /\ UNCHANGED <<mounted, visit>>
  BY DEF scrubRelease, Command
<1> HIDE DEF s
<1>3. s \in VcrType
  BY <1>1 DEF Good
<1>4. x \in VcrType /\ x.frozen = s.frozen
  BY <1>3, Zenon DEF VcrType
<1>5. /\ x.mode = s.mode /\ x.gen = s.gen /\ x.playhead \in -1..x.buffer
      /\ x.applied = s.applied /\ x.ticks = s.ticks /\ x.timer = s.timer
      /\ x.reqs = s.reqs /\ x.issued = s.issued /\ x.latest = s.latest
  BY <1>1, <1>3 DEF VcrType, Good, ReplayExact
<1> HIDE DEF x
<1>6. Good(x)
  BY <1>1, <1>4, <1>5, SameGood
<1> QED BY <1>2, <1>6, Within

LEMMA TimerKeeps ==
  ASSUME Good(VCR), visit \in Nat, TimerFires
  PROVE  Good(VCR)'
<1>1. PICK t \in VCR.ticks : VCR' \in tick([VCR EXCEPT !.ticks = @ \ {t}], t.run, t.left)
  BY DEF TimerFires
<1> DEFINE x == [VCR EXCEPT !.ticks = {}]
<1>2. VCR \in VcrType /\ VCR.ticks \ {t} = {} /\ t.run \in Nat \ {0} /\ t.left \in Nat
      /\ VCR.timer # 0 /\ {} \in SUBSET [run : Nat, left : Nat]
  BY DEF Good, VcrType, ReplayExact
<1>3. [VCR EXCEPT !.ticks = @ \ {t}] = x
  BY <1>2, Zenon DEF VcrType
<1>4. x \in VcrType /\ x.frozen = VCR.frozen
  BY <1>2, Zenon DEF VcrType
<1>5. /\ x.mode = VCR.mode /\ x.gen = VCR.gen /\ x.playhead = VCR.playhead /\ x.buffer = VCR.buffer
      /\ x.applied = VCR.applied /\ x.ticks = {} /\ x.timer = VCR.timer
      /\ x.reqs = VCR.reqs /\ x.issued = VCR.issued /\ x.latest = VCR.latest
  BY <1>2 DEF VcrType
<1> HIDE DEF x
<1>6. Good(x)
  BY <1>4, <1>5, Zenon DEF Good, RequestsKnown, AwaitedIsLatest, Awaited, ReplayExact
<1>7. PICK w \in tick(x, t.run, t.left) : VCR' = w
  BY <1>1, <1>3
<1>8. Good(w)
  BY <1>2, <1>5, <1>6, TickGood, TimedNoneAwaited
<1> QED BY <1>7, <1>8, Within DEF TimerFires

LEMMA AnswerKeeps ==
  ASSUME Good(VCR), visit \in Nat, Answer
  PROVE  Good(VCR)'
<1>1. PICK q \in VCR.reqs : VCR' \in Answers([VCR EXCEPT !.reqs = @ \ {q}], q)
  BY DEF Answer
<1>2. PICK w \in Answers([VCR EXCEPT !.reqs = @ \ {q}], q) : VCR' = w
  BY <1>1
<1>3. Good(w)
  BY <1>2, AnswersGood
<1> QED BY <1>2, <1>3, Within DEF Answer

(* No request is of the visit that begins. *)
LEMMA MountKeeps ==
  ASSUME Good(VCR), visit \in Nat, VcrMount
  PROVE  Good(VCR)'
<1> DEFINE x == [VCR EXCEPT !.dragging = FALSE]
<1>1. VCR \in VcrType /\ VCR' = x /\ visit' = visit + 1
  BY DEF Good, VcrMount
<1>2. x \in VcrType /\ x.frozen = VCR.frozen
  BY <1>1, Zenon DEF VcrType
<1>3. /\ x.mode = VCR.mode /\ x.gen = VCR.gen /\ x.playhead = VCR.playhead /\ x.buffer = VCR.buffer
      /\ x.applied = VCR.applied /\ x.ticks = VCR.ticks /\ x.timer = VCR.timer
      /\ x.reqs = VCR.reqs /\ x.issued = VCR.issued /\ x.latest = VCR.latest
  BY <1>1 DEF VcrType
<1> HIDE DEF x
<1>4. \A q \in VCR.reqs : q.visit \in Nat /\ q.visit <= visit
  BY <1>1 DEF Good, RequestsKnown, VcrType
<1>5. RequestsKnown(VCR)'
  BY <1>1, <1>3, <1>4 DEF Good, RequestsKnown
<1>6. AwaitedIsLatest(VCR)'
  BY <1>1, <1>3, <1>4 DEF AwaitedIsLatest, Awaited
<1>7. ReplayExact(VCR)'
  BY <1>1, <1>2, <1>3, Zenon DEF Good, ReplayExact
<1> QED BY <1>1, <1>2, <1>5, <1>6, <1>7 DEF Good

(* After the page is left nobody waits. *)
LEMMA DestroyKeeps ==
  ASSUME Good(VCR), VcrDestroy
  PROVE  Good(VCR)'
<1> DEFINE s == stopReplay(VCR)
           x == [s EXCEPT !.buffer = 0, !.playhead = -1, !.mode = "LIVE", !.missed = 0, !.gen = 0,
                          !.latest = 0]
<1>1. Good(s) /\ s.ticks = {}
  BY StopGood
<1>2. VCR' = x /\ mounted' = FALSE /\ visit' = visit
  BY DEF VcrDestroy
<1> HIDE DEF s
<1>3. s \in VcrType /\ 0 \in Nat /\ -1 \in Int
  BY <1>1 DEF Good
<1>4. x \in VcrType
  BY <1>3, Zenon DEF VcrType
<1>5. /\ x.mode = "LIVE" /\ x.gen = 0 /\ x.playhead = -1 /\ x.buffer = 0
      /\ x.applied = s.applied /\ x.ticks = s.ticks /\ x.timer = s.timer
      /\ x.reqs = s.reqs /\ x.issued = s.issued
  BY <1>3 DEF VcrType
<1> HIDE DEF x
<1>6. RequestsKnown(VCR)'
  BY <1>1, <1>2, <1>5 DEF Good, RequestsKnown
<1>7. AwaitedIsLatest(VCR)'
  BY <1>2 DEF AwaitedIsLatest, Awaited
<1>8. ReplayExact(VCR)'
  BY <1>1, <1>2, <1>5 DEF Good, ReplayExact
<1> QED BY <1>2, <1>4, <1>6, <1>7, <1>8 DEF Good

(* The inductive invariant holds at the start. *)
LEMMA VcrInvInit == VcrInit => VcrInv
<1> SUFFICES ASSUME VcrInit PROVE VcrInv
  OBVIOUS
<1>1. /\ VCR.mode = "LIVE" /\ VCR.gen = 0 /\ VCR.playhead = -1 /\ VCR.buffer = 0
      /\ VCR.applied = "none" /\ VCR.ticks = {} /\ VCR.timer = 0 /\ VCR.reqs = {}
  BY DEF VcrInit
<1>2. VCR \in VcrType
  <2>1. 0 \in Nat /\ -1 \in Int
    OBVIOUS
  <2> QED BY <2>1, Zenon DEF VcrInit, VcrType
<1>3. RequestsKnown(VCR) /\ AwaitedIsLatest(VCR) /\ ReplayExact(VCR)
  BY <1>1 DEF RequestsKnown, AwaitedIsLatest, ReplayExact
<1>4. visit \in 0..MaxVisits /\ commands \in 0..MaxCommands /\ arrivals \in 0..MaxArrivals
  BY LiveVcrAssumption DEF VcrInit
<1>5. mounted \in BOOLEAN
  BY Zenon DEF VcrInit
<1> QED BY <1>2, <1>3, <1>4, <1>5 DEF VcrInv, VcrTypeOK, Good

(* Every step keeps it. *)
LEMMA VcrInvNext == VcrInv /\ [VcrNext]_vcrVars => VcrInv'
<1> SUFFICES ASSUME VcrInv, [VcrNext]_vcrVars PROVE VcrInv'
  OBVIOUS
<1>1. Good(VCR) /\ visit \in 0..MaxVisits /\ visit \in Nat /\ mounted \in BOOLEAN
      /\ commands \in 0..MaxCommands /\ arrivals \in 0..MaxArrivals
  BY LiveVcrAssumption DEF VcrInv, VcrTypeOK
<1>2. Good(VCR)'
  <2>1. CASE PauseButton
    BY <1>1, <2>1, PauseKeeps
  <2>2. CASE LiveButton
    <3>1. VCR' = vcrResumeLive(VCR) /\ UNCHANGED <<mounted, visit>>
      BY <2>2 DEF LiveButton, Command
    <3> QED BY <1>1, <3>1, ResumeGood, Within
  <2>3. CASE vcrRewind
    <3>1. VCR' = Ask(VCR, "rewind") /\ UNCHANGED <<mounted, visit>>
      BY <2>3 DEF vcrRewind, Command
    <3> QED BY <1>1, <3>1, AskGood, Within
  <2>4. CASE vcrSpeedCycle
    BY <1>1, <2>4, SpeedKeeps
  <2>5. CASE DragStart
    BY <1>1, <2>5, DragKeeps
  <2>6. CASE scrubRelease
    BY <1>1, <2>6, ReleaseKeeps
  <2>7. CASE Packet
    <3>1. VCR' = bufferPacket(VCR) /\ UNCHANGED <<mounted, visit>>
      BY <2>7 DEF Packet
    <3> QED BY <1>1, <3>1, BufferGood, Within
  <2>8. CASE TimerFires
    BY <1>1, <2>8, TimerKeeps
  <2>9. CASE Answer
    BY <1>1, <2>9, AnswerKeeps
  <2>10. CASE VcrMount
    BY <1>1, <2>10, MountKeeps
  <2>11. CASE VcrDestroy
    BY <1>1, <2>11, DestroyKeeps
  <2>12. CASE UNCHANGED vcrVars
    BY <1>1, <2>12, Within DEF vcrVars
  <2> QED BY <2>1, <2>2, <2>3, <2>4, <2>5, <2>6, <2>7, <2>8, <2>9, <2>10, <2>11, <2>12 DEF VcrNext
<1>3. mounted' \in BOOLEAN
  BY <1>1, Zenon DEF VcrNext, vcrVars, PauseButton, LiveButton, vcrRewind, vcrSpeedCycle,
       DragStart, scrubRelease, Command, Packet, TimerFires, Answer, VcrMount, VcrDestroy
<1>4. visit' \in 0..MaxVisits /\ commands' \in 0..MaxCommands /\ arrivals' \in 0..MaxArrivals
  BY <1>1, LiveVcrAssumption DEF VcrNext, vcrVars, PauseButton, LiveButton, vcrRewind, vcrSpeedCycle,
       DragStart, scrubRelease, Command, Packet, TimerFires, Answer, VcrMount, VcrDestroy
<1> QED BY <1>2, <1>3, <1>4 DEF VcrInv, VcrTypeOK, Good

(* The VCR object, its timers and its requests have their types, however   *)
(* many visits, commands and late answers there were (live.js, VCR).       *)
THEOREM VcrTyped == VcrSpec => []VcrTypeOK
<1>1. VcrInv => VcrTypeOK
  BY DEF VcrInv
<1> QED BY <1>1, VcrInvInit, VcrInvNext, PTL DEF VcrSpec

(* The playhead is inside the buffer, no answer of a command given up      *)
(* since is put into it, time stands still outside LIVE, and one replay at *)
(* most is armed, by the timer VCR.replayTimer holds.                      *)
THEOREM VcrConsistentThm == VcrSpec => []VcrConsistent
<1>1. VcrInv => VcrConsistent
  BY DEF VcrInv, Good, ReplayExact, VcrConsistent, PlayheadInRange, NewestCommandWins,
         FrozenWhileNotLive, ArmedOnlyInReplay, OneReplay
<1> QED BY <1>1, VcrInvInit, VcrInvNext, PTL DEF VcrSpec

------------------------------------------------------------------------------
(* The page of the live map: init, destroy, switches, filter.              *)

PageRec ==
    [page : 0..MaxStays, map : BOOLEAN, box : BOOLEAN, ws : 0..MaxStays, subs : SUBSET Visits, wired : [Sections -> Nat],
     heat : BOOLEAN, heatEnabled : BOOLEAN, heatBox : {"on", "off", "disabled"}, matrix : BOOLEAN,
     full : BOOLEAN, fullSaved : BOOLEAN, keyFor : 0..MaxStays, pins : 0..1, pinFor : 0..MaxStays, autohide : BOOLEAN]
FilterRec ==
    [text : Texts, pend : BOOLEAN, late : SUBSET Texts, stray : BOOLEAN, filter : Texts, url : Texts, drop : Texts,
     asks : SUBSET Texts]

PageTyped ==
    /\ lp \in PageRec /\ nf \in FilterRec
    /\ inits \in [Visits -> {"none", "config", "nodes", "done", "failed"}]

\* There is a map only on a page, working controls only with a map, and the
\* heat box is locked by matrix mode and by nothing else.
PageShape ==
    /\ lp.map => lp.page # 0
    /\ Wired(lp) => lp.map
    /\ lp.page # 0 => (lp.matrix <=> lp.heatBox = "disabled")

\* Nobody can have typed before the controls work, nor an earlier page's timer
\* have written where no page is.
NothingTyped ==
    /\ ~Wired(lp) /\ ~nf.stray => nf.text = ""
    /\ lp.page = 0 => ~nf.stray

PageInv ==
    /\ PageTyped /\ PageShape /\ NothingTyped
    /\ OneSubscription /\ ReadyPageListens /\ MatrixOwnsHeat /\ NothingOutlivesPage /\ FilterMatchesInput

LEMMA PageStarts == PageInit => PageInv
<1> SUFFICES ASSUME PageInit PROVE PageInv
  OBVIOUS
<1>1. ~Wired(lp)
  BY DEF PageInit, Wired, Sections
<1>2. lp \in PageRec
  BY LivePageAssumption DEF PageInit, PageRec, Sections, Visits
<1>3. nf \in FilterRec
  BY DEF PageInit, FilterRec, NoFilter, Texts
<1> QED BY <1>1, <1>2, <1>3 DEF PageInit, PageInv, PageTyped, PageShape, NothingTyped, OneSubscription, ReadyPageListens,
     MatrixOwnsHeat, NothingOutlivesPage, FilterMatchesInput, NoFilter

\* Two records of the page that differ in the listeners of a section at most.
OnlyWired(p, q) ==
    /\ q.page = p.page /\ q.map = p.map /\ q.box = p.box /\ q.ws = p.ws /\ q.subs = p.subs /\ q.heat = p.heat
    /\ q.heatEnabled = p.heatEnabled /\ q.heatBox = p.heatBox /\ q.matrix = p.matrix /\ q.full = p.full
    /\ q.fullSaved = p.fullSaved /\ q.keyFor = p.keyFor /\ q.pins = p.pins /\ q.pinFor = p.pinFor
    /\ q.autohide = p.autohide

LEMMA WireIs ==
  ASSUME NEW p \in PageRec, NEW s \in Sections
  PROVE  /\ Wire(p, s) \in PageRec
         /\ OnlyWired(p, Wire(p, s))
         /\ Wire(p, s).wired[s] > 0
         /\ \A r \in Sections : p.wired[r] > 0 => Wire(p, s).wired[r] > 0
<1> DEFINE q == Wire(p, s)
<1>1. p.wired \in [Sections -> Nat]
  BY DEF PageRec
<1>2. q.wired = [p.wired EXCEPT ![s] = @ + 1]
  BY DEF Wire, PageRec
<1>3. q.wired \in [Sections -> Nat]
  BY <1>1, <1>2
<1>4. OnlyWired(p, q)
  BY DEF Wire, PageRec, OnlyWired
<1>5. q = [p EXCEPT !.wired = [p.wired EXCEPT ![s] = @ + 1]]
  BY DEF Wire
<1>6. [p.wired EXCEPT ![s] = @ + 1] \in [Sections -> Nat]
  BY <1>1
<1>7. q \in PageRec
  BY <1>5, <1>6, Zenon DEF PageRec
<1>8. q.wired[s] = p.wired[s] + 1 /\ \A r \in Sections : r # s => q.wired[r] = p.wired[r]
  BY <1>1, <1>2
<1>9. \A r \in Sections : p.wired[r] \in Nat
  BY <1>1
<1> QED BY <1>4, <1>7, <1>8, <1>9

LEMMA ButtonsWired ==
  ASSUME NEW p \in PageRec
  PROVE  wireButtons(p) \in PageRec /\ OnlyWired(p, wireButtons(p)) /\ Wired(wireButtons(p))
<1> DEFINE a == initLiveRegionFilter(p)
           b == wireNodeFilter(a)
           c == wireAudio(b)
           d == wireFeedPanel(c)
           e == wireLiveCollapseToggles(d)
           f == wireLegendAndDrag(e)
           g == wireVcrBar(f)
<1>0. {"region", "filter", "audio", "feed", "collapse", "panels", "vcr"} = Sections
  BY DEF Sections
<1>1. a \in PageRec /\ OnlyWired(p, a) /\ a.wired["region"] > 0
  BY <1>0, WireIs DEF initLiveRegionFilter
<1> HIDE DEF a
<1>2. b \in PageRec /\ OnlyWired(a, b) /\ b.wired["filter"] > 0 /\ (\A r \in Sections : a.wired[r] > 0 => b.wired[r] > 0)
  BY <1>0, <1>1, WireIs DEF wireNodeFilter
<1> HIDE DEF b
<1>3. c \in PageRec /\ OnlyWired(b, c) /\ c.wired["audio"] > 0 /\ (\A r \in Sections : b.wired[r] > 0 => c.wired[r] > 0)
  BY <1>0, <1>2, WireIs DEF wireAudio
<1> HIDE DEF c
<1>4. d \in PageRec /\ OnlyWired(c, d) /\ d.wired["feed"] > 0 /\ (\A r \in Sections : c.wired[r] > 0 => d.wired[r] > 0)
  BY <1>0, <1>3, WireIs DEF wireFeedPanel
<1> HIDE DEF d
<1>5. e \in PageRec /\ OnlyWired(d, e) /\ e.wired["collapse"] > 0 /\ (\A r \in Sections : d.wired[r] > 0 => e.wired[r] > 0)
  BY <1>0, <1>4, WireIs DEF wireLiveCollapseToggles
<1> HIDE DEF e
<1>6. f \in PageRec /\ OnlyWired(e, f) /\ f.wired["panels"] > 0 /\ (\A r \in Sections : e.wired[r] > 0 => f.wired[r] > 0)
  BY <1>0, <1>5, WireIs DEF wireLegendAndDrag
<1> HIDE DEF f
<1>7. g \in PageRec /\ OnlyWired(f, g) /\ g.wired["vcr"] > 0 /\ (\A r \in Sections : f.wired[r] > 0 => g.wired[r] > 0)
  BY <1>0, <1>6, WireIs DEF wireVcrBar
<1>8. wireButtons(p) = g
  BY DEF wireButtons, a, b, c, d, e, f
<1> HIDE DEF g
<1>9. OnlyWired(p, g)
  BY <1>1, <1>2, <1>3, <1>4, <1>5, <1>6, <1>7 DEF OnlyWired
<1>10. Wired(g)
  BY <1>0, <1>1, <1>2, <1>3, <1>4, <1>5, <1>6, <1>7 DEF Wired, Sections
<1> QED BY <1>7, <1>8, <1>9, <1>10

\* The heat layer and its box follow matrix mode.
LEMMA SyncedIs ==
  ASSUME NEW p \in PageRec, NEW on \in BOOLEAN
  PROVE  LET q == syncHeatToggleToMatrix(p, on)
         IN /\ q \in PageRec
            /\ q.page = p.page /\ q.map = p.map /\ q.ws = p.ws /\ q.subs = p.subs /\ q.wired = p.wired
            /\ q.matrix = p.matrix /\ q.full = p.full /\ q.pins = p.pins /\ q.heatEnabled = p.heatEnabled
            /\ on => ~q.heat
            /\ ~on => q.heat = p.heat
            /\ on <=> q.heatBox = "disabled"
<1> DEFINE q == syncHeatToggleToMatrix(p, on)
<1>1. CASE on
  <2>1. q = [p EXCEPT !.heat = FALSE, !.heatBox = "disabled"]
    BY <1>1 DEF syncHeatToggleToMatrix, hideHeatMap, PageRec
  <2>2. q \in PageRec
    BY <2>1, Zenon DEF PageRec
  <2> HIDE DEF q
  <2>3. q.heat = FALSE /\ q.heatBox = "disabled"
    BY <2>1 DEF PageRec
  <2>4. /\ q.page = p.page /\ q.map = p.map /\ q.ws = p.ws /\ q.subs = p.subs /\ q.wired = p.wired
        /\ q.matrix = p.matrix /\ q.full = p.full /\ q.pins = p.pins /\ q.heatEnabled = p.heatEnabled
    BY <2>1 DEF PageRec
  <2> QED BY <1>1, <2>2, <2>3, <2>4 DEF q
<1>2. CASE ~on
  <2> DEFINE b == IF p.heatBox = "disabled" THEN "off" ELSE p.heatBox
  <2>1. q = [p EXCEPT !.heatBox = b]
    BY <1>2 DEF syncHeatToggleToMatrix
  <2>0. b \in {"on", "off"}
    BY DEF PageRec
  <2> HIDE DEF b
  <2>2. q \in PageRec
    BY <2>0, <2>1, Zenon DEF PageRec
  <2> HIDE DEF q
  <2>3. q.heatBox = b
    BY <2>1 DEF PageRec
  <2>4. /\ q.page = p.page /\ q.map = p.map /\ q.ws = p.ws /\ q.subs = p.subs /\ q.wired = p.wired
        /\ q.matrix = p.matrix /\ q.full = p.full /\ q.pins = p.pins /\ q.heatEnabled = p.heatEnabled
        /\ q.heat = p.heat
    BY <2>1 DEF PageRec
  <2> QED BY <1>2, <2>0, <2>2, <2>3, <2>4 DEF q
<1> QED BY <1>1, <1>2

LEMMA PageMountKeeps ==
  ASSUME PageInv, NEW v \in Visits, PageMount(v)
  PROVE  PageInv'
<1> DEFINE b == IF lp.heatEnabled THEN "on" ELSE "off"
           p == [lp EXCEPT !.page = v, !.box = FALSE, !.wired = Unwired]
           q == [p EXCEPT !.heatBox = b]
<1>1. lp \in PageRec /\ nf \in FilterRec /\ lp.page = 0 /\ ~lp.heat /\ ~lp.map /\ inits[v] = "none"
      /\ inits \in [Visits -> {"none", "config", "nodes", "done", "failed"}]
  BY DEF PageMount, PageInv, PageTyped, PageShape, NothingOutlivesPage
<1>2. v \in 1..MaxStays /\ v \in 0..MaxStays /\ v # 0
  BY LivePageAssumption DEF Visits
<1>3. Unwired \in [Sections -> Nat]
  BY DEF Unwired
<1>4. p \in PageRec
  BY <1>1, <1>2, <1>3, Zenon DEF PageRec
<1>5. p.page = v /\ p.wired = Unwired /\ p.map = lp.map /\ p.ws = lp.ws /\ p.subs = lp.subs /\ p.heat = lp.heat
      /\ p.matrix = lp.matrix /\ p.heatEnabled = lp.heatEnabled
  BY <1>1 DEF PageRec
<1> HIDE DEF p
<1>6. q \in PageRec
  BY <1>4, Zenon DEF PageRec
<1>7. q.page = v /\ q.wired = Unwired /\ q.map = lp.map /\ q.ws = lp.ws /\ q.subs = lp.subs /\ q.heat = lp.heat
      /\ q.matrix = lp.matrix
  BY <1>4, <1>5 DEF PageRec
<1> HIDE DEF q
<1>8. lp' = syncHeatToggleToMatrix(q, q.matrix)
  BY <1>5, <1>7 DEF PageMount, wireLiveControls, p, q
<1>9. q.matrix \in BOOLEAN
  BY <1>6 DEF PageRec
<1>10. /\ lp' \in PageRec /\ lp'.page = v /\ lp'.map = lp.map /\ lp'.ws = lp.ws /\ lp'.subs = lp.subs /\ lp'.wired = Unwired
       /\ lp'.matrix = q.matrix /\ (q.matrix => ~lp'.heat) /\ (~q.matrix => lp'.heat = lp.heat)
       /\ (q.matrix <=> lp'.heatBox = "disabled")
  BY <1>6, <1>7, <1>8, <1>9, SyncedIs
<1>11. ~Wired(lp')
  BY <1>10 DEF Wired, Unwired, Sections
<1>12. inits' = [inits EXCEPT ![v] = "config"]
  BY DEF PageMount
<1>13. PICK u \in {"", "a"} : nf' = [NoFilter EXCEPT !.late = nf.late, !.filter = nf.filter, !.url = u]
  BY DEF PageMount
<1>14. nf.late \in SUBSET Texts /\ nf.filter \in Texts /\ u \in Texts
  BY <1>1 DEF FilterRec, Texts
<1>15. nf' = [text |-> "", pend |-> FALSE, late |-> nf.late, stray |-> FALSE, filter |-> nf.filter, url |-> u, drop |-> "", asks |-> {}]
  BY <1>13 DEF NoFilter
<1>16. nf' \in FilterRec /\ nf'.text = ""
  BY <1>14, <1>15 DEF FilterRec, Texts
<1>17. PageTyped'
  BY <1>1, <1>10, <1>12, <1>16 DEF PageTyped
<1> QED BY <1>1, <1>2, <1>10, <1>11, <1>16, <1>17 DEF PageInv, PageShape, NothingTyped, OneSubscription, ReadyPageListens,
     MatrixOwnsHeat, NothingOutlivesPage, FilterMatchesInput

LEMMA AfterConfigKeeps ==
  ASSUME PageInv, NEW v \in Visits, NEW ok \in BOOLEAN, AfterConfig(v, ok)
  PROVE  PageInv'
<1>1. lp \in PageRec /\ inits \in [Visits -> {"none", "config", "nodes", "done", "failed"}] /\ inits[v] = "config"
      /\ UNCHANGED nf
  BY DEF AfterConfig, PageInv, PageTyped
<1>2. /\ lp' = lp \/ (lp.page # 0 /\ lp' = [lp EXCEPT !.map = TRUE, !.box = TRUE])
      /\ inits' = [inits EXCEPT ![v] = "nodes"] \/ inits' = [inits EXCEPT ![v] = "failed"]
  BY DEF AfterConfig
<1>3. lp' \in PageRec
  BY <1>1, <1>2, ZenonT(60) DEF PageRec
<1>4. /\ lp'.page = lp.page /\ (lp.map => lp'.map) /\ (lp'.map => lp.map \/ lp.page # 0) /\ lp'.ws = lp.ws /\ lp'.subs = lp.subs
      /\ lp'.wired = lp.wired /\ lp'.matrix = lp.matrix /\ lp'.heat = lp.heat /\ lp'.heatBox = lp.heatBox
      /\ lp'.full = lp.full /\ lp'.pins = lp.pins
  BY <1>1, <1>2 DEF PageRec
<1>5. Wired(lp') <=> Wired(lp)
  BY <1>4 DEF Wired
<1>6. PageTyped'
  BY <1>1, <1>2, <1>3 DEF PageInv, PageTyped
<1>7. ReadyPageListens'
  <2> SUFFICES ASSUME Wired(lp) PROVE lp'.ws # 0 /\ inits'[lp'.ws] = "done"
    BY <1>5 DEF ReadyPageListens
  <2>1. lp.ws # 0 /\ inits[lp.ws] = "done"
    BY DEF PageInv, ReadyPageListens
  <2>2. lp.ws # v
    BY <1>1, <2>1
  <2>3. lp.ws \in Visits
    BY <1>1, <2>1, LivePageAssumption DEF PageRec, Visits
  <2> QED BY <1>1, <1>2, <1>4, <2>1, <2>2, <2>3
<1> QED BY <1>1, <1>4, <1>5, <1>6, <1>7 DEF PageInv, PageShape, NothingTyped, OneSubscription,
     MatrixOwnsHeat, NothingOutlivesPage, FilterMatchesInput

LEMMA AfterNodesKeeps ==
  ASSUME PageInv, NEW v \in Visits, AfterNodes(v)
  PROVE  PageInv'
<1> DEFINE h == IF lp.heatEnabled THEN showHeatMap(lp) ELSE lp
           j == connectWS_live(h, v)
<1>1. /\ lp \in PageRec /\ nf \in FilterRec /\ inits[v] = "nodes"
      /\ inits \in [Visits -> {"none", "config", "nodes", "done", "failed"}]
  BY DEF AfterNodes, PageInv, PageTyped
<1>2. v \in 1..MaxStays /\ v \in 0..MaxStays /\ v # 0
  BY LivePageAssumption DEF Visits
<1>3. h = lp \/ (lp.map /\ h = [lp EXCEPT !.heat = TRUE])
  BY DEF showHeatMap
<1>4. h \in PageRec
  BY <1>1, <1>3, ZenonT(60) DEF PageRec
<1>5. /\ h.page = lp.page /\ h.map = lp.map /\ h.ws = lp.ws /\ h.subs = lp.subs /\ h.wired = lp.wired
      /\ h.matrix = lp.matrix /\ h.heatBox = lp.heatBox /\ h.full = lp.full /\ h.pins = lp.pins
      /\ (h.heat => lp.map \/ lp.heat) /\ (~lp.map => h.heat = lp.heat)
  BY <1>1, <1>3 DEF PageRec
<1> HIDE DEF h
<1>6. (h.subs \ {h.ws}) \union {v} = {v}
  BY <1>5 DEF PageInv, OneSubscription
<1>7. j = [h EXCEPT !.subs = {v}, !.ws = v]
  BY <1>6 DEF connectWS_live
<1>8. {v} \in SUBSET Visits
  OBVIOUS
<1>9. j \in PageRec
  BY <1>2, <1>4, <1>7, <1>8, Zenon DEF PageRec
<1>10. /\ j.page = lp.page /\ j.map = lp.map /\ j.ws = v /\ j.subs = {v} /\ j.wired = lp.wired
       /\ j.matrix = lp.matrix /\ j.heatBox = lp.heatBox /\ j.full = lp.full /\ j.pins = lp.pins /\ j.heat = h.heat
  BY <1>4, <1>5, <1>7 DEF PageRec
<1> HIDE DEF j
<1>11. CASE ~lp.map
  <2>1. lp' = j /\ inits' = [inits EXCEPT ![v] = "failed"] /\ UNCHANGED nf
    BY <1>11 DEF AfterNodes, j, h
  <2>2. ~Wired(lp) /\ ~Wired(lp')
    BY <1>10, <1>11, <2>1 DEF PageInv, PageShape, Wired
  <2>3. PageTyped'
    BY <1>1, <1>9, <2>1 DEF PageTyped
  <2>4. lp'.heat = lp.heat
    BY <1>5, <1>10, <1>11, <2>1
  <2> QED BY <1>2, <1>10, <1>11, <2>1, <2>2, <2>3, <2>4 DEF PageInv, PageShape, NothingTyped, OneSubscription,
       ReadyPageListens, MatrixOwnsHeat, NothingOutlivesPage, FilterMatchesInput
<1>12. CASE lp.map
  <2> DEFINE s == applyLiveControlEffects(j)
             w == wireLiveFullscreenToggle(s, v)
             b == wireButtons(w)
             n == navPin(b, v)
  <2>1. lp' = n /\ inits' = [inits EXCEPT ![v] = "done"] /\ nf' = restoreNodeFilter(nf)
    BY <1>12 DEF AfterNodes, j, h
  <2>2. j.matrix \in BOOLEAN
    BY <1>9 DEF PageRec
  <2>3. /\ s \in PageRec /\ s.page = lp.page /\ s.map = lp.map /\ s.ws = v /\ s.subs = {v} /\ s.matrix = lp.matrix
        /\ (lp.matrix => ~s.heat) /\ (lp.matrix <=> s.heatBox = "disabled")
    BY <1>9, <1>10, <2>2, SyncedIs DEF applyLiveControlEffects
  <2> HIDE DEF s
  <2> DEFINE fl == s.full \/ s.fullSaved
             ky == IF s.keyFor = 0 THEN v ELSE s.keyFor
  <2>4. w = [s EXCEPT !.full = fl, !.keyFor = ky]
    BY DEF wireLiveFullscreenToggle
  <2>5. fl \in BOOLEAN /\ ky \in 0..MaxStays
    BY <1>2, <2>3 DEF PageRec
  <2> HIDE DEF fl, ky
  <2>6. w \in PageRec
    BY <2>3, <2>4, <2>5, ZenonT(60) DEF PageRec
  <2>7. /\ w.page = lp.page /\ w.map = lp.map /\ w.ws = v /\ w.subs = {v} /\ w.matrix = lp.matrix
        /\ w.heat = s.heat /\ w.heatBox = s.heatBox
    BY <2>3, <2>4 DEF PageRec
  <2> HIDE DEF w
  <2>8. b \in PageRec /\ OnlyWired(w, b) /\ Wired(b)
    BY <2>6, ButtonsWired
  <2> HIDE DEF b
  <2>9. n = [b EXCEPT !.pins = 1, !.pinFor = v, !.autohide = FALSE]
    BY DEF navPin
  <2>21. 1 \in 0..1
    OBVIOUS
  <2>10. n \in PageRec
    BY <1>2, <2>8, <2>9, <2>21, Zenon DEF PageRec
  <2>11. /\ n.page = b.page /\ n.map = b.map /\ n.ws = b.ws /\ n.subs = b.subs /\ n.matrix = b.matrix
         /\ n.heat = b.heat /\ n.heatBox = b.heatBox /\ n.wired = b.wired
    BY <2>8, <2>9 DEF PageRec
  <2> HIDE DEF n
  <2>12. /\ lp'.page = lp.page /\ lp'.map /\ lp'.ws = v /\ lp'.subs = {v} /\ lp'.matrix = lp.matrix
         /\ (lp.matrix => ~lp'.heat) /\ (lp.matrix <=> lp'.heatBox = "disabled") /\ Wired(lp')
    BY <1>12, <2>1, <2>3, <2>7, <2>8, <2>11 DEF OnlyWired, Wired
  <2>13. lp.page # 0
    BY <1>12 DEF PageInv, PageShape
  <2> DEFINE t == IF nf.url # "" THEN nf.url ELSE nf.filter
             x == IF t = "" THEN nf.text ELSE t
  <2>14. nf' = [nf EXCEPT !.filter = t, !.text = x]
    BY <2>1 DEF restoreNodeFilter, setNodeFilter
  <2>15. t \in Texts /\ x \in Texts
    BY <1>1 DEF FilterRec
  <2>16. nf' \in FilterRec
    <3> HIDE DEF t, x
    <3> QED BY <1>1, <2>14, <2>15, Zenon DEF FilterRec
  <2>17. nf'.filter = t /\ nf'.text = x /\ nf'.url = nf.url /\ nf'.stray = nf.stray /\ nf'.pend = nf.pend
    BY <1>1, <2>14 DEF FilterRec
  <2>18. FilterMatchesInput'
    <3>1. ASSUME ~nf.stray, ~nf.pend, t = "" PROVE nf.text = ""
      <4>1. nf.filter = ""
        BY <3>1
      <4>2. CASE Wired(lp)
        BY <3>1, <4>1, <4>2, Zenon DEF PageInv, FilterMatchesInput
      <4>3. CASE ~Wired(lp)
        BY <3>1, <4>3, Zenon DEF PageInv, NothingTyped
      <4> QED BY <4>2, <4>3
    <3>2. ~nf.stray /\ ~nf.pend => t = x
      BY <3>1
    <3>3. nf.url # "" => nf.url = t
      OBVIOUS
    <3> HIDE DEF t, x
    <3>4. ~nf'.stray => (nf'.url # "" => nf'.url = nf'.filter) /\ (~nf'.pend => nf'.filter = nf'.text)
      BY <2>17, <3>2, <3>3
    <3> QED BY <3>4, Zenon DEF FilterMatchesInput
  <2>19. inits' \in [Visits -> {"none", "config", "nodes", "done", "failed"}] /\ inits'[v] = "done"
    BY <1>1, <2>1
  <2>20. PageTyped'
    BY <2>1, <2>10, <2>16, <2>19 DEF PageTyped
  <2> QED BY <1>2, <2>12, <2>13, <2>18, <2>19, <2>20 DEF PageInv, PageShape, NothingTyped, OneSubscription,
       ReadyPageListens, MatrixOwnsHeat, NothingOutlivesPage
<1> QED BY <1>11, <1>12

LEMMA PageDestroyKeeps ==
  ASSUME PageInv, PageDestroy
  PROVE  PageInv'
<1> DEFINE sb == lp.subs \ {lp.ws}
           lt == nf.late \union IF nf.pend THEN {nf.text} ELSE {}
<1>1. /\ lp \in PageRec /\ nf \in FilterRec /\ UNCHANGED inits
      /\ inits \in [Visits -> {"none", "config", "nodes", "done", "failed"}]
  BY DEF PageDestroy, PageInv, PageTyped
<1>2. sb = {}
  BY DEF PageInv, OneSubscription
<1>3. lp' = [lp EXCEPT !.page = 0, !.map = FALSE, !.box = FALSE, !.subs = sb, !.ws = 0,
                        !.wired = Unwired, !.heat = FALSE, !.full = FALSE, !.pins = 0, !.autohide = FALSE]
  BY DEF PageDestroy
<1>4. Unwired \in [Sections -> Nat] /\ 0 \in 0..MaxStays /\ sb \in SUBSET Visits /\ 0 \in 0..1
  BY <1>2, LivePageAssumption DEF Unwired
<1>5. lp' \in PageRec
  BY <1>1, <1>3, <1>4, ZenonT(60) DEF PageRec
<1>6. lp'.page = 0 /\ lp'.map = FALSE /\ lp'.ws = 0 /\ lp'.subs = sb /\ lp'.wired = Unwired /\ lp'.heat = FALSE
      /\ lp'.full = FALSE /\ lp'.pins = 0
  BY <1>1, <1>3 DEF PageRec
<1>7. ~Wired(lp')
  BY <1>6 DEF Wired, Unwired, Sections
<1>8. nf' = [text |-> "", pend |-> FALSE, late |-> lt, stray |-> FALSE, filter |-> nf.filter, url |-> "", drop |-> "", asks |-> {}]
  BY DEF PageDestroy, NoFilter
<1>9. lt \in SUBSET Texts /\ nf.filter \in Texts /\ "" \in Texts
  BY <1>1 DEF FilterRec, Texts
<1> HIDE DEF lt
<1>10. nf' \in FilterRec /\ nf'.text = "" /\ nf'.stray = FALSE
  BY <1>8, <1>9 DEF FilterRec
<1>11. PageTyped'
  BY <1>1, <1>5, <1>10 DEF PageTyped
<1> QED BY <1>2, <1>6, <1>7, <1>10, <1>11 DEF PageInv, PageShape, NothingTyped, OneSubscription, ReadyPageListens,
     MatrixOwnsHeat, NothingOutlivesPage, FilterMatchesInput

\* What the user's switches leave alone.
LEMMA SwitchesKeep ==
  ASSUME PageInv, lp.page # 0, lp' \in PageRec, UNCHANGED <<inits, nf>>,
         lp'.page = lp.page, lp'.map = lp.map, lp'.ws = lp.ws, lp'.subs = lp.subs, lp'.wired = lp.wired,
         lp'.matrix <=> lp'.heatBox = "disabled", lp'.matrix => ~lp'.heat
  PROVE  PageInv'
<1>1. Wired(lp') <=> Wired(lp)
  BY DEF Wired
<1>2. PageTyped'
  BY DEF PageInv, PageTyped
<1> QED BY <1>1, <1>2 DEF PageInv, PageShape, NothingTyped, OneSubscription, ReadyPageListens,
     MatrixOwnsHeat, NothingOutlivesPage, FilterMatchesInput

LEMMA SwitchMatrixKeeps ==
  ASSUME PageInv, SwitchMatrix
  PROVE  PageInv'
<1> DEFINE p == [lp EXCEPT !.matrix = ~@]
<1>1. lp \in PageRec /\ lp.page # 0 /\ UNCHANGED <<inits, nf>>
  BY DEF SwitchMatrix, Turn, PageInv, PageTyped
<1>2. (~lp.matrix) \in BOOLEAN
  OBVIOUS
<1>3. p \in PageRec
  BY <1>1, <1>2, Zenon DEF PageRec
<1>4. p.page = lp.page /\ p.map = lp.map /\ p.ws = lp.ws /\ p.subs = lp.subs /\ p.wired = lp.wired
  BY <1>1 DEF PageRec
<1>5. p.matrix <=> ~lp.matrix
  BY <1>1, Zenon DEF PageRec
<1>6. lp' = syncHeatToggleToMatrix(p, ~lp.matrix)
  BY DEF SwitchMatrix
<1> HIDE DEF p
<1>7. /\ lp' \in PageRec /\ lp'.page = p.page /\ lp'.map = p.map /\ lp'.ws = p.ws /\ lp'.subs = p.subs /\ lp'.wired = p.wired
      /\ lp'.matrix = p.matrix /\ (~lp.matrix => ~lp'.heat) /\ (~lp.matrix <=> lp'.heatBox = "disabled")
  BY <1>2, <1>3, <1>6, SyncedIs
<1>8. (lp'.matrix <=> lp'.heatBox = "disabled") /\ (lp'.matrix => ~lp'.heat)
  BY <1>5, <1>7, Zenon
<1> QED BY <1>1, <1>4, <1>7, <1>8, SwitchesKeep

LEMMA SwitchHeatKeeps ==
  ASSUME PageInv, SwitchHeat
  PROVE  PageInv'
<1> DEFINE on == lp.heatBox = "off"
           b == IF on THEN "on" ELSE "off"
           p == [lp EXCEPT !.heatEnabled = on, !.heatBox = b]
<1>1. lp \in PageRec /\ lp.page # 0 /\ UNCHANGED <<inits, nf>> /\ lp.heatBox # "disabled"
  BY DEF SwitchHeat, Turn, PageInv, PageTyped
<1>2. ~lp.matrix
  BY <1>1 DEF PageInv, PageShape
<1>3. on \in BOOLEAN /\ b \in {"on", "off", "disabled"} /\ b # "disabled"
  OBVIOUS
<1>4. p \in PageRec
  <2> HIDE DEF on, b
  <2> QED BY <1>1, <1>3, Zenon DEF PageRec
<1>5. p.page = lp.page /\ p.map = lp.map /\ p.ws = lp.ws /\ p.subs = lp.subs /\ p.wired = lp.wired /\ p.matrix = lp.matrix
      /\ p.heatBox = b
  BY <1>1 DEF PageRec
<1>6. lp' = p \/ lp' = [p EXCEPT !.heat = TRUE] \/ lp' = [p EXCEPT !.heat = FALSE]
  BY DEF SwitchHeat, showHeatMap, hideHeatMap
<1> HIDE DEF p
<1>7. lp' \in PageRec
  BY <1>4, <1>6, ZenonT(60) DEF PageRec
<1>8. lp'.page = p.page /\ lp'.map = p.map /\ lp'.ws = p.ws /\ lp'.subs = p.subs /\ lp'.wired = p.wired /\ lp'.matrix = p.matrix
      /\ lp'.heatBox = p.heatBox
  BY <1>4, <1>6 DEF PageRec
<1> QED BY <1>1, <1>2, <1>3, <1>5, <1>7, <1>8, SwitchesKeep

LEMMA OtherSwitchesKeep ==
  ASSUME PageInv, setFullscreen \/ showNav
  PROVE  PageInv'
<1>1. lp \in PageRec /\ lp.page # 0 /\ UNCHANGED <<inits, nf>>
  BY DEF setFullscreen, showNav, Turn, PageInv, PageTyped
<1>2. lp' = [lp EXCEPT !.full = ~@, !.fullSaved = ~lp.full] \/ lp' = [lp EXCEPT !.autohide = ~@]
  BY DEF setFullscreen, showNav
<1>3. (~lp.full) \in BOOLEAN /\ (~lp.autohide) \in BOOLEAN
  OBVIOUS
<1>4. lp' \in PageRec
  <2>1. [lp EXCEPT !.full = ~@, !.fullSaved = ~lp.full] \in PageRec
    BY <1>1, <1>3, ZenonT(60) DEF PageRec
  <2>2. [lp EXCEPT !.autohide = ~@] \in PageRec
    BY <1>1, <1>3, ZenonT(60) DEF PageRec
  <2> QED BY <1>2, <2>1, <2>2
<1>5. lp'.page = lp.page /\ lp'.map = lp.map /\ lp'.ws = lp.ws /\ lp'.subs = lp.subs /\ lp'.wired = lp.wired
      /\ lp'.matrix = lp.matrix /\ lp'.heat = lp.heat /\ lp'.heatBox = lp.heatBox
  <2>1. CASE lp' = [lp EXCEPT !.full = ~@, !.fullSaved = ~lp.full]
    BY <1>1, <2>1 DEF PageRec
  <2>2. CASE lp' = [lp EXCEPT !.autohide = ~@]
    BY <1>1, <2>2 DEF PageRec
  <2> QED BY <1>2, <2>1, <2>2
<1>6. (lp.matrix <=> lp.heatBox = "disabled") /\ (lp.matrix => ~lp.heat)
  BY <1>1 DEF PageInv, PageShape, MatrixOwnsHeat
<1> QED BY <1>1, <1>4, <1>5, <1>6, SwitchesKeep

\* Only the filter's own tables change.
LEMMA FilterStepKeeps ==
  ASSUME PageInv, UNCHANGED <<lp, inits>>, nf' \in FilterRec,
         ~Wired(lp) /\ ~nf'.stray => nf'.text = "",
         lp.page = 0 => ~nf'.stray,
         Wired(lp) /\ ~nf'.stray =>
            (nf'.url # "" => nf'.url = nf'.filter) /\ (~nf'.pend => nf'.filter = nf'.text)
  PROVE  PageInv'
<1>1. PageTyped'
  BY DEF PageInv, PageTyped
<1>2. Wired(lp') <=> Wired(lp)
  BY DEF Wired
<1>3. lp' = lp /\ inits' = inits
  OBVIOUS
<1>4. (PageShape /\ OneSubscription /\ ReadyPageListens /\ MatrixOwnsHeat /\ NothingOutlivesPage)'
  BY <1>2, <1>3 DEF PageInv, PageShape, OneSubscription, ReadyPageListens, MatrixOwnsHeat, NothingOutlivesPage
<1>5. NothingTyped'
  BY <1>2, <1>3, Zenon DEF NothingTyped
<1>6. FilterMatchesInput'
  BY <1>2, <1>3, Zenon DEF FilterMatchesInput
<1> QED BY <1>1, <1>4, <1>5, <1>6 DEF PageInv

\* The filter and the URL follow the text.
LEMMA AppliedIs ==
  ASSUME NEW f \in FilterRec, NEW t \in Texts
  PROVE  LET g == applyFilterFromInput(f, t)
         IN /\ g \in FilterRec /\ g.filter = t /\ g.url = t /\ g.text = IF t = "" THEN f.text ELSE t
            /\ g.pend = f.pend /\ g.stray = f.stray
<1> DEFINE x == IF t = "" THEN f.text ELSE t
           g == applyFilterFromInput(f, t)
<1>1. g = [f EXCEPT !.filter = t, !.text = x, !.url = t]
  BY DEF applyFilterFromInput, setNodeFilter
<1>2. x \in Texts
  BY DEF FilterRec
<1> HIDE DEF x
<1>3. g \in FilterRec
  BY <1>1, <1>2, Zenon DEF FilterRec
<1>4. g.filter = t /\ g.url = t /\ g.text = x /\ g.pend = f.pend /\ g.stray = f.stray
  BY <1>1 DEF FilterRec
<1> QED BY <1>3, <1>4 DEF x

LEMMA FilterActionsKeep ==
  ASSUME PageInv, NodeFilterType \/ debouncedInput \/ selectSuggestion \/ NodeFilterKeys
  PROVE  PageInv'
<1>1. lp \in PageRec /\ nf \in FilterRec /\ UNCHANGED <<lp, inits>> /\ Wired(lp) /\ lp.page # 0
  BY DEF NodeFilterType, debouncedInput, selectSuggestion, NodeFilterKeys, Filter, FilterTurn, PageInv, PageTyped
<1>2. ~nf.stray => (nf.url # "" => nf.url = nf.filter) /\ (~nf.pend => nf.filter = nf.text)
  BY <1>1, Zenon DEF PageInv, FilterMatchesInput
<1>0. TRUE \in BOOLEAN /\ FALSE \in BOOLEAN /\ "" \in Texts /\ "key" \in Texts
  BY DEF Texts
<1>3. CASE NodeFilterType
  <2>1. PICK t \in Texts : nf' = [nf EXCEPT !.text = t, !.pend = TRUE]
    BY <1>3 DEF NodeFilterType
  <2>2. nf' \in FilterRec
    BY <1>0, <1>1, <2>1, Zenon DEF FilterRec
  <2>3. nf'.url = nf.url /\ nf'.filter = nf.filter /\ nf'.stray = nf.stray /\ nf'.pend
    BY <1>1, <2>1 DEF FilterRec
  <2> QED BY <1>1, <1>2, <2>2, <2>3, FilterStepKeeps
<1>4. ASSUME NEW f, f = applyFilterFromInput(nf, nf.text)
      PROVE  f \in FilterRec /\ f.url = f.filter /\ f.filter = f.text
  <2>1. nf.text \in Texts
    BY <1>1 DEF FilterRec
  <2>2. f \in FilterRec /\ f.filter = nf.text /\ f.url = nf.text /\ f.text = IF nf.text = "" THEN nf.text ELSE nf.text
    BY <1>1, <1>4, <2>1, AppliedIs, Zenon
  <2> QED BY <2>2
<1>5. CASE debouncedInput
  <2> DEFINE a == applyFilterFromInput(nf, nf.text)
             f == [a EXCEPT !.pend = FALSE]
  <2>1. a \in FilterRec /\ a.url = a.filter /\ a.filter = a.text
    BY <1>4
  <2>2. nf' = (IF f.text = "" THEN [f EXCEPT !.drop = ""] ELSE [f EXCEPT !.asks = @ \union {f.text}])
    BY <1>5 DEF debouncedInput
  <2> HIDE DEF a
  <2>3. f \in FilterRec
    BY <1>0, <2>1, Zenon DEF FilterRec
  <2>4. f.url = f.filter /\ f.filter = f.text
    BY <2>1 DEF FilterRec
  <2> HIDE DEF f
  <2> DEFINE s == f.asks \union {f.text}
  <2>5. s \in SUBSET Texts
    BY <2>3 DEF FilterRec
  <2>6. nf' = [f EXCEPT !.drop = ""] \/ nf' = [f EXCEPT !.asks = s]
    BY <2>2
  <2> HIDE DEF s
  <2>7. nf' \in FilterRec
    <3>1. [f EXCEPT !.drop = ""] \in FilterRec
      BY <1>0, <2>3, Zenon DEF FilterRec
    <3>2. [f EXCEPT !.asks = s] \in FilterRec
      BY <2>3, <2>5, Zenon DEF FilterRec
    <3> QED BY <2>6, <3>1, <3>2
  <2>8. nf'.url = nf'.filter /\ nf'.filter = nf'.text
    BY <2>3, <2>4, <2>6 DEF FilterRec
  <2> QED BY <1>1, <2>7, <2>8, FilterStepKeeps
<1>6. CASE selectSuggestion
  <2> DEFINE a == applyFilterFromInput(nf, "key")
  <2>5. a \in FilterRec /\ a.filter = "key" /\ a.url = "key" /\ a.text = IF "key" = "" THEN nf.text ELSE "key"
    BY <1>0, <1>1, AppliedIs, Zenon
  <2>1. a \in FilterRec /\ a.url = a.filter /\ a.filter = a.text
    BY <2>5
  <2>2. nf' = [a EXCEPT !.drop = ""]
    BY <1>6 DEF selectSuggestion
  <2> HIDE DEF a
  <2>3. nf' \in FilterRec
    BY <1>0, <2>1, <2>2, Zenon DEF FilterRec
  <2>4. nf'.url = nf'.filter /\ nf'.filter = nf'.text
    BY <2>1, <2>2 DEF FilterRec
  <2> QED BY <1>1, <2>3, <2>4, FilterStepKeeps
<1>7. CASE NodeFilterKeys
  <2> DEFINE a == applyFilterFromInput(nf, nf.text)
  <2>1. a \in FilterRec /\ a.url = a.filter /\ a.filter = a.text
    BY <1>4
  <2>2. \/ nf' = [a EXCEPT !.drop = ""]
        \/ nf' = [nf EXCEPT !.drop = ""]
        \/ nf' = [nf EXCEPT !.text = "", !.filter = "", !.url = ""]
    BY <1>7 DEF NodeFilterKeys
  <2> HIDE DEF a
  <2>3. CASE nf' = [a EXCEPT !.drop = ""]
    <3>1. nf' \in FilterRec
      BY <1>0, <2>1, <2>3, Zenon DEF FilterRec
    <3>2. nf'.url = nf'.filter /\ nf'.filter = nf'.text
      BY <2>1, <2>3 DEF FilterRec
    <3> QED BY <1>1, <3>1, <3>2, FilterStepKeeps
  <2>4. CASE nf' = [nf EXCEPT !.drop = ""]
    <3>1. nf' \in FilterRec
      BY <1>0, <1>1, <2>4, Zenon DEF FilterRec
    <3>2. nf'.url = nf.url /\ nf'.filter = nf.filter /\ nf'.text = nf.text /\ nf'.stray = nf.stray /\ nf'.pend = nf.pend
      BY <1>1, <2>4 DEF FilterRec
    <3> QED BY <1>1, <1>2, <3>1, <3>2, FilterStepKeeps
  <2>5. CASE nf' = [nf EXCEPT !.text = "", !.filter = "", !.url = ""]
    <3>1. nf' \in FilterRec
      BY <1>0, <1>1, <2>5, Zenon DEF FilterRec
    <3>2. nf'.url = "" /\ nf'.filter = "" /\ nf'.text = ""
      BY <1>1, <2>5 DEF FilterRec
    <3> QED BY <1>1, <3>1, <3>2, FilterStepKeeps
  <2> QED BY <2>2, <2>3, <2>4, <2>5
<1> QED BY <1>3, <1>5, <1>6, <1>7

LEMMA SuggestionsKeep ==
  ASSUME PageInv, NEW q \in Texts, fetchSuggestions(q)
  PROVE  PageInv'
<1>1. lp \in PageRec /\ nf \in FilterRec /\ UNCHANGED <<lp, inits>> /\ Wired(lp) /\ lp.page # 0
  BY DEF fetchSuggestions, Filter, PageInv, PageTyped
<1>2. ~nf.stray => (nf.url # "" => nf.url = nf.filter) /\ (~nf.pend => nf.filter = nf.text)
  BY <1>1, Zenon DEF PageInv, FilterMatchesInput
<1> DEFINE s == nf.asks \ {q}
<1>3. PICK d \in Texts : nf' = [nf EXCEPT !.asks = s, !.drop = d]
  BY DEF fetchSuggestions, Texts
<1>4. s \in SUBSET Texts
  BY <1>1 DEF FilterRec
<1> HIDE DEF s
<1>5. nf' \in FilterRec
  BY <1>1, <1>3, <1>4, Zenon DEF FilterRec
<1>6. nf'.url = nf.url /\ nf'.filter = nf.filter /\ nf'.text = nf.text /\ nf'.stray = nf.stray /\ nf'.pend = nf.pend
  BY <1>1, <1>3 DEF FilterRec
<1> QED BY <1>1, <1>2, <1>5, <1>6, FilterStepKeeps

LEMMA LateKeeps ==
  ASSUME PageInv, NEW t \in Texts, debouncedLate(t)
  PROVE  PageInv'
<1> DEFINE l == nf.late \ {t}
           o == lp.page # 0
           f == [nf EXCEPT !.late = l, !.stray = o]
<1>1. lp \in PageRec /\ nf \in FilterRec /\ UNCHANGED <<lp, inits>>
  BY DEF debouncedLate, PageInv, PageTyped
<1>2. l \in SUBSET Texts /\ o \in BOOLEAN
  BY <1>1 DEF FilterRec
<1>3. nf' = IF lp.page = 0 THEN [f EXCEPT !.filter = t] ELSE applyFilterFromInput(f, t)
  BY DEF debouncedLate
<1>4. f \in FilterRec
  <2> HIDE DEF l, o
  <2> QED BY <1>1, <1>2, Zenon DEF FilterRec
<1>5. CASE lp.page = 0
  <2>1. ~Wired(lp) /\ ~nf.stray /\ nf.text = ""
    BY <1>5, Zenon DEF PageInv, PageShape, NothingTyped
  <2>2. f.text = nf.text /\ ~f.stray
    BY <1>1, <1>5 DEF FilterRec
  <2> HIDE DEF f
  <2>3. nf' = [f EXCEPT !.filter = t]
    BY <1>3, <1>5
  <2>4. nf' \in FilterRec
    BY <1>4, <2>3, Zenon DEF FilterRec
  <2>5. nf'.text = f.text /\ nf'.stray = f.stray
    BY <1>4, <2>3 DEF FilterRec
  <2> QED BY <1>1, <2>1, <2>2, <2>4, <2>5, FilterStepKeeps
<1>6. CASE lp.page # 0
  <2>1. f.stray
    BY <1>1, <1>6, Zenon DEF FilterRec
  <2> HIDE DEF f
  <2>2. nf' = applyFilterFromInput(f, t)
    BY <1>3, <1>6
  <2>3. nf' \in FilterRec /\ nf'.stray = f.stray
    BY <1>4, <2>2, AppliedIs
  <2> QED BY <1>1, <1>6, <2>1, <2>3, FilterStepKeeps
<1> QED BY <1>5, <1>6

LEMMA PageStepKeeps ==
  ASSUME PageInv, [PageNext]_pageVars
  PROVE  PageInv'
<1>1. ASSUME UNCHANGED <<lp, inits, nf>> PROVE PageInv'
  <2>1. UNCHANGED lp /\ UNCHANGED inits /\ UNCHANGED nf
    BY <1>1
  <2>2. Wired(lp') <=> Wired(lp)
    BY <2>1 DEF Wired
  <2> QED BY <2>1, <2>2, Zenon DEF PageInv, PageTyped, PageShape, NothingTyped, OneSubscription, ReadyPageListens, MatrixOwnsHeat,
       NothingOutlivesPage, FilterMatchesInput
<1>2. ASSUME NEW v \in Visits, PageMount(v) PROVE PageInv'
  BY <1>2, PageMountKeeps
<1>3. ASSUME NEW v \in Visits, AfterNodes(v) PROVE PageInv'
  BY <1>3, AfterNodesKeeps
<1>4. ASSUME NEW v \in Visits, NEW ok \in BOOLEAN, AfterConfig(v, ok) PROVE PageInv'
  BY <1>4, AfterConfigKeeps
<1>5. CASE PageDestroy
  BY <1>5, PageDestroyKeeps
<1>6. CASE SwitchMatrix
  BY <1>6, SwitchMatrixKeeps
<1>7. CASE SwitchHeat
  BY <1>7, SwitchHeatKeeps
<1>8. CASE setFullscreen \/ showNav
  BY <1>8, OtherSwitchesKeep
<1>9. CASE NodeFilterType \/ debouncedInput \/ selectSuggestion \/ NodeFilterKeys
  BY <1>9, FilterActionsKeep
<1>10. ASSUME NEW q \in Texts, fetchSuggestions(q) PROVE PageInv'
  BY <1>10, SuggestionsKeep
<1>11. ASSUME NEW q \in Texts, debouncedLate(q) PROVE PageInv'
  BY <1>11, LateKeeps
<1>12. ASSUME NEW n \in Details, showNodeDetail(n) \/ NodeDetailAnswer(n) PROVE PageInv'
  BY <1>1, <1>12 DEF showNodeDetail, NodeDetailAnswer, Detail
<1>13. CASE NodeDetailClose
  BY <1>1, <1>13 DEF NodeDetailClose, Detail
<1>14. CASE UNCHANGED pageVars
  BY <1>1, <1>14 DEF pageVars
<1> QED BY <1>2, <1>3, <1>4, <1>5, <1>6, <1>7, <1>8, <1>9, <1>10, <1>11, <1>12, <1>13, <1>14 DEF PageNext

------------------------------------------------------------------------------
(* The node markers.                                                        *)

MarkerRec == [key : NodeKeys, ghost : BOOLEAN, ver : 0..2]
DataRec == [from : {"none", "api", "ws"}, ver : 0..2]
TableRec == [mk : [NodeKeys -> Nat], marker : Seq(MarkerRec), layer : SUBSET Nat, data : [NodeKeys -> DataRec]]
AskRec == [id : Nat, what : DOMAIN Areas \union {"past"}]

\* What the tables t say with the ghosts' timers g and the forgotten markers u,
\* up being that the page is there.
Held(t, g, u, up) ==
    /\ \A k \in NodeKeys : t.mk[k] # 0 => t.mk[k] \in DOMAIN t.marker /\ t.marker[t.mk[k]].key = k
    /\ \A k \in NodeKeys : t.mk[k] # 0 /\ t.marker[t.mk[k]].ghost => up /\ t.mk[k] \in g
    /\ \A k \in NodeKeys : t.mk[k] # 0 /\ t.data[k] = None => t.marker[t.mk[k]].ghost
Layered(t, g, u, up) ==
    /\ t.layer \subseteq DOMAIN t.marker
    /\ \A i \in t.layer : t.mk[t.marker[i].key] = i \/ i \in u
    /\ \A i \in t.layer : t.marker[i].ghost => i \in g
    /\ ~up => t.layer = {}
Kept(t, g, u, up) == t \in TableRec /\ Held(t, g, u, up) /\ Layered(t, g, u, up)

NodesInv ==
    /\ Kept(tables, ghostTimers, untracked, nodesUp)
    /\ ghostTimers \subseteq DOMAIN marker /\ loads \subseteq AskRec /\ nloads \in Nat /\ nodesUp \in BOOLEAN

LEMMA NodesStart == NodesInit => NodesInv
<1> SUFFICES ASSUME NodesInit PROVE NodesInv
  OBVIOUS
<1>1. None \in DataRec
  BY DEF None, DataRec
<1>2. tables = [mk |-> [k \in NodeKeys |-> 0], marker |-> << >>, layer |-> {}, data |-> [k \in NodeKeys |-> None]]
  BY DEF NodesInit, tables
<1>3. tables \in TableRec
  BY <1>1, <1>2 DEF TableRec
<1>4. Held(tables, ghostTimers, untracked, nodesUp) /\ Layered(tables, ghostTimers, untracked, nodesUp)
  BY <1>2 DEF Held, Layered
<1> QED BY <1>3, <1>4 DEF NodesInit, NodesInv, Kept

LEMMA DropMarkersKeeps ==
  ASSUME NEW t, NEW g, NEW u, NEW up, Kept(t, g, u, up), NEW ks \in SUBSET NodeKeys
  PROVE  LET q == DropMarkers(t, ks)
         IN Kept(q, g, u, up) /\ q.marker = t.marker /\ q.data = t.data
            /\ q.mk = [k \in NodeKeys |-> IF k \in ks THEN 0 ELSE t.mk[k]]
<1> DEFINE l == t.layer \ {t.mk[k] : k \in ks}
           m == [k \in NodeKeys |-> IF k \in ks THEN 0 ELSE t.mk[k]]
           q == DropMarkers(t, ks)
<1>1. t \in TableRec /\ Held(t, g, u, up) /\ Layered(t, g, u, up)
  BY DEF Kept
<1>2. t.mk \in [NodeKeys -> Nat] /\ t.marker \in Seq(MarkerRec) /\ t.layer \in SUBSET Nat
  BY <1>1 DEF TableRec
<1>3. q = [t EXCEPT !.layer = l, !.mk = m]
  BY <1>1 DEF DropMarkers, TableRec
<1>4. l \in SUBSET Nat /\ m \in [NodeKeys -> Nat]
  BY <1>2
<1>5. l \subseteq t.layer /\ \A k \in ks : t.mk[k] \notin l
  OBVIOUS
<1>6. \A k \in NodeKeys : m[k] = IF k \in ks THEN 0 ELSE t.mk[k]
  OBVIOUS
<1> HIDE DEF l, m
<1>7. q \in TableRec
  BY <1>1, <1>3, <1>4, Zenon DEF TableRec
<1>8. q.layer = l /\ q.mk = m /\ q.marker = t.marker /\ q.data = t.data
  BY <1>1, <1>3 DEF TableRec
<1> HIDE DEF q
<1>9. Held(q, g, u, up)
  BY <1>1, <1>6, <1>8 DEF Held
<1>10. Layered(q, g, u, up)
  <2>1. q.layer \subseteq DOMAIN q.marker /\ (~up => q.layer = {}) /\ \A i \in q.layer : q.marker[i].ghost => i \in g
    BY <1>1, <1>5, <1>8 DEF Layered
  <2>2. ASSUME NEW i \in q.layer PROVE q.mk[q.marker[i].key] = i \/ i \in u
    <3>1. i \in t.layer /\ i \in l
      BY <1>5, <1>8
    <3>2. t.mk[t.marker[i].key] = i \/ i \in u
      BY <1>1, <3>1 DEF Layered
    <3>3. t.marker[i].key \in NodeKeys
      <4>1. i \in DOMAIN t.marker
        BY <1>1, <3>1 DEF Layered
      <4>2. t.marker[i] \in MarkerRec
        BY <1>2, <4>1
      <4> QED BY <4>2 DEF MarkerRec
    <3> QED BY <1>5, <1>6, <1>8, <3>1, <3>2, <3>3
  <2> QED BY <2>1, <2>2 DEF Layered
<1> QED BY <1>7, <1>8, <1>9, <1>10 DEF Kept, m, q

LEMMA DropNodesKeeps ==
  ASSUME NEW t, NEW g, NEW u, NEW up, Kept(t, g, u, up), NEW ks \in SUBSET NodeKeys
  PROVE  LET q == DropNodes(t, ks)
         IN Kept(q, g, u, up) /\ q.marker = t.marker
            /\ q.mk = [k \in NodeKeys |-> IF k \in ks THEN 0 ELSE t.mk[k]]
<1> DEFINE s == DropMarkers(t, ks)
           d == [k \in NodeKeys |-> IF k \in ks THEN None ELSE s.data[k]]
           q == DropNodes(t, ks)
<1>1. /\ Kept(s, g, u, up) /\ s.marker = t.marker /\ s.mk = [k \in NodeKeys |-> IF k \in ks THEN 0 ELSE t.mk[k]]
  BY DropMarkersKeeps
<1>2. q = [s EXCEPT !.data = d]
  BY DEF DropNodes
<1>11. \A k \in ks : s.mk[k] = 0
  BY <1>1
<1> HIDE DEF s
<1>3. s \in TableRec /\ Held(s, g, u, up) /\ Layered(s, g, u, up)
  BY <1>1 DEF Kept
<1>4. s.data \in [NodeKeys -> DataRec] /\ None \in DataRec
  BY <1>3 DEF TableRec, None, DataRec
<1>5. d \in [NodeKeys -> DataRec]
  BY <1>4
<1>6. \A k \in NodeKeys : k \notin ks => d[k] = s.data[k]
  OBVIOUS
<1> HIDE DEF d
<1>7. q \in TableRec
  BY <1>2, <1>3, <1>5, Zenon DEF TableRec
<1>8. q.layer = s.layer /\ q.mk = s.mk /\ q.marker = s.marker /\ q.data = d
  BY <1>2, <1>3 DEF TableRec
<1> HIDE DEF q
<1>9. Held(q, g, u, up)
  BY <1>3, <1>6, <1>8, <1>11 DEF Held
<1>10. Layered(q, g, u, up)
  BY <1>3, <1>8 DEF Layered
<1> QED BY <1>1, <1>7, <1>8, <1>9, <1>10 DEF Kept, q

\* A set as a sequence: every member once.
LEMMA SequencedIs ==
  ASSUME NEW S, IsFiniteSet(S)
  PROVE  LET f == SetToSeq(S)
         IN /\ DOMAIN f = 1..Len(f) /\ Len(f) \in Nat /\ f \in [1..Len(f) -> S]
            /\ \A i, j \in DOMAIN f : f[i] = f[j] => i = j
            /\ \A x \in S : \E i \in DOMAIN f : f[i] = x
<1> DEFINE c == Cardinality(S)
           f == SetToSeq(S)
<1>1. c \in Nat /\ ExistsBijection(1..c, S)
  BY FS_CardinalityType
<1>2. \E h \in [1..c -> S] : IsInjective(h)
  BY <1>1 DEF ExistsBijection, Bijection, Injection
<1>3. f \in [1..c -> S] /\ IsInjective(f)
  BY <1>2 DEF SetToSeq
<1> HIDE DEF f
<1>4. f \in Injection(1..c, S)
  BY <1>3 DEF Injection
<1>5. IsFiniteSet(1..c) /\ Cardinality(1..c) = c
  <2>1. 1 \in Int /\ c \in Int
    BY <1>1
  <2>2. IsFiniteSet(1..c)
    BY <2>1, FS_Interval
  <2>3. Cardinality(1..c) = IF 1 > c THEN 0 ELSE c - 1 + 1
    BY <2>1, FS_Interval
  <2> QED BY <1>1, <2>2, <2>3
<1>6. f \in Surjection(1..c, S)
  <2> HIDE DEF c
  <2>1. Cardinality(1..c) = Cardinality(S) <=> f \in Surjection(1..c, S)
    BY <1>4, FS_Injection
  <2> QED BY <1>5, <2>1 DEF c
<1> HIDE DEF c
<1>7. DOMAIN f = 1..c /\ Len(f) = c
  BY <1>1, <1>3
<1> QED BY <1>1, <1>3, <1>6, <1>7 DEF IsInjective, Surjection, f

LEMMA AppliedKeeps ==
  ASSUME NEW t, NEW g, NEW u, NEW up \in BOOLEAN, Kept(t, g, u, up), NEW ks \in SUBSET NodeKeys, NEW ver \in 0..2,
         ver # 0, NEW seen \in SUBSET NodeKeys, ~up => seen = {}
  PROVE  Kept(ApplyNodes(t, ks, ver, seen), g, u, up) /\ Len(t.marker) <= Len(ApplyNodes(t, ks, ver, seen).marker)
<1> DEFINE S == {k \in ks : t.mk[k] = 0}
           fresh == SetToSeq(S)
           n == Len(t.marker)
           id(k) == n + CHOOSE i \in DOMAIN fresh : fresh[i] = k
           more == [i \in DOMAIN fresh |-> [key |-> fresh[i], ghost |-> FALSE, ver |-> ver]]
           ms == t.marker \o more
           m == [k \in NodeKeys |-> IF k \in Range(fresh) THEN id(k) ELSE t.mk[k]]
           l == t.layer \union {id(k) : k \in Range(fresh) \intersect seen}
           d == [k \in NodeKeys |-> IF k \in ks THEN [from |-> "api", ver |-> ver] ELSE t.data[k]]
           q == ApplyNodes(t, ks, ver, seen)
<1>1. /\ t \in TableRec /\ Held(t, g, u, up) /\ Layered(t, g, u, up)
      /\ t.mk \in [NodeKeys -> Nat] /\ t.marker \in Seq(MarkerRec) /\ t.layer \in SUBSET Nat
      /\ t.data \in [NodeKeys -> DataRec]
  BY DEF Kept, TableRec
<1>2. S \in SUBSET NodeKeys /\ \A k \in S : k \in ks /\ t.mk[k] = 0
  OBVIOUS
<1>3. IsFiniteSet(S)
  <2> HIDE DEF S
  <2>1. IsFiniteSet(NodeKeys)
    BY LiveNodesAssumption
  <2> QED BY <1>2, <2>1, FS_Subset
<1>4. q = [t EXCEPT !.marker = ms, !.mk = m, !.layer = l, !.data = d]
  BY DEF ApplyNodes
<1>5. n \in Nat /\ DOMAIN t.marker = 1..n
  BY <1>1
<1> HIDE DEF S
<1>6. /\ DOMAIN fresh = 1..Len(fresh) /\ Len(fresh) \in Nat /\ fresh \in [1..Len(fresh) -> S]
      /\ \A i, j \in DOMAIN fresh : fresh[i] = fresh[j] => i = j
      /\ \A x \in S : \E i \in DOMAIN fresh : fresh[i] = x
  BY <1>3, SequencedIs
<1> HIDE DEF fresh
<1>7. Range(fresh) = S
  BY <1>6 DEF Range
<1> DEFINE at(k) == CHOOSE i \in DOMAIN fresh : fresh[i] = k
<1>8. \A k \in S : at(k) \in 1..Len(fresh) /\ fresh[at(k)] = k /\ id(k) = n + at(k)
  BY <1>6
<1> HIDE DEF at, id
<1>9. \A i \in 1..Len(fresh) : [key |-> fresh[i], ghost |-> FALSE, ver |-> ver] \in MarkerRec
  BY <1>2, <1>6 DEF MarkerRec
<1>10. more \in Seq(MarkerRec) /\ Len(more) = Len(fresh) /\ \A i \in 1..Len(fresh) : more[i].key = fresh[i] /\ more[i].ghost = FALSE
  <2>1. more \in [1..Len(fresh) -> MarkerRec]
    BY <1>6, <1>9
  <2>2. more \in Seq(MarkerRec) /\ Len(more) = Len(fresh)
    BY <1>6, <2>1
  <2> QED BY <1>6, <2>2
<1> HIDE DEF more
<1>11. /\ ms \in Seq(MarkerRec) /\ Len(ms) = n + Len(fresh) /\ DOMAIN ms = 1..(n + Len(fresh))
       /\ (\A i \in 1..n : ms[i] = t.marker[i]) /\ (\A i \in 1..Len(fresh) : ms[n + i] = more[i])
  <2>1. t.marker \in Seq(MarkerRec) /\ more \in Seq(MarkerRec)
    BY <1>1, <1>10
  <2>2. ms \in Seq(MarkerRec) /\ Len(ms) = n + Len(more)
    BY <2>1
  <2>3. DOMAIN ms = 1..(n + Len(fresh))
    BY <1>10, <2>2
  <2>4. \A i \in 1..n : ms[i] = t.marker[i]
    BY <1>5, <2>1
  <2>5. \A i \in 1..Len(fresh) : ms[n + i] = more[i]
    <3> TAKE i \in 1..Len(fresh)
    <3>1. n + i \in 1..(n + Len(more)) /\ ~(n + i <= n) /\ (n + i) - n = i
      BY <1>5, <1>6, <1>10
    <3> QED BY <2>1, <3>1
  <2> QED BY <1>10, <2>2, <2>3, <2>4, <2>5
<1> HIDE DEF ms
<1>12. \A k \in S : id(k) \in Nat /\ id(k) # 0 /\ id(k) \in DOMAIN ms /\ ms[id(k)].key = k /\ ms[id(k)].ghost = FALSE
  BY <1>5, <1>6, <1>8, <1>10, <1>11, SMTT(60)
<1>13. /\ \A k \in NodeKeys : k \in S => m[k] = id(k)
       /\ \A k \in NodeKeys : k \notin S => m[k] = t.mk[k]
       /\ m \in [NodeKeys -> Nat]
  BY <1>1, <1>2, <1>7, <1>12
<1>14. /\ t.layer \subseteq l
       /\ \A i \in l : i \in t.layer \/ \E k \in S : k \in seen /\ i = id(k)
  BY <1>7
<1>15. \A k \in S : id(k) \in Nat
  BY <1>12
<1>16. l \in SUBSET Nat
  BY <1>1, <1>14, <1>15
<1>17. [from |-> "api", ver |-> ver] \in DataRec /\ [from |-> "api", ver |-> ver] # None
  BY DEF DataRec, None
<1>18. d \in [NodeKeys -> DataRec] /\ \A k \in NodeKeys : d[k] = None => k \notin ks /\ d[k] = t.data[k]
  BY <1>1, <1>17
<1> HIDE DEF m, l, d
<1>19. q \in TableRec
  BY <1>1, <1>4, <1>11, <1>13, <1>16, <1>18, Zenon DEF TableRec
<1>20. q.marker = ms /\ q.mk = m /\ q.layer = l /\ q.data = d
  BY <1>1, <1>4 DEF TableRec
<1> HIDE DEF q
<1>21. \A k \in NodeKeys : t.mk[k] # 0 => t.mk[k] \in 1..n /\ ms[t.mk[k]] = t.marker[t.mk[k]] /\ t.mk[k] \in DOMAIN ms
  <2>1. \A k \in NodeKeys : t.mk[k] # 0 => t.mk[k] \in 1..n
    BY <1>1, <1>5 DEF Held
  <2> QED BY <2>1, <1>5, <1>6, <1>11
<1>22. Held(q, g, u, up)
  <2> SUFFICES ASSUME NEW k \in NodeKeys, m[k] # 0
               PROVE  /\ m[k] \in DOMAIN ms /\ ms[m[k]].key = k
                      /\ ms[m[k]].ghost => up /\ m[k] \in g
                      /\ d[k] = None => ms[m[k]].ghost
    BY <1>20 DEF Held
  <2>1. CASE k \in S
    <3>1. d[k] # None
      BY <1>2, <1>18, <2>1
    <3> QED BY <1>12, <1>13, <2>1, <3>1
  <2>2. CASE k \notin S
    <3>1. m[k] = t.mk[k] /\ ms[m[k]] = t.marker[t.mk[k]] /\ m[k] \in DOMAIN ms
      BY <1>13, <1>21, <2>2
    <3>2. d[k] = None => t.data[k] = None
      BY <1>18
    <3> QED BY <1>1, <3>1, <3>2 DEF Held
  <2> QED BY <2>1, <2>2
<1>23. \A i \in t.layer : i \in 1..n /\ i \in DOMAIN ms /\ ms[i] = t.marker[i] /\ t.marker[i].key \in NodeKeys
  <2> TAKE i \in t.layer
  <2>1. i \in 1..n
    BY <1>1, <1>5 DEF Layered
  <2>2. t.marker[i] \in MarkerRec
    BY <1>1, <1>5, <2>1
  <2>3. t.marker[i].key \in NodeKeys
    BY <2>2 DEF MarkerRec
  <2> QED BY <1>5, <1>6, <1>11, <2>1, <2>3
<1>24. Layered(q, g, u, up)
  <2>1. l \subseteq DOMAIN ms
    BY <1>12, <1>14, <1>23
  <2>2. ASSUME NEW i \in l PROVE (m[ms[i].key] = i \/ i \in u) /\ (ms[i].ghost => i \in g)
    <3>1. CASE i \in t.layer
      <4>1. t.mk[t.marker[i].key] = i \/ i \in u
        BY <1>1, <3>1 DEF Layered
      <4>2. t.marker[i].ghost => i \in g
        BY <1>1, <3>1 DEF Layered
      <4>3. i # 0 /\ ms[i] = t.marker[i] /\ t.marker[i].key \in NodeKeys
        BY <1>23, <3>1
      <4>4. t.marker[i].key \in S => t.mk[t.marker[i].key] = 0
        BY <1>2
      <4> QED BY <1>13, <4>1, <4>2, <4>3, <4>4
    <3>2. CASE \E k \in S : k \in seen /\ i = id(k)
      <4>1. PICK k \in S : i = id(k)
        BY <3>2
      <4>2. k \in NodeKeys
        BY <1>2
      <4> QED BY <1>12, <1>13, <4>1, <4>2
    <3> QED BY <1>14, <3>1, <3>2
  <2>3. ~up => l = {}
    BY <1>1, <1>14 DEF Layered
  <2> QED BY <1>20, <2>1, <2>2, <2>3 DEF Layered
<1>25. Len(t.marker) <= Len(ms)
  BY <1>5, <1>6, <1>11
<1> QED BY <1>19, <1>20, <1>22, <1>24, <1>25 DEF Kept, q

LEMMA BecomeKeeps ==
  ASSUME NodesInv, NEW t, Kept(t, ghostTimers', untracked', nodesUp'), DOMAIN marker \subseteq DOMAIN t.marker,
         TablesBecome(t), ghostTimers' \subseteq DOMAIN t.marker, loads' \subseteq AskRec, nloads' \in Nat,
         nodesUp' \in BOOLEAN
  PROVE  NodesInv'
<1>1. t \in TableRec
  BY DEF Kept
<1>2. t = [mk |-> t.mk, marker |-> t.marker, layer |-> t.layer, data |-> t.data]
  BY <1>1 DEF TableRec
<1>3. mk' = t.mk /\ marker' = t.marker /\ layer' = t.layer /\ data' = t.data
  BY DEF TablesBecome
<1>4. tables' = t
  BY <1>2, <1>3, Zenon DEF tables
<1> QED BY <1>3, <1>4 DEF NodesInv

\* The tables emptied are sound whatever timers run.
LEMMA EmptiedIs ==
  ASSUME NodesInv, NEW g, NEW u, NEW up
  PROVE  LET t == [tables EXCEPT !.layer = {}, !.mk = [k \in NodeKeys |-> 0], !.data = [k \in NodeKeys |-> None]]
         IN Kept(t, g, u, up) /\ t.marker = marker
<1> DEFINE m == [k \in NodeKeys |-> 0]
           d == [k \in NodeKeys |-> None]
           t == [tables EXCEPT !.layer = {}, !.mk = m, !.data = d]
<1>7. m = [k \in NodeKeys |-> 0] /\ d = [k \in NodeKeys |-> None]
  OBVIOUS
<1> HIDE DEF m, d
<1>2. tables \in TableRec /\ tables.marker = marker
  BY DEF NodesInv, Kept, tables
<1>3. None \in DataRec
  BY DEF None, DataRec
<1>4. m \in [NodeKeys -> Nat] /\ d \in [NodeKeys -> DataRec] /\ {} \in SUBSET Nat
  BY <1>3, <1>7
<1>5. t \in TableRec
  BY <1>2, <1>4, Zenon DEF TableRec
<1>8. t.mk = m /\ t.layer = {} /\ t.data = d /\ t.marker = marker
  BY <1>2 DEF TableRec
<1> HIDE DEF t
<1>6. Held(t, g, u, up) /\ Layered(t, g, u, up)
  BY <1>7, <1>8 DEF Held, Layered
<1> QED BY <1>5, <1>6, <1>8 DEF Kept, t, m, d

\* A new marker for a key that has none: a real one with its data, or a ghost
\* with its timer.
LEMMA NewMarkerKeeps ==
  ASSUME NEW t, NEW g, NEW u, Kept(t, g, u, TRUE), NEW k \in NodeKeys, t.mk[k] = 0,
         NEW r \in MarkerRec, r.key = k, NEW h, g \subseteq h, r.ghost => Len(t.marker) + 1 \in h,
         NEW d \in [NodeKeys -> DataRec], \A j \in NodeKeys : j # k => d[j] = t.data[j], ~r.ghost => d[k] # None
  PROVE  Kept([mk |-> [t.mk EXCEPT ![k] = Len(t.marker) + 1], marker |-> Append(t.marker, r),
               layer |-> t.layer \union {Len(t.marker) + 1}, data |-> d], h, u, TRUE)
<1> DEFINE n == Len(t.marker)
           m == [t.mk EXCEPT ![k] = n + 1]
           ms == Append(t.marker, r)
           l == t.layer \union {n + 1}
           q == [mk |-> m, marker |-> ms, layer |-> l, data |-> d]
<1>1. /\ Held(t, g, u, TRUE) /\ Layered(t, g, u, TRUE)
      /\ t.mk \in [NodeKeys -> Nat] /\ t.marker \in Seq(MarkerRec) /\ t.layer \in SUBSET Nat
  BY DEF Kept, TableRec
<1>2. n \in Nat /\ DOMAIN t.marker = 1..n
  BY <1>1
<1>3. /\ ms \in Seq(MarkerRec) /\ DOMAIN ms = 1..(n + 1) /\ ms[n + 1] = r
      /\ \A i \in 1..n : ms[i] = t.marker[i] /\ t.marker[i] \in MarkerRec
  BY <1>1, <1>2
<1>4. m \in [NodeKeys -> Nat] /\ m[k] = n + 1 /\ \A j \in NodeKeys : j # k => m[j] = t.mk[j]
  BY <1>1, <1>2
<1>5. l \in SUBSET Nat
  BY <1>1, <1>2
<1>6. n + 1 \in DOMAIN ms /\ n + 1 # 0 /\ \A i \in 1..n : i \in DOMAIN ms /\ i # 0
  BY <1>2, <1>3
<1> HIDE DEF m, ms, n
<1>7. q \in TableRec
  BY <1>3, <1>4, <1>5 DEF TableRec
<1>8. q.mk = m /\ q.marker = ms /\ q.layer = l /\ q.data = d
  OBVIOUS
<1> HIDE DEF q
<1>9. Held(q, h, u, TRUE)
  <2> SUFFICES ASSUME NEW j \in NodeKeys, m[j] # 0
               PROVE  /\ m[j] \in DOMAIN ms /\ ms[m[j]].key = j
                      /\ ms[m[j]].ghost => m[j] \in h
                      /\ d[j] = None => ms[m[j]].ghost
    BY <1>8 DEF Held
  <2>1. CASE j = k
    BY <1>3, <1>4, <1>6, <2>1 DEF n
  <2>2. CASE j # k
    <3>1. m[j] = t.mk[j] /\ d[j] = t.data[j]
      BY <1>4, <2>2
    <3>2. t.mk[j] \in 1..n
      BY <1>1, <1>2, <3>1 DEF Held
    <3>3. ms[m[j]] = t.marker[t.mk[j]] /\ m[j] \in DOMAIN ms
      BY <1>3, <1>6, <3>1, <3>2
    <3> QED BY <1>1, <3>1, <3>3 DEF Held
  <2> QED BY <2>1, <2>2
<1>10. Layered(q, h, u, TRUE)
  <2> SUFFICES ASSUME NEW i \in l
               PROVE  i \in DOMAIN ms /\ (m[ms[i].key] = i \/ i \in u) /\ (ms[i].ghost => i \in h)
    BY <1>8 DEF Layered
  <2>1. CASE i = n + 1
    BY <1>3, <1>4, <1>6, <2>1 DEF n
  <2>2. CASE i \in t.layer
    <3>1. i \in 1..n
      BY <1>1, <1>2, <2>2 DEF Layered
    <3>2. ms[i] = t.marker[i] /\ i \in DOMAIN ms /\ i # 0 /\ t.marker[i] \in MarkerRec
      BY <1>3, <1>6, <3>1
    <3>3. t.marker[i].key \in NodeKeys
      BY <3>2 DEF MarkerRec
    <3>4. t.mk[t.marker[i].key] = i \/ i \in u
      BY <1>1, <2>2 DEF Layered
    <3>5. t.marker[i].ghost => i \in g
      BY <1>1, <2>2 DEF Layered
    <3> QED BY <1>4, <3>2, <3>3, <3>4, <3>5
  <2> QED BY <2>1, <2>2
<1> QED BY <1>7, <1>9, <1>10 DEF Kept, q, m, ms, n

------------------------------------------------------------------------------
LEMMA LoadsKeep ==
  ASSUME NodesInv, (\E a \in DOMAIN Areas : loadNodes(a)) \/ loadNodesBefore
  PROVE  NodesInv'
<1>1. PICK w \in DOMAIN Areas \union {"past"} : AskNodes(w)
  BY DEF loadNodes, loadNodesBefore
<1>2. loads' = loads \union {[id |-> nloads, what |-> w]} /\ nloads' = nloads + 1
  BY <1>1 DEF AskNodes
<1>3. [id |-> nloads, what |-> w] \in AskRec
  BY DEF AskRec, NodesInv
<1>4. loads' \subseteq AskRec /\ nloads' \in Nat /\ UNCHANGED <<ghostTimers, untracked, nodesUp>>
  BY <1>2, <1>3 DEF NodesInv, loadNodes, loadNodesBefore
<1>5. CASE \E a \in DOMAIN Areas : loadNodes(a)
  <2> DEFINE t == [tables EXCEPT !.layer = {}, !.mk = [k \in NodeKeys |-> 0], !.data = [k \in NodeKeys |-> None]]
  <2>1. TablesBecome(t)
    BY <1>5 DEF loadNodes
  <2>2. Kept(t, ghostTimers', untracked', nodesUp') /\ t.marker = marker
    BY EmptiedIs
  <2> HIDE DEF t
  <2> QED BY <1>4, <2>1, <2>2, BecomeKeeps DEF NodesInv
<1>6. CASE loadNodesBefore
  <2>1. tables' = tables /\ marker' = marker
    BY <1>6 DEF loadNodesBefore, tables
  <2> QED BY <1>4, <2>1 DEF NodesInv
<1> QED BY <1>5, <1>6

LEMMA NodesAnswerKeeps ==
  ASSUME NodesInv, NEW r \in loads, NodesAnswer(r)
  PROVE  NodesInv'
<1> DEFINE ks == IF r.what = "past" THEN PastKeys ELSE Areas[r.what]
           ver == IF r.what = "past" THEN Then ELSE Now
           t == IF r.what = "past" THEN Reconcile(tables, ks, ver) ELSE tables
<1>1. r \in AskRec /\ r.what \in DOMAIN Areas \union {"past"}
  BY DEF NodesInv, AskRec
<1>2. ks \in SUBSET NodeKeys /\ ver \in 0..2 /\ ver # 0
  BY <1>1, LiveNodesAssumption DEF Then, Now
<1>3. loads' \subseteq AskRec /\ UNCHANGED <<ghostTimers, untracked, nodesUp, nloads>>
  BY DEF NodesAnswer, NodesInv
<1>4. Kept(tables, ghostTimers, untracked, nodesUp) /\ tables.marker = marker /\ nodesUp \in BOOLEAN
  BY DEF NodesInv, tables
<1>5. (\E seen \in IF nodesUp THEN {{}, NodeKeys} ELSE {{}} : TablesBecome(ApplyNodes(t, ks, ver, seen)))
      \/ UNCHANGED <<mk, marker, layer, data>>
  BY DEF NodesAnswer
<1> HIDE DEF ks, ver
<1>6. Kept(t, ghostTimers, untracked, nodesUp) /\ t.marker = marker
  <2> DEFINE gone == {k \in NodeKeys : tables.mk[k] # 0 /\ k \notin ks}
             moved == {k \in ks : tables.mk[k] # 0 /\ tables.data[k] # None /\ tables.data[k].ver # ver}
             s == DropNodes(tables, gone)
  <2>1. gone \in SUBSET NodeKeys /\ moved \in SUBSET NodeKeys
    BY <1>2
  <2>2. Reconcile(tables, ks, ver) = DropMarkers(s, moved)
    BY DEF Reconcile
  <2> HIDE DEF gone, moved
  <2>3. Kept(s, ghostTimers, untracked, nodesUp) /\ s.marker = tables.marker
    BY <1>4, <2>1, DropNodesKeeps
  <2> HIDE DEF s
  <2>4. Kept(DropMarkers(s, moved), ghostTimers, untracked, nodesUp) /\ DropMarkers(s, moved).marker = s.marker
    BY <2>1, <2>3, DropMarkersKeeps
  <2> QED BY <1>4, <2>2, <2>3, <2>4
<1> HIDE DEF t
<1>7. CASE UNCHANGED <<mk, marker, layer, data>>
  <2>1. tables' = tables /\ marker' = marker
    BY <1>7 DEF tables
  <2> QED BY <1>3, <2>1 DEF NodesInv
<1>8. ASSUME NEW seen \in (IF nodesUp THEN {{}, NodeKeys} ELSE {{}}), TablesBecome(ApplyNodes(t, ks, ver, seen))
      PROVE  NodesInv'
  <2> DEFINE q == ApplyNodes(t, ks, ver, seen)
  <2>1. seen \in SUBSET NodeKeys /\ (~nodesUp => seen = {})
    OBVIOUS
  <2>2. Kept(q, ghostTimers, untracked, nodesUp) /\ Len(t.marker) <= Len(q.marker)
    BY <1>2, <1>4, <1>6, <2>1, AppliedKeeps
  <2> HIDE DEF q
  <2>3. t.marker \in Seq(MarkerRec) /\ q.marker \in Seq(MarkerRec)
    BY <1>6, <2>2 DEF Kept, TableRec
  <2>4. DOMAIN marker \subseteq DOMAIN q.marker
    BY <1>6, <2>2, <2>3
  <2>5. TablesBecome(q)
    BY <1>8 DEF q
  <2>6. ghostTimers' \subseteq DOMAIN q.marker /\ nloads' \in Nat /\ nodesUp' \in BOOLEAN
    BY <1>3, <2>4 DEF NodesInv
  <2>7. Kept(q, ghostTimers', untracked', nodesUp')
    BY <1>3, <2>2
  <2> QED BY <1>3, <2>4, <2>5, <2>6, <2>7, BecomeKeeps
<1> QED BY <1>5, <1>7, <1>8

LEMMA AdvertKeeps ==
  ASSUME NodesInv, NEW k \in NodeKeys, Advert(k)
  PROVE  NodesInv' /\ mk' = [mk EXCEPT ![k] = Len(marker) + 1]
<1> DEFINE r == [key |-> k, ghost |-> FALSE, ver |-> Now]
           d == [data EXCEPT ![k] = [from |-> "ws", ver |-> Now]]
           n == Len(marker) + 1
           m == [mk EXCEPT ![k] = n]
           ms == Append(marker, r)
           l == layer \union {n}
           q == [mk |-> m, marker |-> ms, layer |-> l, data |-> d]
<1>1. nodesUp /\ mk[k] = 0 /\ UNCHANGED <<loads, ghostTimers, untracked, nodesUp, nloads>>
  BY DEF Advert
<1>2. /\ tables \in TableRec /\ Kept(tables, ghostTimers, untracked, TRUE)
      /\ tables.mk = mk /\ tables.marker = marker /\ tables.layer = layer /\ tables.data = data
  BY <1>1 DEF NodesInv, Kept, tables
<1>3. mk \in [NodeKeys -> Nat] /\ marker \in Seq(MarkerRec) /\ data \in [NodeKeys -> DataRec]
  BY <1>2 DEF TableRec
<1>4. r \in MarkerRec /\ [from |-> "ws", ver |-> Now] \in DataRec /\ [from |-> "ws", ver |-> Now] # None
  BY DEF MarkerRec, DataRec, Now, None
<1>5. d \in [NodeKeys -> DataRec] /\ (\A j \in NodeKeys : j # k => d[j] = data[j]) /\ d[k] # None
  BY <1>3, <1>4
<1>6. r.key = k /\ r.ghost = FALSE
  OBVIOUS
<1>7. TablesBecome(q)
  <2> DEFINE e == [tables EXCEPT !.data = d]
             w == [e EXCEPT !.marker = ms, !.mk = m, !.layer = l]
  <2>1. TablesBecome(addNodeMarker([tables EXCEPT !.data[k] = [from |-> "ws", ver |-> Now]], k, Now, TRUE))
    BY DEF Advert
  <2>2. [tables EXCEPT !.data[k] = [from |-> "ws", ver |-> Now]] = e
    BY <1>2
  <2> HIDE DEF d
  <2>3. e.mk = mk /\ e.marker = marker /\ e.layer = layer /\ e.data = d
    BY <1>2 DEF TableRec
  <2>4. e \in TableRec
    BY <1>2, <1>5, Zenon DEF TableRec
  <2> HIDE DEF e
  <2>5. addNodeMarker(e, k, Now, TRUE) = w
    BY <1>1, <2>3 DEF addNodeMarker
  <2> HIDE DEF ms, m, l
  <2>6. w.mk = m /\ w.marker = ms /\ w.layer = l /\ w.data = d
    BY <2>3, <2>4 DEF TableRec
  <2> HIDE DEF w
  <2>7. TablesBecome(w)
    BY <2>1, <2>2, <2>5
  <2> QED BY <2>6, <2>7 DEF TablesBecome
<1>12. mk' = [mk EXCEPT ![k] = Len(marker) + 1]
  BY <1>7 DEF TablesBecome
<1>8. DOMAIN marker \subseteq DOMAIN ms
  BY <1>3
<1> HIDE DEF r, d
<1>9. Kept(q, ghostTimers, untracked, TRUE)
  <2>1. tables.mk[k] = 0 /\ ghostTimers \subseteq ghostTimers /\ ~r.ghost
    BY <1>1, <1>2, <1>6
  <2>2. \A j \in NodeKeys : j # k => d[j] = tables.data[j]
    BY <1>2, <1>5
  <2>3. Kept([mk |-> [tables.mk EXCEPT ![k] = Len(tables.marker) + 1], marker |-> Append(tables.marker, r),
               layer |-> tables.layer \union {Len(tables.marker) + 1}, data |-> d], ghostTimers, untracked, TRUE)
    <3> HIDE DEF n, m, ms, l, q
    <3>1. r.ghost => Len(tables.marker) + 1 \in ghostTimers
      BY <2>1
    <3>2. ~r.ghost => d[k] # None
      BY <1>5
    <3>3. /\ Kept(tables, ghostTimers, untracked, TRUE) /\ tables.mk[k] = 0 /\ r \in MarkerRec /\ r.key = k
          /\ ghostTimers \subseteq ghostTimers /\ d \in [NodeKeys -> DataRec]
      BY <1>2, <1>4, <1>5, <1>6, <2>1
    <3> QED BY <2>2, <3>1, <3>2, <3>3, NewMarkerKeeps, ZenonT(60)
  <2> QED BY <1>2, <2>3
<1>10. q.marker = ms
  OBVIOUS
<1> HIDE DEF q, ms
<1>11. Kept(q, ghostTimers', untracked', nodesUp') /\ nodesUp' \in BOOLEAN
  BY <1>1, <1>9 DEF NodesInv
<1>13. NodesInv'
  BY <1>1, <1>7, <1>8, <1>10, <1>11, BecomeKeeps DEF NodesInv
<1> QED BY <1>12, <1>13

LEMMA GhostKeeps ==
  ASSUME NodesInv, NEW k \in NodeKeys, pulseGhost(k)
  PROVE  NodesInv'
<1> DEFINE r == [key |-> k, ghost |-> TRUE, ver |-> 0]
           n == Len(marker) + 1
           m == [mk EXCEPT ![k] = n]
           ms == Append(marker, r)
           l == layer \union {n}
           h == ghostTimers \union {n}
           q == [mk |-> m, marker |-> ms, layer |-> l, data |-> data]
<1>1. nodesUp /\ mk[k] = 0 /\ UNCHANGED <<data, loads, untracked, nodesUp, nloads>>
      /\ marker' = ms /\ mk' = m /\ layer' = l /\ ghostTimers' = h
  BY DEF pulseGhost
<1>2. /\ tables \in TableRec /\ Kept(tables, ghostTimers, untracked, TRUE)
      /\ tables.mk = mk /\ tables.marker = marker /\ tables.layer = layer /\ tables.data = data
  BY <1>1 DEF NodesInv, Kept, tables
<1>3. mk \in [NodeKeys -> Nat] /\ marker \in Seq(MarkerRec) /\ data \in [NodeKeys -> DataRec]
  BY <1>2 DEF TableRec
<1>4. r \in MarkerRec /\ r.key = k /\ r.ghost = TRUE
  BY DEF MarkerRec
<1>5. TablesBecome(q)
  BY <1>1 DEF TablesBecome
<1>6. DOMAIN marker \subseteq DOMAIN ms /\ n \in DOMAIN ms
  BY <1>3
<1> HIDE DEF r
<1>7. Kept(q, h, untracked, TRUE)
  <2>1. tables.mk[k] = 0 /\ ghostTimers \subseteq h /\ (r.ghost => Len(tables.marker) + 1 \in h)
    BY <1>1, <1>2
  <2>2. Kept([mk |-> [tables.mk EXCEPT ![k] = Len(tables.marker) + 1], marker |-> Append(tables.marker, r),
               layer |-> tables.layer \union {Len(tables.marker) + 1}, data |-> tables.data], h, untracked, TRUE)
    BY <1>2, <1>3, <1>4, <2>1, NewMarkerKeeps
  <2> QED BY <1>2, <2>2
<1>8. q.marker = ms
  OBVIOUS
<1> HIDE DEF q, ms, n
<1>9. Kept(q, ghostTimers', untracked', nodesUp') /\ nodesUp' \in BOOLEAN
  BY <1>1, <1>7 DEF NodesInv
<1>10. ghostTimers' \subseteq DOMAIN q.marker
  BY <1>1, <1>6, <1>8 DEF NodesInv
<1> QED BY <1>1, <1>5, <1>6, <1>8, <1>9, <1>10, BecomeKeeps DEF NodesInv

LEMMA GhostTimerKeeps ==
  ASSUME NodesInv, NEW i \in ghostTimers, GhostTimer(i)
  PROVE  NodesInv'
<1> DEFINE g == ghostTimers \ {i}
<1>1. UNCHANGED <<marker, data, loads, nodesUp, nloads>> /\ ghostTimers' = g /\ nodesUp \in BOOLEAN
  BY DEF GhostTimer, NodesInv
<1>2. /\ tables \in TableRec /\ Held(tables, ghostTimers, untracked, nodesUp) /\ Layered(tables, ghostTimers, untracked, nodesUp)
      /\ tables.mk = mk /\ tables.marker = marker /\ tables.layer = layer /\ tables.data = data
  BY <1>1 DEF NodesInv, Kept, tables
<1>3. mk \in [NodeKeys -> Nat] /\ marker \in Seq(MarkerRec) /\ data \in [NodeKeys -> DataRec] /\ layer \in SUBSET Nat
  BY <1>2 DEF TableRec
<1>4. g \subseteq DOMAIN marker /\ i \in DOMAIN marker
  BY DEF NodesInv
<1>5. CASE ~nodesUp
  <2>1. UNCHANGED <<mk, layer, untracked>>
    BY <1>5 DEF GhostTimer
  <2>2. tables' = tables
    BY <1>1, <2>1 DEF tables
  <2>3. Held(tables, g, untracked, nodesUp)
    BY <1>2, <1>5 DEF Held
  <2>4. Layered(tables, g, untracked, nodesUp)
    BY <1>2, <1>5 DEF Layered
  <2>5. Kept(tables, g, untracked, nodesUp)
    BY <1>2, <2>3, <2>4 DEF Kept
  <2> QED BY <1>1, <1>4, <2>1, <2>2, <2>5 DEF NodesInv
<1>6. CASE nodesUp
  <2> DEFINE k == marker[i].key
             l == layer \ {i}
             m == [mk EXCEPT ![k] = 0]
             u == IF mk[k] \notin {0, i} THEN untracked \union {mk[k]} ELSE untracked
             q == [mk |-> m, marker |-> marker, layer |-> l, data |-> data]
  <2>1. layer' = l /\ mk' = m /\ untracked' = u
    BY <1>6 DEF GhostTimer
  <2>2. marker[i] \in MarkerRec
    BY <1>3, <1>4
  <2>3. k \in NodeKeys
    BY <2>2 DEF MarkerRec
  <2>4. m \in [NodeKeys -> Nat] /\ l \in SUBSET Nat /\ m[k] = 0 /\ \A j \in NodeKeys : j # k => m[j] = mk[j]
    BY <1>3, <2>3
  <2>5. untracked \subseteq u /\ (mk[k] # 0 /\ mk[k] # i => mk[k] \in u)
    OBVIOUS
  <2>6. TablesBecome(q)
    BY <1>1, <2>1 DEF TablesBecome
  <2>7. q.mk = m /\ q.marker = marker /\ q.layer = l /\ q.data = data
    OBVIOUS
  <2>8. q \in TableRec
    BY <1>3, <2>4 DEF TableRec
  <2> HIDE DEF q, m, u
  <2>9. Held(q, g, u, TRUE)
    <3> SUFFICES ASSUME NEW j \in NodeKeys, m[j] # 0
                 PROVE  /\ m[j] \in DOMAIN marker /\ marker[m[j]].key = j
                        /\ marker[m[j]].ghost => m[j] \in g
                        /\ data[j] = None => marker[m[j]].ghost
      BY <2>7 DEF Held
    <3>1. j # k /\ m[j] = mk[j]
      BY <2>4
    <3>2. /\ mk[j] \in DOMAIN marker /\ marker[mk[j]].key = j
          /\ marker[mk[j]].ghost => mk[j] \in ghostTimers
          /\ data[j] = None => marker[mk[j]].ghost
      BY <1>2, <3>1 DEF Held
    <3>3. mk[j] # i
      BY <3>1, <3>2
    <3> QED BY <3>1, <3>2, <3>3
  <2>10. Layered(q, g, u, TRUE)
    <3> SUFFICES ASSUME NEW x \in l
                 PROVE  x \in DOMAIN marker /\ (m[marker[x].key] = x \/ x \in u) /\ (marker[x].ghost => x \in g)
      BY <2>7 DEF Layered
    <3>1. x \in layer /\ x # i
      OBVIOUS
    <3>2. x \in DOMAIN marker /\ (mk[marker[x].key] = x \/ x \in untracked) /\ (marker[x].ghost => x \in ghostTimers)
      BY <1>2, <3>1 DEF Layered
    <3>3. marker[x] \in MarkerRec /\ x # 0
      BY <1>3, <3>2
    <3>4. marker[x].key \in NodeKeys
      BY <3>3 DEF MarkerRec
    <3> QED BY <2>4, <2>5, <3>1, <3>2, <3>3, <3>4
  <2>11. Kept(q, ghostTimers', untracked', nodesUp')
    <3>1. Kept(q, g, u, TRUE)
      BY <2>8, <2>9, <2>10 DEF Kept
    <3>2. nodesUp' = TRUE
      BY <1>1, <1>6
    <3> QED BY <1>1, <2>1, <3>1, <3>2
  <2> QED BY <1>1, <1>4, <2>6, <2>7, <2>11, BecomeKeeps DEF NodesInv
<1> QED BY <1>1, <1>5, <1>6

LEMMA PruneKeeps ==
  ASSUME NodesInv, NEW aged \in SUBSET NodeKeys, pruneStaleNodes(aged)
  PROVE  NodesInv'
<1> DEFINE out == {k \in aged : mk[k] # 0 /\ data[k].from = "ws" /\ k \notin Infra}
           q == DropNodes(tables, out)
<1>1. TablesBecome(q) /\ UNCHANGED <<loads, ghostTimers, untracked, nodesUp, nloads>>
  BY DEF pruneStaleNodes
<1>2. out \in SUBSET NodeKeys
  OBVIOUS
<1> HIDE DEF out
<1>3. Kept(tables, ghostTimers, untracked, nodesUp) /\ tables.marker = marker
  BY DEF NodesInv, tables
<1>4. Kept(q, ghostTimers, untracked, nodesUp) /\ q.marker = marker
  BY <1>2, <1>3, DropNodesKeeps
<1> HIDE DEF q
<1>5. Kept(q, ghostTimers', untracked', nodesUp')
  BY <1>1, <1>4
<1> QED BY <1>1, <1>4, <1>5, BecomeKeeps DEF NodesInv

LEMMA CullKeeps ==
  ASSUME NodesInv, cullMarkers
  PROVE  NodesInv'
<1>1. PICK seen \in SUBSET NodeKeys :
        layer' = (layer \union {mk[k] : k \in {j \in seen : mk[j] # 0}}) \ {mk[k] : k \in {j \in NodeKeys \ seen : mk[j] # 0}}
  BY DEF cullMarkers
<1>2. nodesUp /\ UNCHANGED <<mk, marker, data, loads, ghostTimers, untracked, nodesUp, nloads>>
  BY DEF cullMarkers
<1>3. /\ tables \in TableRec /\ Held(tables, ghostTimers, untracked, nodesUp) /\ Layered(tables, ghostTimers, untracked, nodesUp)
      /\ tables.mk = mk /\ tables.marker = marker /\ tables.layer = layer /\ tables.data = data
  BY DEF NodesInv, Kept, tables
<1>4. mk \in [NodeKeys -> Nat] /\ marker \in Seq(MarkerRec) /\ data \in [NodeKeys -> DataRec] /\ layer \in SUBSET Nat
  BY <1>3 DEF TableRec
<1>5. \A i \in layer' : i \in layer \/ \E k \in NodeKeys : mk[k] # 0 /\ i = mk[k]
  BY <1>1
<1> DEFINE q == [mk |-> mk, marker |-> marker, layer |-> layer', data |-> data]
<1>6. layer' \in SUBSET Nat
  BY <1>4, <1>5
<1>7. q \in TableRec /\ q.mk = mk /\ q.marker = marker /\ q.layer = layer' /\ q.data = data
  BY <1>4, <1>6 DEF TableRec
<1>8. TablesBecome(q)
  BY <1>2 DEF TablesBecome
<1> HIDE DEF q
<1>9. Held(q, ghostTimers, untracked, nodesUp)
  BY <1>3, <1>7 DEF Held
<1>10. Layered(q, ghostTimers, untracked, nodesUp)
  <2> SUFFICES ASSUME NEW i \in layer'
               PROVE  i \in DOMAIN marker /\ (mk[marker[i].key] = i \/ i \in untracked) /\ (marker[i].ghost => i \in ghostTimers)
    BY <1>2, <1>7 DEF Layered
  <2>1. CASE i \in layer
    BY <1>3, <2>1 DEF Layered
  <2>2. CASE \E k \in NodeKeys : mk[k] # 0 /\ i = mk[k]
    BY <1>3, <2>2 DEF Held
  <2> QED BY <1>5, <2>1, <2>2
<1>11. Kept(q, ghostTimers', untracked', nodesUp')
  BY <1>2, <1>7, <1>9, <1>10 DEF Kept
<1> QED BY <1>2, <1>7, <1>8, <1>11, BecomeKeeps DEF NodesInv

LEMMA VisitsKeep ==
  ASSUME NodesInv, NodesDestroy \/ NodesMount
  PROVE  NodesInv'
<1>1. CASE NodesDestroy
  <2> DEFINE t == [tables EXCEPT !.layer = {}, !.mk = [k \in NodeKeys |-> 0], !.data = [k \in NodeKeys |-> None]]
  <2>1. TablesBecome(t) /\ UNCHANGED <<loads, ghostTimers, untracked, nloads>> /\ nodesUp' = FALSE
    BY <1>1 DEF NodesDestroy
  <2>2. Kept(t, ghostTimers', untracked', nodesUp') /\ t.marker = marker
    BY EmptiedIs
  <2> HIDE DEF t
  <2> QED BY <2>1, <2>2, BecomeKeeps DEF NodesInv
<1>2. CASE NodesMount
  <2>1. ~nodesUp /\ nodesUp' = TRUE /\ UNCHANGED <<mk, marker, layer, data, loads, ghostTimers, untracked, nloads>>
    BY <1>2 DEF NodesMount
  <2>2. tables' = tables
    BY <2>1 DEF tables
  <2>3. Held(tables, ghostTimers, untracked, TRUE)
    BY <2>1 DEF NodesInv, Kept, Held
  <2>4. Layered(tables, ghostTimers, untracked, TRUE)
    BY <2>1 DEF NodesInv, Kept, Layered
  <2>5. Kept(tables, ghostTimers, untracked, TRUE)
    BY <2>3, <2>4 DEF NodesInv, Kept
  <2> QED BY <2>1, <2>2, <2>5 DEF NodesInv
<1> QED BY <1>1, <1>2

LEMMA NodesStepKeeps ==
  ASSUME NodesInv, [NodesNext]_nodeVars
  PROVE  NodesInv'
<1>1. CASE UNCHANGED nodeVars
  <2>1. tables' = tables
    BY <1>1 DEF nodeVars, tables
  <2> QED BY <1>1, <2>1 DEF nodeVars, NodesInv
<1>2. ASSUME NEW k \in NodeKeys, Advert(k) \/ pulseGhost(k) PROVE NodesInv'
  BY <1>2, AdvertKeeps, GhostKeeps
<1>3. ASSUME NEW r \in loads, NodesAnswer(r) PROVE NodesInv'
  BY <1>3, NodesAnswerKeeps
<1>4. ASSUME NEW i \in ghostTimers, GhostTimer(i) PROVE NodesInv'
  BY <1>4, GhostTimerKeeps
<1>5. ASSUME NEW aged \in SUBSET NodeKeys, pruneStaleNodes(aged) PROVE NodesInv'
  BY <1>5, PruneKeeps
<1>6. CASE (\E a \in DOMAIN Areas : loadNodes(a)) \/ loadNodesBefore
  BY <1>6, LoadsKeep
<1>7. CASE cullMarkers
  BY <1>7, CullKeeps
<1>8. CASE NodesDestroy \/ NodesMount
  BY <1>8, VisitsKeep
<1> QED BY <1>1, <1>2, <1>3, <1>4, <1>5, <1>6, <1>7, <1>8 DEF NodesNext

LEMMA NodesTell ==
  ASSUME NodesInv
  PROVE  MarkersTracked /\ RealHasData /\ GhostsAreTimed
<1>1. /\ tables \in TableRec /\ Held(tables, ghostTimers, untracked, nodesUp) /\ Layered(tables, ghostTimers, untracked, nodesUp)
      /\ tables.mk = mk /\ tables.marker = marker /\ tables.layer = layer /\ tables.data = data
  BY DEF NodesInv, Kept, tables
<1> QED BY <1>1 DEF Held, Layered, MarkersTracked, RealHasData, GhostsAreTimed

DimStep ==
    \A k \in NodeKeys :
        mk[k] # 0 /\ mk'[k] = 0 /\ nodesUp' /\ loads' = loads /\ nloads' = nloads /\ ghostTimers' = ghostTimers
            => k \notin Infra /\ data[k].from = "ws"

(* Age alone takes no marker of a node that the server knows, nor of       *)
(* infrastructure, off the map, whatever was loaded, drawn or scrubbed     *)
(* before (pruneStaleNodes of live.js).                                    *)
THEOREM InfraOnlyDimmedThm == NodesSpec => InfraOnlyDimmed
<1>1. ASSUME NodesInv, [NodesNext]_nodeVars PROVE [DimStep]_nodeVars
  <2> SUFFICES ASSUME NodesNext, NEW k \in NodeKeys, mk[k] # 0, mk'[k] = 0, nodesUp', loads' = loads,
                      nloads' = nloads, ghostTimers' = ghostTimers
               PROVE  k \notin Infra /\ data[k].from = "ws"
    BY <1>1 DEF DimStep
  <2>1. tables \in TableRec /\ tables.mk = mk /\ nloads \in Nat /\ Kept(tables, ghostTimers, untracked, nodesUp)
    BY <1>1 DEF NodesInv, Kept, tables
  <2>2. mk \in [NodeKeys -> Nat] /\ marker \in Seq(MarkerRec)
    BY <2>1 DEF TableRec, tables
  <2>3. ~(\E a \in DOMAIN Areas : loadNodes(a)) /\ ~loadNodesBefore
    <3>1. nloads' # nloads + 1
      BY <2>1
    <3> QED BY <3>1, Zenon DEF loadNodes, loadNodesBefore, AskNodes
  <2>4. ~(\E r \in loads : NodesAnswer(r)) /\ ~(\E i \in ghostTimers : GhostTimer(i))
    BY DEF NodesAnswer, GhostTimer
  <2>5. ~(\E j \in NodeKeys : Advert(j))
    <3> SUFFICES ASSUME NEW j \in NodeKeys, Advert(j) PROVE FALSE
      OBVIOUS
    <3>1. mk[j] = 0
      BY DEF Advert
    <3>4. mk' = [mk EXCEPT ![j] = Len(marker) + 1]
      BY <1>1, AdvertKeeps
    <3>5. k # j
      BY <3>1
    <3> QED BY <2>2, <3>4, <3>5
  <2>6. ~(\E j \in NodeKeys : pulseGhost(j))
    BY <2>2 DEF pulseGhost
  <2>7. ~cullMarkers /\ ~NodesDestroy /\ ~NodesMount
    BY DEF cullMarkers, NodesDestroy, NodesMount
  <2>8. PICK aged \in SUBSET NodeKeys : pruneStaleNodes(aged)
    BY <2>3, <2>4, <2>5, <2>6, <2>7 DEF NodesNext
  <2> DEFINE out == {j \in aged : mk[j] # 0 /\ data[j].from = "ws" /\ j \notin Infra}
  <2>9. mk' = DropNodes(tables, out).mk
    BY <2>8 DEF pruneStaleNodes, TablesBecome
  <2>10. out \in SUBSET NodeKeys
    OBVIOUS
  <2> HIDE DEF out
  <2>11. mk' = [j \in NodeKeys |-> IF j \in out THEN 0 ELSE mk[j]]
    BY <2>1, <2>9, <2>10, DropNodesKeeps
  <2>12. k \in out
    BY <2>11
  <2> QED BY <2>12 DEF out
<1>. QED  BY <1>1, NodesStart, NodesStepKeeps, PTL DEF NodesSpec, InfraOnlyDimmed, DimStep

------------------------------------------------------------------------------
\* The life of the page and its markers, side by side.
LivePageSpec == PageInit /\ NodesInit /\ [][PageNext]_pageVars /\ [][NodesNext]_nodeVars

(* What the page installs (socket handler, controls, heat map, classes,    *)
(* pin) is there once and goes with it, its filter is what its input shows *)
(* and its markers are those of nodes it knows, for any number of visits,  *)
(* keys, areas and loads, whatever answers late (init, destroy, loadNodes, *)
(* pulseNode and pruneStaleNodes of live.js).                              *)
THEOREM PageCleanThm == LivePageSpec => []PageClean
<1>1. PageInv /\ NodesInv => PageClean
  BY NodesTell DEF PageInv, PageClean
<1>. QED  BY <1>1, PageStarts, PageStepKeeps, NodesStart, NodesStepKeeps, PTL DEF LivePageSpec

------------------------------------------------------------------------------
(* The feed. *)

ItemRec == [h : Hashes, n : Nat, fresh : BOOLEAN]
FeedRec == [els : Seq(ItemRec), feed : Seq(Nat), dedup : [Hashes -> Nat]]
Items(s) ==
    /\ \A i, j \in DOMAIN s.feed : s.feed[i] = s.feed[j] => i = j
    /\ \A i \in DOMAIN s.feed : s.feed[i] \in DOMAIN s.els
\* A fresh item is the one its hash leads to.
Found(s) ==
    /\ \A i \in DOMAIN s.els : s.els[i].fresh => s.dedup[s.els[i].h] = i
    /\ \A h \in Hashes : s.dedup[h] # 0 => s.dedup[h] \in DOMAIN s.els /\ s.els[s.dedup[h]].h = h
FeedOK(s) == s \in FeedRec /\ Items(s) /\ Found(s)

LEMMA PrependIs ==
  ASSUME NEW f \in Seq(Nat), NEW i \in Nat, \A a, b \in DOMAIN f : f[a] = f[b] => a = b
  PROVE  LET g == Prepend(i, f)
         IN /\ g \in Seq(Nat)
            /\ \A a, b \in DOMAIN g : g[a] = g[b] => a = b
            /\ \A a \in DOMAIN g : g[a] = i \/ \E b \in DOMAIN f : g[a] = f[b]
<1> DEFINE ps == {p \in DOMAIN f : f[p] # i}
           k == Picked(f, ps)
           n == Cardinality(ps)
           g == Prepend(i, f)
<1>1. \A p \in ps : p \in DOMAIN f /\ f[p] # i
  OBVIOUS
<1>2. ps \in SUBSET DOMAIN f
  OBVIOUS
<1> HIDE DEF ps
<1>3. /\ n \in Nat /\ k \in Seq(Nat) /\ Len(k) = n
      /\ \A a \in 1..n : Nth(ps, a) \in ps /\ k[a] = f[Nth(ps, a)]
      /\ \A a, b \in 1..n : a < b => Nth(ps, a) < Nth(ps, b)
  <2>1. f \in Seq(Nat)
    OBVIOUS
  <2> HIDE DEF k, n
  <2>2. Picked(f, ps) = k /\ Cardinality(ps) = n
    BY DEF k, n
  <2>3. /\ Cardinality(ps) \in Nat
        /\ Picked(f, ps) \in Seq(Nat) /\ Len(Picked(f, ps)) = Cardinality(ps)
        /\ \A a \in 1..Cardinality(ps) : Nth(ps, a) \in ps /\ Picked(f, ps)[a] = f[Nth(ps, a)]
        /\ \A a, b \in 1..Cardinality(ps) : a < b => Nth(ps, a) < Nth(ps, b)
    BY <1>2, <2>1, PickedIs
  <2> QED BY <2>2, <2>3
<1>4. g = <<i>> \o k
  BY DEF Prepend, ps
<1> HIDE DEF k, n, g
<1>5. \A a \in 1..n : Nth(ps, a) \in Nat
  <2>1. DOMAIN f = 1..Len(f) /\ Len(f) \in Nat
    OBVIOUS
  <2> QED BY <1>1, <1>3, <2>1
<1>6. \A a, b \in 1..n : k[a] = k[b] => a = b
  <2> TAKE a, b \in 1..n
  <2> HAVE k[a] = k[b]
  <2>1. Nth(ps, a) = Nth(ps, b)
    BY <1>1, <1>3
  <2>2. ~(a < b) /\ ~(b < a)
    BY <1>3, <1>5, <2>1
  <2> QED BY <1>3, <2>2
<1>7. /\ g \in Seq(Nat) /\ Len(g) = n + 1 /\ g[1] = i
      /\ \A a \in 2..(n + 1) : g[a] = k[a - 1] /\ a - 1 \in 1..n
  BY <1>3, <1>4
<1>8. \A a \in 2..(n + 1) : g[a] # i /\ \E b \in DOMAIN f : g[a] = f[b]
  <2> TAKE a \in 2..(n + 1)
  <2>1. g[a] = k[a - 1] /\ a - 1 \in 1..n
    BY <1>7
  <2>2. Nth(ps, a - 1) \in ps /\ k[a - 1] = f[Nth(ps, a - 1)]
    BY <1>3, <2>1
  <2>3. Nth(ps, a - 1) \in DOMAIN f /\ f[Nth(ps, a - 1)] # i
    BY <1>1, <2>2
  <2> QED BY <2>1, <2>2, <2>3
<1>9. DOMAIN g = 1..(n + 1) /\ \A a \in 1..(n + 1) : a = 1 \/ a \in 2..(n + 1)
  BY <1>3, <1>7
<1>10. \A a, b \in DOMAIN g : g[a] = g[b] => a = b
  <2> TAKE a, b \in DOMAIN g
  <2> HAVE g[a] = g[b]
  <2>1. CASE a = 1 \/ b = 1
    BY <2>1, <1>7, <1>8, <1>9
  <2>2. CASE a \in 2..(n + 1) /\ b \in 2..(n + 1)
    <3>1. a - 1 = b - 1
      BY <1>6, <1>7, <2>2
    <3> QED BY <2>2, <3>1, <1>3
  <2> QED BY <2>1, <2>2, <1>9
<1> QED BY <1>7, <1>8, <1>9, <1>10 DEF g

LEMMA FoundItemKeeps ==
  ASSUME NEW s, FeedOK(s), NEW h \in Hashes, NEW n \in Nat, s.dedup[h] # 0, s.els[s.dedup[h]].fresh
  PROVE  FeedOK([s EXCEPT !.els[s.dedup[h]].n = @ + n, !.feed = Prepend(s.dedup[h], @)])
<1> DEFINE i == s.dedup[h]
           l == s.els
           e == [l EXCEPT ![i].n = @ + n]
           g == Prepend(i, s.feed)
           t == [s EXCEPT !.els[i].n = @ + n, !.feed = Prepend(i, @)]
<1>1. s \in FeedRec /\ Items(s) /\ Found(s)
  BY DEF FeedOK
<1>2. l \in Seq(ItemRec) /\ s.feed \in Seq(Nat) /\ s.dedup \in [Hashes -> Nat]
  BY <1>1 DEF FeedRec
<1>3. i \in Nat /\ i \in DOMAIN l /\ l[i].h = h
  BY <1>1, <1>2 DEF Found
<1>4. t = [els |-> e, feed |-> g, dedup |-> s.dedup]
  <2>1. s = [els |-> l, feed |-> s.feed, dedup |-> s.dedup]
    BY <1>1 DEF FeedRec
  <2> HIDE DEF i, g
  <2>2. t = [s EXCEPT !.els = e, !.feed = g]
    BY <2>1 DEF g
  <2> HIDE DEF e, l, t
  <2> DEFINE o == s.feed
             d == s.dedup
  <2>3. s = [els |-> l, feed |-> o, dedup |-> d]
    BY <2>1
  <2> HIDE DEF o, d
  <2>4. t = [els |-> e, feed |-> g, dedup |-> d]
    BY <2>2, <2>3
  <2> QED BY <2>4 DEF d
<1>5. /\ g \in Seq(Nat)
      /\ \A a, b \in DOMAIN g : g[a] = g[b] => a = b
      /\ \A a \in DOMAIN g : g[a] = i \/ \E b \in DOMAIN s.feed : g[a] = s.feed[b]
  BY <1>1, <1>2, <1>3, PrependIs DEF Items
<1> HIDE DEF g
<1>6. e \in Seq(ItemRec) /\ DOMAIN e = DOMAIN l /\ \A j \in DOMAIN l : e[j].h = l[j].h /\ e[j].fresh = l[j].fresh
  <2>1. l[i] \in ItemRec /\ DOMAIN l = 1..Len(l) /\ Len(l) \in Nat
    BY <1>2, <1>3
  <2>2. [l[i] EXCEPT !.n = @ + n] \in ItemRec /\ [l[i] EXCEPT !.n = @ + n].h = l[i].h /\ [l[i] EXCEPT !.n = @ + n].fresh = l[i].fresh
    <3>1. l[i].n + n \in Nat
      BY <2>1 DEF ItemRec
    <3> DEFINE b == l[i].n + n
    <3> HIDE DEF b
    <3>2. b \in Nat
      BY <3>1 DEF b
    <3>3. [l[i] EXCEPT !.n = b] \in ItemRec /\ [l[i] EXCEPT !.n = b].h = l[i].h /\ [l[i] EXCEPT !.n = b].fresh = l[i].fresh
      BY <2>1, <3>2 DEF ItemRec
    <3> QED BY <3>3 DEF b
  <2>3. e = [l EXCEPT ![i] = [l[i] EXCEPT !.n = @ + n]]
    BY <1>3
  <2> DEFINE y == [l[i] EXCEPT !.n = @ + n]
  <2>4. l \in Seq(ItemRec) /\ y \in ItemRec /\ y.h = l[i].h /\ y.fresh = l[i].fresh /\ e = [l EXCEPT ![i] = y]
        /\ i \in DOMAIN l
    BY <1>2, <1>3, <2>2, <2>3
  <2> HIDE DEF y, e, l, i
  <2>5. e \in Seq(ItemRec) /\ DOMAIN e = DOMAIN l
    BY ONLY <2>4
  <2>6. \A j \in DOMAIN l : e[j] = IF j = i THEN y ELSE l[j]
    BY ONLY <2>4
  <2> QED BY ONLY <2>4, <2>5, <2>6
<1> HIDE DEF e, i, l
<1>7. [els |-> e, feed |-> g, dedup |-> s.dedup] \in FeedRec
  BY <1>2, <1>5, <1>6 DEF FeedRec
<1>8. \A a \in DOMAIN g : g[a] \in DOMAIN e
  BY <1>1, <1>3, <1>5, <1>6 DEF Items, l
<1>9. Found([els |-> e, feed |-> g, dedup |-> s.dedup])
  BY <1>1, <1>6 DEF Found, l
<1>10. Items([els |-> e, feed |-> g, dedup |-> s.dedup])
  BY <1>5, <1>8 DEF Items
<1>11. FeedOK(t)
  BY <1>4, <1>7, <1>9, <1>10 DEF FeedOK
<1> QED BY <1>11 DEF i

LEMMA ConsIs ==
  ASSUME NEW S, NEW q \in Seq(S), NEW x \in S
  PROVE  /\ <<x>> \o q \in Seq(S) /\ Len(<<x>> \o q) = Len(q) + 1 /\ Len(q) \in Nat /\ (<<x>> \o q)[1] = x
         /\ \A i \in 2..(Len(q) + 1) : (<<x>> \o q)[i] = q[i - 1] /\ i - 1 \in DOMAIN q
  OBVIOUS

LEMMA TrimIs ==
  ASSUME NEW S, NEW q \in Seq(S), NEW m \in 0..Len(q)
  PROVE  /\ SubSeq(q, 1, m) \in Seq(S) /\ Len(SubSeq(q, 1, m)) = m /\ DOMAIN SubSeq(q, 1, m) = 1..m
         /\ \A i \in 1..m : SubSeq(q, 1, m)[i] = q[i] /\ i \in 1..Len(q)
  OBVIOUS

LEMMA NewItemKeeps ==
  ASSUME NEW s, FeedOK(s), NEW h \in Hashes, NEW n \in Nat, ~(s.dedup[h] # 0 /\ s.els[s.dedup[h]].fresh)
  PROVE  LET k == Len(s.els) + 1
             f == <<k>> \o s.feed
         IN FeedOK([els |-> Append(s.els, [h |-> h, n |-> n, fresh |-> TRUE]),
                    feed |-> SubSeq(f, 1, IF Len(f) > FeedMax THEN FeedMax ELSE Len(f)),
                    dedup |-> [s.dedup EXCEPT ![h] = k]])
<1> DEFINE l == s.els
           d == s.dedup
           k == Len(l) + 1
           f == <<k>> \o s.feed
           m == IF Len(f) > FeedMax THEN FeedMax ELSE Len(f)
           x == [h |-> h, n |-> n, fresh |-> TRUE]
           e == Append(l, x)
           g == SubSeq(f, 1, m)
           c == [d EXCEPT ![h] = k]
           t == [els |-> e, feed |-> g, dedup |-> c]
<1>1. s \in FeedRec /\ Items(s) /\ Found(s)
  BY DEF FeedOK
<1>2. l \in Seq(ItemRec) /\ s.feed \in Seq(Nat) /\ d \in [Hashes -> Nat] /\ x \in ItemRec
  BY <1>1 DEF FeedRec, ItemRec
<1>3. /\ Len(l) \in Nat /\ k \in Nat /\ k # 0 /\ DOMAIN l = 1..Len(l) /\ e \in Seq(ItemRec) /\ DOMAIN e = 1..k /\ e[k] = x
      /\ \A i \in 1..Len(l) : e[i] = l[i]
  BY <1>2
<1>4. /\ f \in Seq(Nat) /\ Len(f) = Len(s.feed) + 1 /\ Len(s.feed) \in Nat /\ f[1] = k
      /\ \A i \in 2..Len(f) : f[i] = s.feed[i - 1] /\ i - 1 \in DOMAIN s.feed
  <2> DEFINE q == s.feed
  <2>1. q \in Seq(Nat) /\ k \in Nat
    BY <1>2, <1>3
  <2> HIDE DEF q, k
  <2>2. /\ <<k>> \o q \in Seq(Nat) /\ Len(<<k>> \o q) = Len(q) + 1 /\ Len(q) \in Nat /\ (<<k>> \o q)[1] = k
        /\ \A i \in 2..(Len(q) + 1) : (<<k>> \o q)[i] = q[i - 1] /\ i - 1 \in DOMAIN q
    BY ONLY <2>1, ConsIs
  <2>3. f = <<k>> \o q
    BY DEF q
  <2>4. f \in Seq(Nat) /\ Len(f) = Len(q) + 1 /\ Len(q) \in Nat /\ f[1] = k
        /\ \A i \in 2..(Len(q) + 1) : f[i] = q[i - 1] /\ i - 1 \in DOMAIN q
    BY ONLY <2>2, <2>3
  <2>5. \A i \in 2..Len(f) : f[i] = q[i - 1] /\ i - 1 \in DOMAIN q
    BY ONLY <2>4
  <2> QED BY ONLY <2>4, <2>5 DEF q
<1>5. m \in 0..Len(f) /\ FeedMax \in Nat
  BY <1>4, LiveFeedAssumption
<1> HIDE DEF m, f, x
<1>6. g \in Seq(Nat) /\ Len(g) = m /\ DOMAIN g = 1..m /\ \A i \in 1..m : g[i] = f[i] /\ i \in 1..Len(f)
  <2>1. f \in Seq(Nat) /\ m \in 0..Len(f)
    BY ONLY <1>4, <1>5
  <2> QED BY ONLY <2>1, TrimIs DEF g
<1> HIDE DEF g, e
<1>7. \A i \in 2..Len(f) : f[i] \in 1..Len(l)
  <2> TAKE i \in 2..Len(f)
  <2>1. f[i] = s.feed[i - 1] /\ i - 1 \in DOMAIN s.feed
    BY ONLY <1>4
  <2>2. \A a \in DOMAIN s.feed : s.feed[a] \in DOMAIN l
    BY ONLY <1>1 DEF Items, l
  <2>3. DOMAIN l = 1..Len(l)
    BY ONLY <1>3
  <2> QED BY ONLY <2>1, <2>2, <2>3
<1>8. \A i, j \in 1..Len(f) : f[i] = f[j] => i = j
  <2> TAKE i, j \in 1..Len(f)
  <2> HAVE f[i] = f[j]
  <2>1. k \notin 1..Len(l)
    BY <1>3
  <2>2. CASE i = 1 \/ j = 1
    <3>1. \A a \in 2..Len(f) : f[a] # f[1]
      BY <1>4, <1>7, <2>1
    <3>2. \A a \in 1..Len(f) : a = 1 \/ a \in 2..Len(f)
      BY <1>4
    <3> QED BY <2>2, <3>1, <3>2
  <2>3. CASE i \in 2..Len(f) /\ j \in 2..Len(f)
    <3>1. f[i] = s.feed[i - 1] /\ f[j] = s.feed[j - 1] /\ i - 1 \in DOMAIN s.feed /\ j - 1 \in DOMAIN s.feed
      BY ONLY <1>4, <2>3
    <3>2. s.feed[i - 1] = s.feed[j - 1]
      BY ONLY <3>1, f[i] = f[j]
    <3>3. \A a, b \in DOMAIN s.feed : s.feed[a] = s.feed[b] => a = b
      BY ONLY <1>1 DEF Items
    <3>4. i - 1 = j - 1
      BY ONLY <3>1, <3>2, <3>3
    <3>5. i \in Int /\ j \in Int
      BY ONLY <2>3, <1>4
    <3> QED BY ONLY <3>4, <3>5
  <2> QED BY <2>2, <2>3, <1>4
<1>9. \A i \in 1..Len(f) : f[i] \in 1..k
  <2>1. k \in Nat /\ Len(l) \in Nat /\ k = Len(l) + 1
    BY <1>3
  <2> HIDE DEF k
  <2> TAKE i \in 1..Len(f)
  <2>2. i = 1 \/ i \in 2..Len(f)
    BY ONLY <1>4, i \in 1..Len(f)
  <2>3. CASE i = 1
    BY ONLY <1>4, <2>1, <2>3
  <2>4. CASE i \in 2..Len(f)
    <3>1. f[i] \in 1..Len(l)
      BY ONLY <1>7, <2>4
    <3> QED BY ONLY <2>1, <3>1
  <2> QED BY ONLY <2>2, <2>3, <2>4
<1>10. Items(t)
  <2>1. \A i \in 1..m : g[i] \in 1..k
    BY <1>6, <1>9
  <2>2. \A i, j \in 1..m : g[i] = g[j] => i = j
    BY <1>6, <1>8
  <2> QED BY <1>3, <1>6, <2>1, <2>2 DEF Items
<1>11. c \in [Hashes -> Nat] /\ c[h] = k /\ \A a \in Hashes : a # h => c[a] = d[a]
  BY <1>2, <1>3
<1> HIDE DEF c
<1>12. t \in FeedRec
  BY <1>3, <1>6, <1>11 DEF FeedRec
<1>13. x.h = h
  BY DEF x
<1>14. \A i \in DOMAIN l : l[i] \in ItemRec /\ l[i].h \in Hashes
  <2>1. \A i \in DOMAIN l : l[i] \in ItemRec
    BY <1>2
  <2> QED BY <2>1 DEF ItemRec
<1>15. \A i \in DOMAIN l : l[i].fresh => d[l[i].h] = i /\ l[i].h # h
  <2> TAKE i \in DOMAIN l
  <2> HAVE l[i].fresh
  <2>1. d[l[i].h] = i
    BY <1>1 DEF Found
  <2>2. i # 0
    BY <1>3
  <2> QED BY <2>1, <2>2
<1>16. \A i \in 1..k : e[i].fresh => c[e[i].h] = i
  <2> TAKE i \in 1..k
  <2> HAVE e[i].fresh
  <2>1. CASE i = k
    BY <2>1, <1>3, <1>11, <1>13
  <2>2. CASE i \in 1..Len(l)
    BY <2>2, <1>3, <1>11, <1>14, <1>15
  <2> QED BY <2>1, <2>2, <1>3
<1>17. \A a \in Hashes : c[a] # 0 => c[a] \in 1..k /\ e[c[a]].h = a
  <2> TAKE a \in Hashes
  <2> HAVE c[a] # 0
  <2>1. CASE a = h
    BY <2>1, <1>3, <1>11, <1>13
  <2>2. CASE a # h
    <3>1. d[a] # 0 /\ c[a] = d[a]
      BY <2>2, <1>11
    <3>2. d[a] \in 1..Len(l) /\ l[d[a]].h = a
      BY <3>1, <1>1, <1>3 DEF Found
    <3> QED BY <3>1, <3>2, <1>3
  <2> QED BY <2>1, <2>2
<1>18. Found(t)
  BY <1>3, <1>16, <1>17 DEF Found
<1>19. FeedOK(t)
  BY <1>10, <1>12, <1>18 DEF FeedOK
<1> QED BY <1>19 DEF m, f, x, e, g, c

\* A list of distinct hashes makes a feed.
LEMMA FeedOfKeeps ==
  ASSUME NEW l \in Seq(Hashes), \A i, j \in DOMAIN l : l[i] = l[j] => i = j, NEW q \in Seq(Hashes)
  PROVE  FeedOK(FeedOf(l, q))
<1> DEFINE e == [i \in DOMAIN l |-> [h |-> l[i], n |-> CountIn(q, l[i]), fresh |-> TRUE]]
           f == [i \in DOMAIN l |-> i]
           d == [h \in Hashes |-> IF \E i \in DOMAIN l : l[i] = h THEN CHOOSE i \in DOMAIN l : l[i] = h ELSE 0]
           t == [els |-> e, feed |-> f, dedup |-> d]
<1>1. DOMAIN l = 1..Len(l) /\ Len(l) \in Nat /\ \A i \in DOMAIN l : l[i] \in Hashes
  OBVIOUS
<1>2. \A h \in Hashes : CountIn(q, h) \in Nat
  <2> TAKE h \in Hashes
  <2>1. 1 \in Int /\ Len(q) \in Int /\ DOMAIN q = 1..Len(q)
    OBVIOUS
  <2>2. IsFiniteSet(DOMAIN q)
    BY <2>1, FS_Interval
  <2>3. {i \in DOMAIN q : q[i] = h} \in SUBSET DOMAIN q
    OBVIOUS
  <2>4. IsFiniteSet({i \in DOMAIN q : q[i] = h})
    BY <2>2, <2>3, FS_Subset
  <2> QED BY <2>4, FS_CardinalityType DEF CountIn
<1>3. \A i \in DOMAIN l : e[i] \in ItemRec /\ e[i].h = l[i]
  BY <1>1, <1>2 DEF ItemRec
<1>4. e \in Seq(ItemRec) /\ DOMAIN e = DOMAIN l
  <2>1. e \in [1..Len(l) -> ItemRec]
    BY <1>1, <1>3
  <2> QED BY <1>1, <2>1
<1>5. f \in Seq(Nat) /\ DOMAIN f = DOMAIN l /\ \A i \in DOMAIN l : f[i] = i
  BY <1>1
<1>6. \A h \in Hashes : d[h] # 0 => d[h] \in DOMAIN l /\ l[d[h]] = h
  <2> TAKE h \in Hashes
  <2>1. CASE \E i \in DOMAIN l : l[i] = h
    <3>1. d[h] = CHOOSE i \in DOMAIN l : l[i] = h
      BY <2>1
    <3> QED BY <2>1, <3>1, Zenon
  <2>2. CASE ~\E i \in DOMAIN l : l[i] = h
    BY <2>2
  <2> QED BY <2>1, <2>2
<1>7. \A i \in DOMAIN l : d[l[i]] = i
  <2> TAKE i \in DOMAIN l
  <2>1. d[l[i]] = CHOOSE j \in DOMAIN l : l[j] = l[i]
    BY <1>1
  <2>2. d[l[i]] \in DOMAIN l /\ l[d[l[i]]] = l[i]
    BY <2>1, Zenon
  <2> QED BY <2>2
<1>8. d \in [Hashes -> Nat]
  <2>1. \A h \in Hashes : d[h] \in Nat
    BY <1>1, <1>6
  <2> QED BY <2>1
<1> HIDE DEF e, f, d
<1>9. t \in FeedRec
  BY <1>4, <1>5, <1>8 DEF FeedRec
<1>10. Items(t)
  BY <1>4, <1>5 DEF Items
<1>11. Found(t)
  BY <1>3, <1>4, <1>6, <1>7 DEF Found
<1>12. FeedOK(t)
  BY <1>9, <1>10, <1>11 DEF FeedOK
<1> QED BY <1>12 DEF FeedOf, e, f, d

LEMMA RebuiltKeeps == ASSUME NEW q \in Seq(Hashes), NEW multi PROVE FeedOK(Rebuilt(q, multi))
<1> DEFINE ps == Latest(q)
           p == Picked(q, ps)
           o == Reverse(p)
           m == IF Len(o) > FeedMax THEN FeedMax ELSE Len(o)
           t == SubSeq(o, 1, m)
           ls == {i \in DOMAIN t : ~multi \/ t[i] \in Multibyte}
           l == Picked(t, ls)
<1>1. DOMAIN q = 1..Len(q) /\ Len(q) \in Nat
  OBVIOUS
<1>2. ps \in SUBSET DOMAIN q /\ \A a, b \in ps : q[a] = q[b] => a = b
  <2>1. ps \in SUBSET DOMAIN q /\ \A a \in ps : \A j \in (a + 1)..Len(q) : q[j] # q[a]
    BY DEF Latest
  <2>2. \A a, b \in ps : a < b => b \in (a + 1)..Len(q)
    BY <1>1, <2>1
  <2>3. \A a, b \in ps : ~(a < b) /\ ~(b < a) => a = b
    BY <1>1, <2>1
  <2> HIDE DEF ps
  <2> QED BY <2>1, <2>2, <2>3
<1> HIDE DEF ps
<1>3. p \in Seq(Hashes)
  BY <1>2, PickedIs
<1>4. \A i, j \in DOMAIN p : p[i] = p[j] => i = j
  BY <1>2, PickedOnce
<1> HIDE DEF p
<1>5. Len(p) \in Nat /\ DOMAIN p = 1..Len(p) /\ \A i \in 1..Len(p) : p[i] \in Hashes
  BY <1>3
<1>6. \A i \in 1..Len(p) : (Len(p) - i) + 1 \in 1..Len(p)
  BY <1>5
<1>7. o \in Seq(Hashes) /\ Len(o) = Len(p) /\ \A i \in 1..Len(p) : o[i] = p[(Len(p) - i) + 1]
  <2>1. o = [i \in 1..Len(p) |-> p[(Len(p) - i) + 1]]
    BY DEF Reverse
  <2>2. o \in [1..Len(p) -> Hashes]
    BY <1>5, <1>6, <2>1
  <2> QED BY <1>5, <2>1, <2>2
<1> HIDE DEF o
<1>8. \A i, j \in 1..Len(p) : o[i] = o[j] => i = j
  <2> TAKE i, j \in 1..Len(p)
  <2> HAVE o[i] = o[j]
  <2>1. (Len(p) - i) + 1 = (Len(p) - j) + 1
    BY <1>4, <1>5, <1>6, <1>7
  <2> QED BY <1>5, <2>1
<1>9. m \in 0..Len(o) /\ Len(o) \in Nat
  BY <1>5, <1>7, LiveFeedAssumption
<1> HIDE DEF m
<1>10. t \in Seq(Hashes) /\ Len(t) = m /\ \A i \in 1..m : t[i] = o[i] /\ i \in 1..Len(o)
  BY <1>7, <1>9
<1> HIDE DEF t
<1>11. \A i, j \in DOMAIN t : t[i] = t[j] => i = j
  <2>1. DOMAIN t = 1..m
    BY <1>9, <1>10
  <2> QED BY <1>7, <1>8, <1>10, <2>1
<1>12. ls \in SUBSET DOMAIN t /\ \A i, j \in ls : t[i] = t[j] => i = j
  BY <1>11
<1>13. Rebuilt(q, multi) = FeedOf(l, q)
  BY DEF Rebuilt, t, m, o, p, ps
<1> HIDE DEF ls
<1>14. l \in Seq(Hashes)
  BY <1>10, <1>12, PickedIs
<1>15. \A i, j \in DOMAIN l : l[i] = l[j] => i = j
  BY <1>10, <1>12, PickedOnce
<1> HIDE DEF l
<1> QED BY <1>13, <1>14, <1>15, FeedOfKeeps

LEMMA AddKeeps ==
  ASSUME NEW s, FeedOK(s), NEW h \in Hashes, NEW n \in Nat
  PROVE  FeedOK(addFeedItem(s, h, n))
<1>1. CASE s.dedup[h] # 0 /\ s.els[s.dedup[h]].fresh
  <2>1. addFeedItem(s, h, n) = [s EXCEPT !.els[s.dedup[h]].n = @ + n, !.feed = Prepend(s.dedup[h], @)]
    BY <1>1, Zenon DEF addFeedItem
  <2>2. FeedOK([s EXCEPT !.els[s.dedup[h]].n = @ + n, !.feed = Prepend(s.dedup[h], @)])
    BY <1>1, FoundItemKeeps
  <2> QED BY <2>1, <2>2, Zenon
<1>2. CASE ~(s.dedup[h] # 0 /\ s.els[s.dedup[h]].fresh)
  <2> DEFINE k == Len(s.els) + 1
             f == <<k>> \o s.feed
             t == [els |-> Append(s.els, [h |-> h, n |-> n, fresh |-> TRUE]),
                   feed |-> SubSeq(f, 1, IF Len(f) > FeedMax THEN FeedMax ELSE Len(f)),
                   dedup |-> [s.dedup EXCEPT ![h] = k]]
  <2>1. addFeedItem(s, h, n) = t
    BY <1>2, Zenon DEF addFeedItem
  <2>2. FeedOK(t)
    BY <1>2, NewItemKeeps
  <2> QED BY <2>1, <2>2
<1> QED BY <1>1, <1>2

LEMMA BecomesKeeps == ASSUME NEW s, FeedOK(s), FeedBecomes(s) PROVE FeedOK(feedState)'
<1>1. s = [els |-> s.els, feed |-> s.feed, dedup |-> s.dedup]
  BY DEF FeedOK, FeedRec
<1>2. feedState' = s
  BY <1>1 DEF FeedBecomes, feedState
<1> QED BY <1>2

LEMMA RenderKeeps ==
  ASSUME FeedOK(feedState), NEW h \in Hashes, NEW n \in Nat, renderPacketTree(h, n)
  PROVE  FeedOK(feedState)'
<1> DEFINE b == (sw.multiOnly /\ h \notin Multibyte) \/ (sw.favOnly /\ h \notin Favourite) \/ ~feedPage
           s == IF b THEN feedState ELSE addFeedItem(feedState, h, n)
<1>1. FeedBecomes(s)
  BY DEF renderPacketTree
<1>2. FeedOK(s)
  BY AddKeeps
<1> HIDE DEF s
<1> QED BY <1>1, <1>2, BecomesKeeps

\* What is held back, counted.
HeldOf(p) == UNION {{h} \X (1..p[h]) : h \in Hashes}

LEMMA HeldMore ==
  ASSUME NEW p \in [Hashes -> Nat], IsFiniteSet(HeldOf(p)), NEW h \in Hashes
  PROVE  LET q == [p EXCEPT ![h] = @ + 1]
         IN IsFiniteSet(HeldOf(q)) /\ Cardinality(HeldOf(q)) = Cardinality(HeldOf(p)) + 1
<1> DEFINE q == [p EXCEPT ![h] = @ + 1]
           x == <<h, p[h] + 1>>
<1>1. /\ \A g \in Hashes : p[g] \in Nat /\ (g # h => q[g] = p[g])
      /\ q[h] = p[h] + 1
  OBVIOUS
<1>2. 1..q[h] = 1..p[h] \union {p[h] + 1} /\ p[h] + 1 \notin 1..p[h]
  BY <1>1
<1> HIDE DEF q
<1>3. HeldOf(q) = HeldOf(p) \union {x}
  <2>1. \A y : y \in HeldOf(q) <=> \E g \in Hashes : y \in {g} \X (1..q[g])
    BY DEF HeldOf
  <2>2. \A y : y \in HeldOf(p) <=> \E g \in Hashes : y \in {g} \X (1..p[g])
    BY DEF HeldOf
  <2>3. ({h} \X (1..q[h])) = ({h} \X (1..p[h])) \union {x}
    BY <1>2
  <2> QED BY <1>1, <2>1, <2>2, <2>3
<1>4. x \notin HeldOf(p)
  BY <1>2 DEF HeldOf
<1>5. IsFiniteSet(HeldOf(p) \union {x}) /\ Cardinality(HeldOf(p) \union {x}) = Cardinality(HeldOf(p)) + 1
  BY <1>4, FS_AddElement
<1> QED BY <1>3, <1>5 DEF q

LEMMA HeldLess ==
  ASSUME NEW p \in [Hashes -> Nat], IsFiniteSet(HeldOf(p)), NEW h \in Hashes
  PROVE  LET q == [p EXCEPT ![h] = 0]
         IN IsFiniteSet(HeldOf(q)) /\ Cardinality(HeldOf(p)) = Cardinality(HeldOf(q)) + p[h]
<1> DEFINE q == [p EXCEPT ![h] = 0]
           R == {h} \X (1..p[h])
<1>1. /\ \A g \in Hashes : p[g] \in Nat /\ (g # h => q[g] = p[g])
      /\ q[h] = 0
  OBVIOUS
<1>2. 1..q[h] = {}
  BY <1>1
<1> HIDE DEF q
<1>3. \A y : y \in HeldOf(q) <=> \E g \in Hashes : y \in {g} \X (1..q[g])
  BY DEF HeldOf
<1>4. \A y : y \in HeldOf(p) <=> \E g \in Hashes : y \in {g} \X (1..p[g])
  BY DEF HeldOf
<1>5. {h} \X (1..q[h]) = {}
  BY <1>2
<1>6. HeldOf(p) = HeldOf(q) \union R
  BY <1>1, <1>3, <1>4, <1>5
<1>7. HeldOf(q) \intersect R = {}
  BY <1>1, <1>3, <1>5
<1>8. IsFiniteSet(R) /\ Cardinality(R) = p[h]
  <2>1. 1 \in Int /\ p[h] \in Int /\ p[h] \in Nat
    BY <1>1
  <2>2. IsFiniteSet(1..p[h])
    BY <2>1, FS_Interval
  <2>3. Cardinality(1..p[h]) = IF 1 > p[h] THEN 0 ELSE p[h] - 1 + 1
    BY <2>1, FS_Interval
  <2>4. Cardinality(1..p[h]) = p[h]
    BY <2>1, <2>3
  <2>5. IsFiniteSet({h}) /\ Cardinality({h}) = 1
    BY FS_Singleton
  <2>6. IsFiniteSet(R) /\ Cardinality(R) = 1 * Cardinality(1..p[h])
    BY <2>2, <2>5, FS_Product
  <2> QED BY <2>1, <2>4, <2>6
<1>9. IsFiniteSet(HeldOf(q))
  BY <1>6, FS_Subset
<1>10. IsFiniteSet({}) /\ Cardinality({}) = 0
  BY FS_EmptySet
<1>11. Cardinality(HeldOf(q) \union R) = Cardinality(HeldOf(q)) + Cardinality(R) - Cardinality(HeldOf(q) \intersect R)
  BY <1>8, <1>9, FS_Union
<1>12. Cardinality(HeldOf(q)) \in Nat
  BY <1>9, FS_CardinalityType
<1>13. Cardinality(HeldOf(p)) = Cardinality(HeldOf(q)) + p[h]
  <2>1. Cardinality(HeldOf(q) \intersect R) = 0
    BY <1>7, <1>10
  <2> DEFINE a == Cardinality(HeldOf(q))
             b == Cardinality(R)
             c == Cardinality(HeldOf(q) \intersect R)
  <2>2. Cardinality(HeldOf(p)) = a + b - c
    BY <1>6, <1>11
  <2>3. a \in Nat /\ b = p[h] /\ p[h] \in Nat /\ c = 0
    BY <1>1, <1>8, <1>12, <2>1
  <2> HIDE DEF a, b, c
  <2>4. Cardinality(HeldOf(p)) = a + p[h]
    BY <2>2, <2>3
  <2> QED BY <2>4 DEF a
<1> QED BY <1>9, <1>13 DEF q

LEMMA HeldNone == IsFiniteSet(HeldOf([h \in Hashes |-> 0])) /\ Cardinality(HeldOf([h \in Hashes |-> 0])) = 0
<1>1. HeldOf([h \in Hashes |-> 0]) = {}
  <2>1. 1..0 = {}
    OBVIOUS
  <2> QED BY <2>1 DEF HeldOf
<1> QED BY <1>1, FS_EmptySet

SwitchRec == [hidden : BOOLEAN, suppress : BOOLEAN, realistic : BOOLEAN, favOnly : BOOLEAN, multiOnly : BOOLEAN, paused : BOOLEAN]
HeldInv ==
    /\ prop \in [Hashes -> Nat] /\ IsFiniteSet(HeldOf(prop)) /\ HeldIffTimed
    /\ tally \in [live : Nat, drawn : Nat, dropped : Nat] /\ EveryPacketOnce
MuteInv == sw \in SwitchRec /\ muteTimers \in Nat /\ MuteIsTimed
FeedInv == FeedOK(feedState) /\ vcrBuffer \in Seq(Hashes) /\ HeldInv /\ MuteInv

LEMMA FeedTells == FeedInv => FeedExact
<1> SUFFICES ASSUME FeedInv PROVE FeedExact
  OBVIOUS
<1>1. FeedOK(feedState)
  BY DEF FeedInv
<1>2. els \in Seq(ItemRec) /\ feedDedup \in [Hashes -> Nat] /\ Items(feedState) /\ Found(feedState)
  BY <1>1 DEF FeedOK, FeedRec, feedState
<1>3. \A i, j \in DOMAIN els : els[i].fresh /\ els[j].fresh /\ els[i].h = els[j].h => i = j
  BY <1>2 DEF Found, feedState
<1>4. OneFreshItem
  BY <1>2, <1>3 DEF OneFreshItem, Items, feedState
<1> QED BY <1>4 DEF FeedInv, HeldInv, MuteInv, FeedExact

LEMMA EmptyFeedOK == FeedOK([els |-> <<>>, feed |-> <<>>, dedup |-> [h \in Hashes |-> 0]])
<1>1. [els |-> <<>>, feed |-> <<>>, dedup |-> [h \in Hashes |-> 0]] \in FeedRec
  BY DEF FeedRec
<1> QED BY <1>1 DEF FeedOK, Items, Found

LEMMA FeedStarts == FeedInit => FeedInv
<1> SUFFICES ASSUME FeedInit PROVE FeedInv
  OBVIOUS
<1>1. FeedOK(feedState)
  BY EmptyFeedOK DEF FeedInit, feedState
<1>2. prop = [h \in Hashes |-> 0] /\ propTimers = {} /\ tally = [live |-> 0, drawn |-> 0, dropped |-> 0]
  BY DEF FeedInit
<1>3. HeldBack = HeldOf(prop)
  BY DEF HeldBack, HeldOf
<1>4. HeldInv
  <2>1. prop \in [Hashes -> Nat] /\ HeldIffTimed
    BY <1>2 DEF HeldIffTimed
  <2>2. EveryPacketOnce
    BY <1>2, <1>3, HeldNone DEF EveryPacketOnce
  <2>3. IsFiniteSet(HeldOf(prop))
    BY <1>2, HeldNone
  <2> QED BY <1>2, <2>1, <2>2, <2>3 DEF HeldInv
<1>5. MuteInv /\ vcrBuffer \in Seq(Hashes)
  BY DEF FeedInit, MuteInv, MuteIsTimed, SwitchRec
<1> QED BY <1>1, <1>4, <1>5 DEF FeedInv

\* What the packets of a step do to those held back.
Same == UNCHANGED <<prop, propTimers, tally>>
OneMoreHeld(h) ==
    /\ prop' = [prop EXCEPT ![h] = @ + 1] /\ propTimers' = propTimers \union {h}
    /\ tally' = [tally EXCEPT !.live = @ + 1]
OneMoreDone(k) == UNCHANGED <<prop, propTimers>> /\ k \in {"drawn", "dropped"} /\ tally' = [tally EXCEPT !.live = @ + 1, ![k] = @ + 1]
Released(h) ==
    /\ propTimers' = propTimers \ {h} /\ prop' = [prop EXCEPT ![h] = 0]
    /\ tally' = [tally EXCEPT !.drawn = @ + prop[h]]
AllDropped ==
    /\ prop' = [h \in Hashes |-> 0] /\ propTimers' = {}
    /\ tally' = [tally EXCEPT !.dropped = tally.live - tally.drawn]

LEMMA HeldKept ==
  ASSUME HeldInv,
         \/ Same \/ AllDropped \/ \E h \in Hashes : OneMoreHeld(h) \/ Released(h)
         \/ \E k \in {"drawn", "dropped"} : OneMoreDone(k)
  PROVE  HeldInv'
<1> DEFINE n == Cardinality(HeldOf(prop))
           T == [live : Nat, drawn : Nat, dropped : Nat]
<1>1. prop \in [Hashes -> Nat] /\ IsFiniteSet(HeldOf(prop)) /\ propTimers = {h \in Hashes : prop[h] > 0} /\ tally \in T
  BY DEF HeldInv, HeldIffTimed
<1>2. HeldBack = HeldOf(prop) /\ HeldBack' = HeldOf(prop')
  BY DEF HeldBack, HeldOf
<1>3. n \in Nat /\ tally.live \in Nat /\ tally.drawn \in Nat /\ tally.dropped \in Nat
  BY <1>1, FS_CardinalityType
<1>4. tally.drawn + tally.dropped + n = tally.live
  BY <1>2 DEF HeldInv, EveryPacketOnce
<1>5. CASE Same
  BY <1>5 DEF Same, HeldInv, HeldIffTimed, EveryPacketOnce, HeldBack
<1>6. CASE AllDropped
  <2>1. tally' = [live |-> tally.live, drawn |-> tally.drawn, dropped |-> tally.live - tally.drawn]
    BY <1>1, <1>6 DEF AllDropped
  <2>2. tally' \in T /\ tally'.drawn + tally'.dropped = tally'.live
    BY <1>3, <1>4, <2>1
  <2>3. prop' \in [Hashes -> Nat] /\ HeldIffTimed'
    BY <1>6 DEF AllDropped, HeldIffTimed
  <2>4. IsFiniteSet(HeldOf(prop')) /\ Cardinality(HeldOf(prop')) = 0
    BY <1>6, HeldNone DEF AllDropped
  <2>5. EveryPacketOnce'
    BY <1>2, <2>2, <2>4 DEF EveryPacketOnce
  <2> QED BY <2>2, <2>3, <2>4, <2>5 DEF HeldInv
<1>7. CASE \E k \in {"drawn", "dropped"} : OneMoreDone(k)
  <2>1. PICK k \in {"drawn", "dropped"} : OneMoreDone(k)
    BY <1>7
  <2>2. CASE k = "drawn"
    <3>1. tally' = [live |-> tally.live + 1, drawn |-> tally.drawn + 1, dropped |-> tally.dropped]
      BY <1>1, <2>1, <2>2 DEF OneMoreDone
    <3>2. tally' \in T /\ tally'.drawn + tally'.dropped + n = tally'.live
      BY <1>3, <1>4, <3>1
    <3> QED BY <1>1, <1>2, <2>1, <3>2 DEF OneMoreDone, HeldInv, HeldIffTimed, EveryPacketOnce
  <2>3. CASE k = "dropped"
    <3>1. tally' = [live |-> tally.live + 1, drawn |-> tally.drawn, dropped |-> tally.dropped + 1]
      BY <1>1, <2>1, <2>3 DEF OneMoreDone
    <3>2. tally' \in T /\ tally'.drawn + tally'.dropped + n = tally'.live
      BY <1>3, <1>4, <3>1
    <3> QED BY <1>1, <1>2, <2>1, <3>2 DEF OneMoreDone, HeldInv, HeldIffTimed, EveryPacketOnce
  <2> QED BY <2>1, <2>2, <2>3
<1>8. CASE \E h \in Hashes : OneMoreHeld(h)
  <2>1. PICK h \in Hashes : OneMoreHeld(h)
    BY <1>8
  <2>2. prop' = [prop EXCEPT ![h] = @ + 1] /\ propTimers' = propTimers \union {h}
    BY <2>1 DEF OneMoreHeld
  <2>3. prop' \in [Hashes -> Nat] /\ prop'[h] = prop[h] + 1 /\ \A g \in Hashes : g # h => prop'[g] = prop[g]
    BY <1>1, <2>2
  <2>4. IsFiniteSet(HeldOf(prop')) /\ Cardinality(HeldOf(prop')) = n + 1
    BY <1>1, <2>2, HeldMore
  <2>5. tally' = [live |-> tally.live + 1, drawn |-> tally.drawn, dropped |-> tally.dropped]
    BY <1>1, <2>1 DEF OneMoreHeld
  <2>6. tally' \in T /\ tally'.drawn + tally'.dropped + (n + 1) = tally'.live
    BY <1>3, <1>4, <2>5
  <2>7. HeldIffTimed'
    <3>1. prop[h] \in Nat
      BY <1>1
    <3>2. prop'[h] > 0
      BY <2>3, <3>1
    <3> QED BY <1>1, <2>2, <2>3, <3>2 DEF HeldIffTimed
  <2>8. EveryPacketOnce'
    BY <1>2, <2>4, <2>6 DEF EveryPacketOnce
  <2> QED BY <2>3, <2>4, <2>6, <2>7, <2>8 DEF HeldInv
<1>9. CASE \E h \in Hashes : Released(h)
  <2>1. PICK h \in Hashes : Released(h)
    BY <1>9
  <2>2. prop' = [prop EXCEPT ![h] = 0] /\ propTimers' = propTimers \ {h}
    BY <2>1 DEF Released
  <2>3. prop' \in [Hashes -> Nat] /\ prop'[h] = 0 /\ \A g \in Hashes : g # h => prop'[g] = prop[g]
    BY <1>1, <2>2
  <2>4. IsFiniteSet(HeldOf(prop')) /\ n = Cardinality(HeldOf(prop')) + prop[h]
    BY <1>1, <2>2, HeldLess
  <2> DEFINE c == prop[h]
             r == Cardinality(HeldOf(prop'))
  <2>5. c \in Nat /\ r \in Nat /\ n = r + c
    BY <1>1, <2>4, FS_CardinalityType
  <2>6. tally' = [live |-> tally.live, drawn |-> tally.drawn + c, dropped |-> tally.dropped]
    BY <1>1, <2>1 DEF Released
  <2> HIDE DEF c, r
  <2>7. tally' \in T /\ tally'.drawn + tally'.dropped + r = tally'.live
    BY <1>3, <1>4, <2>5, <2>6
  <2>8. HeldIffTimed'
    BY <1>1, <2>2, <2>3 DEF HeldIffTimed
  <2>9. EveryPacketOnce'
    BY <1>2, <2>7 DEF EveryPacketOnce, r
  <2> QED BY <2>3, <2>4, <2>7, <2>8, <2>9 DEF HeldInv
<1> QED BY <1>5, <1>6, <1>7, <1>8, <1>9

LEMMA FeedStep == FeedInv /\ [FeedNext]_feedVars => FeedInv'
<1> SUFFICES ASSUME FeedInv, [FeedNext]_feedVars PROVE FeedInv'
  OBVIOUS
<1>1. FeedOK(feedState) /\ vcrBuffer \in Seq(Hashes) /\ HeldInv /\ MuteInv
  BY DEF FeedInv
<1>2. prop \in [Hashes -> Nat] /\ sw \in SwitchRec /\ muteTimers \in Nat /\ (sw.suppress => muteTimers > 0)
  BY <1>1 DEF HeldInv, MuteInv, MuteIsTimed
<1>3. UNCHANGED <<els, feed, feedDedup>> => FeedOK(feedState)'
  BY <1>1 DEF feedState
<1>4. UNCHANGED <<sw, muteTimers>> => MuteInv'
  BY <1>1 DEF MuteInv, MuteIsTimed
<1>5. ASSUME NEW h \in Hashes, bufferPacket_live(h) PROVE FeedInv'
  <2>1. vcrBuffer' \in Seq(Hashes) /\ MuteInv'
    BY <1>1, <1>4, <1>5 DEF bufferPacket_live
  <2>2. CASE sw.paused /\ NotDrawn /\ UNCHANGED <<prop, propTimers, tally>>
    <3>1. HeldInv'
      BY <1>1, <2>2, HeldKept DEF Same
    <3> QED BY <1>3, <2>1, <2>2, <3>1 DEF FeedInv, NotDrawn
  <2>3. CASE NotDrawn /\ UNCHANGED <<prop, propTimers>> /\ tally' = [tally EXCEPT !.live = @ + 1, !.dropped = @ + 1]
    <3>1. OneMoreDone("dropped")
      BY <2>3 DEF OneMoreDone
    <3>2. HeldInv'
      BY <1>1, <3>1, HeldKept
    <3> QED BY <1>3, <2>1, <2>3, <3>2 DEF FeedInv, NotDrawn
  <2>4. CASE NotDrawn /\ prop' = [prop EXCEPT ![h] = @ + 1] /\ propTimers' = propTimers \union {h} /\ tally' = [tally EXCEPT !.live = @ + 1]
    <3>1. OneMoreHeld(h)
      BY <2>4 DEF OneMoreHeld
    <3>2. HeldInv'
      BY <1>1, <3>1, HeldKept
    <3> QED BY <1>3, <2>1, <2>4, <3>2 DEF FeedInv, NotDrawn
  <2>5. CASE renderPacketTree(h, 1) /\ tally' = [tally EXCEPT !.live = @ + 1, !.drawn = @ + 1] /\ UNCHANGED <<prop, propTimers>>
    <3>1. OneMoreDone("drawn")
      BY <2>5 DEF OneMoreDone
    <3>2. HeldInv'
      BY <1>1, <3>1, HeldKept
    <3>3. FeedOK(feedState)'
      BY <1>1, <2>5, RenderKeeps
    <3> QED BY <2>1, <3>2, <3>3 DEF FeedInv
  <2> QED BY <1>5, <2>2, <2>3, <2>4, <2>5 DEF bufferPacket_live
<1>6. ASSUME NEW h \in Hashes, PropagationTimer(h) PROVE FeedInv'
  <2>1. vcrBuffer' \in Seq(Hashes) /\ MuteInv'
    BY <1>1, <1>4, <1>6 DEF PropagationTimer
  <2>2. Released(h)
    BY <1>6 DEF PropagationTimer, Released
  <2>3. HeldInv'
    BY <1>1, <2>2, HeldKept
  <2>4. CASE prop[h] > 0
    <3>1. prop[h] \in Nat /\ renderPacketTree(h, prop[h])
      BY <1>2, <1>6, <2>4 DEF PropagationTimer
    <3>2. FeedOK(feedState)'
      BY <1>1, <3>1, RenderKeeps
    <3> QED BY <2>1, <2>3, <3>2 DEF FeedInv
  <2>5. CASE ~(prop[h] > 0)
    BY <1>3, <1>6, <2>1, <2>3, <2>5 DEF FeedInv, PropagationTimer, NotDrawn
  <2> QED BY <2>4, <2>5
<1>7. ASSUME NEW h \in Hashes, Expire(h) PROVE FeedInv'
  <2> DEFINE i == feedDedup[h]
             e == [els EXCEPT ![i].fresh = FALSE]
             t == [els |-> e, feed |-> feed, dedup |-> feedDedup]
  <2>1. i # 0 /\ els' = e /\ UNCHANGED <<vcrBuffer, prop, propTimers, tally, sw, muteTimers, feed, feedDedup>>
    BY <1>7 DEF Expire
  <2>2. els \in Seq(ItemRec) /\ feed \in Seq(Nat) /\ feedDedup \in [Hashes -> Nat] /\ Items(feedState) /\ Found(feedState)
    BY <1>1 DEF FeedOK, FeedRec, feedState
  <2>3. i \in DOMAIN els
    BY <2>1, <2>2 DEF Found, feedState
  <2>4. /\ e \in Seq(ItemRec) /\ DOMAIN e = DOMAIN els
        /\ \A j \in DOMAIN els : e[j].h = els[j].h /\ (e[j].fresh => els[j].fresh)
    <3>1. els[i] \in ItemRec /\ DOMAIN els = 1..Len(els) /\ Len(els) \in Nat
      BY <2>2, <2>3
    <3>2. [els[i] EXCEPT !.fresh = FALSE] \in ItemRec /\ [els[i] EXCEPT !.fresh = FALSE].h = els[i].h /\ ~[els[i] EXCEPT !.fresh = FALSE].fresh
      BY <3>1 DEF ItemRec
    <3>3. e = [els EXCEPT ![i] = [els[i] EXCEPT !.fresh = FALSE]]
      BY <2>3
    <3> QED BY <2>2, <2>3, <3>1, <3>2, <3>3
  <2> HIDE DEF e, i
  <2>5. t \in FeedRec
    BY <2>2, <2>4 DEF FeedRec
  <2>6. Items(t)
    BY <2>2, <2>4 DEF Items, feedState
  <2>7. Found(t)
    BY <2>2, <2>4 DEF Found, feedState
  <2>8. feedState' = t
    BY <2>1 DEF feedState
  <2>9. FeedOK(feedState)'
    BY <2>5, <2>6, <2>7, <2>8 DEF FeedOK
  <2>10. HeldInv'
    BY <1>1, <2>1, HeldKept DEF Same
  <2> QED BY <1>1, <1>4, <2>1, <2>9, <2>10 DEF FeedInv
<1>8. CASE Visibility
  <2>1. FeedOK(feedState)' /\ vcrBuffer' \in Seq(Hashes)
    BY <1>1, <1>3, <1>8 DEF Visibility
  <2>2. MuteInv'
    <3>1. sw' \in SwitchRec /\ sw'.suppress = sw.suppress /\ muteTimers' = muteTimers
      BY <1>2, <1>8 DEF Visibility, SwitchRec
    <3> QED BY <1>2, <3>1 DEF MuteInv, MuteIsTimed
  <2>3. AllDropped \/ Same
    BY <1>8 DEF Visibility, AllDropped, Same
  <2>4. HeldInv'
    BY <1>1, <2>3, HeldKept
  <2> QED BY <2>1, <2>2, <2>4 DEF FeedInv
<1>9. CASE Flip
  <2>1. FeedOK(feedState)' /\ vcrBuffer' \in Seq(Hashes)
    BY <1>1, <1>3, <1>9 DEF Flip
  <2>2. PICK k \in {"realistic", "paused"} : sw' = [sw EXCEPT ![k] = ~@]
    BY <1>9 DEF Flip
  <2>3. sw' \in SwitchRec /\ sw'.suppress = sw.suppress /\ muteTimers' = muteTimers
    <3>1. CASE k = "realistic"
      BY <1>2, <1>9, <2>2, <3>1 DEF Flip, SwitchRec
    <3>2. CASE k = "paused"
      BY <1>2, <1>9, <2>2, <3>2 DEF Flip, SwitchRec
    <3> QED BY <3>1, <3>2
  <2>4. MuteInv'
    BY <1>2, <2>3 DEF MuteInv, MuteIsTimed
  <2>5. HeldInv'
    BY <1>1, <1>9, HeldKept DEF Flip, Same
  <2> QED BY <2>1, <2>4, <2>5 DEF FeedInv
<1>10. CASE applyFavoritesFilter
  <2>1. FeedBecomes(Rebuilt(vcrBuffer, sw'.multiOnly)) /\ UNCHANGED <<vcrBuffer, prop, propTimers, tally, muteTimers>>
    BY <1>10 DEF applyFavoritesFilter
  <2>2. FeedOK(feedState)'
    BY <1>1, <2>1, RebuiltKeeps, BecomesKeeps
  <2>3. UNCHANGED sw \/ \E k \in {"favOnly", "multiOnly"} : sw' = [sw EXCEPT ![k] = ~@]
    BY <1>10 DEF applyFavoritesFilter
  <2>4. sw' \in SwitchRec /\ sw'.suppress = sw.suppress
    <3>1. CASE UNCHANGED sw
      BY <1>2, <3>1
    <3>2. CASE sw' = [sw EXCEPT !["favOnly"] = ~@]
      BY <1>2, <3>2 DEF SwitchRec
    <3>3. CASE sw' = [sw EXCEPT !["multiOnly"] = ~@]
      BY <1>2, <3>3 DEF SwitchRec
    <3> QED BY <2>3, <3>1, <3>2, <3>3
  <2>5. MuteInv'
    BY <1>2, <2>1, <2>4 DEF MuteInv, MuteIsTimed
  <2>6. HeldInv'
    BY <1>1, <2>1, HeldKept DEF Same
  <2> QED BY <1>1, <2>1, <2>2, <2>5, <2>6 DEF FeedInv
<1>11. CASE Handoff
  <2>1. sw' \in SwitchRec /\ muteTimers' \in Nat /\ muteTimers' > 0
    <3>1. sw' = [sw EXCEPT !.suppress = TRUE] /\ muteTimers' = muteTimers + 1
      BY <1>11 DEF Handoff
    <3>2. sw' \in SwitchRec
      BY <1>2, <3>1, Zenon DEF SwitchRec
    <3> QED BY <1>2, <3>1, <3>2
  <2>2. HeldInv'
    BY <1>1, <1>11, HeldKept DEF Handoff, Same
  <2> QED BY <1>1, <1>3, <1>11, <2>1, <2>2 DEF FeedInv, Handoff, MuteInv, MuteIsTimed
<1>12. CASE MuteEnds
  <2>1. sw' \in SwitchRec /\ muteTimers' \in Nat /\ ~sw'.suppress
    <3>1. sw' = [sw EXCEPT !.suppress = FALSE] /\ muteTimers' = muteTimers - 1 /\ muteTimers > 0
      BY <1>12 DEF MuteEnds
    <3>2. sw' \in SwitchRec
      BY <1>2, <3>1, Zenon DEF SwitchRec
    <3>3. ~sw'.suppress
      BY <1>2, <3>1 DEF SwitchRec
    <3> QED BY <1>2, <3>1, <3>2, <3>3
  <2>2. HeldInv'
    BY <1>1, <1>12, HeldKept DEF MuteEnds, Same
  <2> QED BY <1>1, <1>3, <1>12, <2>1, <2>2 DEF FeedInv, MuteEnds, MuteInv, MuteIsTimed
<1>13. CASE FeedDestroy
  <2>1. sw' \in SwitchRec /\ sw'.suppress = sw.suppress /\ UNCHANGED muteTimers
    BY <1>2, <1>13 DEF FeedDestroy, SwitchRec
  <2>2. MuteInv'
    BY <1>2, <2>1 DEF MuteInv, MuteIsTimed
  <2>3. FeedOK(feedState)'
    BY <1>13, EmptyFeedOK, BecomesKeeps DEF FeedDestroy
  <2>4. HeldInv'
    BY <1>1, <1>13, HeldKept DEF FeedDestroy, Same
  <2>5. vcrBuffer' \in Seq(Hashes)
    BY <1>13 DEF FeedDestroy
  <2> QED BY <2>2, <2>3, <2>4, <2>5 DEF FeedInv
<1>14. CASE UNCHANGED feedVars
  <2>1. HeldInv'
    BY <1>1, <1>14, HeldKept DEF feedVars, Same
  <2> QED BY <1>1, <1>3, <1>4, <1>14, <2>1 DEF feedVars, FeedInv
<1> QED BY <1>5, <1>6, <1>7, <1>8, <1>9, <1>10, <1>11, <1>12, <1>13, <1>14 DEF FeedNext

\* Every packet received live is drawn, dropped or held back with its timer,
\* one hash has one fresh item, none stands twice, and a muted page has the
\* timer that ends it, for any hashes, limits and numbers of packets
\* (bufferPacket, addFeedItem, rebuildFeedList and destroy of live.js).
THEOREM FeedExactThm == FeedInit /\ [][FeedNext]_feedVars => []FeedExact
  BY FeedStarts, FeedStep, FeedTells, PTL

------------------------------------------------------------------------------
(* Canvas engine: paths, frames and fading lines. *)

AnimPathRec == [st : {"idle", "canvas", "matrix", "done", "lost"}, hop : Nat, of : Nat, age : Nat,
                fired : Nat, visit : Nat]
FadeRec == [line : Nat, left : Int]
EngRec == [ctx : BOOLEAN, paused : BOOLEAN, matrix : BOOLEAN, isAnimating : BOOLEAN, raf : Nat,
           activeAnims : Nat, pulses : Nat, isFading : BOOLEAN, fadeRaf : Nat, lines : Nat,
           fades : SUBSET FadeRec, recent : SUBSET Nat]

\* A path whose callback is to fire for its next hop has had one for each hop before.
AtHop(a) == a.fired = a.hop /\ a.hop < a.of
AnimPathOK(a) ==
    /\ a.st = "idle" => a.hop = 0 /\ a.fired = 0 /\ a.of = 0
    /\ a.st \in {"canvas", "matrix"} => a.fired = a.hop + 1 /\ a.hop + 1 < a.of
    /\ a.fired <= a.of
    /\ a.st = "done" => a.fired = a.of

\* A loop that runs has a frame, and the canvas it draws on.
FrameOK(e) ==
    /\ e.isAnimating => e.raf > 0 /\ e.ctx
    /\ ~e.ctx => e.activeAnims = 0
\* One fade for each of the lines kept, all of them made before.
FadeOK(e) ==
    /\ IsFiniteSet(e.recent) /\ Cardinality(e.recent) <= MaxRecent
    /\ \A l \in e.recent : l <= e.lines
    /\ {f.line : f \in e.fades} = e.recent
    /\ \A f, g \in e.fades : f.line = g.line => f = g

PathsOK(pt) == pt \in [Paths -> AnimPathRec] /\ \A p \in Paths : AnimPathOK(pt[p])
EngineOK(e) == e \in EngRec /\ FrameOK(e) /\ FadeOK(e)

LEMMA FewNewest ==
  ASSUME NEW ls \in SUBSET Nat, IsFiniteSet(ls)
  PROVE  Newest(ls) \in SUBSET ls /\ IsFiniteSet(Newest(ls)) /\ Cardinality(Newest(ls)) <= MaxRecent
<1> DEFINE keep == Newest(ls)
           n == Cardinality(keep)
<1>1. keep \in SUBSET ls /\ \A l \in keep : Cardinality({m \in ls : m > l}) < MaxRecent
  BY DEF Newest
<1> HIDE DEF keep
<1>2. IsFiniteSet(keep) /\ keep \in SUBSET Int
  <2>1. IsFiniteSet(keep)
    BY <1>1, FS_Subset
  <2>2. keep \in SUBSET Int
    BY <1>1
  <2> QED BY <2>1, <2>2
<1>3. /\ n \in Nat
      /\ \A i \in 1..n : Nth(keep, i) \in keep
      /\ \A i, j \in 1..n : i < j => Nth(keep, i) < Nth(keep, j)
      /\ \A p \in keep : \E i \in 1..n : p = Nth(keep, i)
  BY <1>2, NthIs
<1>4. MaxRecent \in Nat
  BY LiveAnimAssumption
<1> HIDE DEF n
<1>5. CASE n = 0
  BY <1>1, <1>2, <1>4, <1>5 DEF n, keep
<1>6. CASE n > 0
  <2> DEFINE l == Nth(keep, 1)
             up == {m \in ls : m > l}
  <2>1. 1 \in 1..n /\ l \in keep
    BY <1>3, <1>6
  <2>2. \A p \in keep : p = l \/ p > l
    <3> TAKE p \in keep
    <3>1. PICK i \in 1..n : p = Nth(keep, i)
      BY <1>3
    <3>2. i = 1 \/ 1 < i
      BY <1>3
    <3> QED BY <1>2, <1>3, <2>1, <3>1, <3>2
  <2>3. l \in ls /\ l \in Nat /\ Cardinality(up) < MaxRecent
    BY <1>1, <2>1
  <2> HIDE DEF l
  <2>4. keep \in SUBSET (up \union {l}) /\ l \notin up
    BY <1>1, <2>2, <2>3
  <2>5. IsFiniteSet(up)
    BY FS_Subset
  <2> HIDE DEF up
  <2>6. IsFiniteSet(up \union {l}) /\ Cardinality(up \union {l}) = Cardinality(up) + 1 /\ Cardinality(up) \in Nat
    BY <2>4, <2>5, FS_AddElement, FS_CardinalityType
  <2>7. n <= Cardinality(up \union {l})
    BY <2>4, <2>6, FS_Subset DEF n
  <2>8. n <= MaxRecent
    BY <1>3, <1>4, <2>3, <2>6, <2>7
  <2> QED BY <1>1, <1>2, <2>8 DEF n, keep
<1> QED BY <1>3, <1>5, <1>6

\* What lines that end leave: the newest lines, each with its fade.
LEMMA FadeMore ==
  ASSUME NEW e, e \in EngRec, FadeOK(e), NEW n \in Nat
  PROVE  LET f == createFadingLeafletLine(e, n)
         IN /\ f \in EngRec /\ FadeOK(f)
            /\ f.ctx = e.ctx /\ f.paused = e.paused /\ f.matrix = e.matrix /\ f.isAnimating = e.isAnimating
            /\ f.raf = e.raf /\ f.activeAnims = e.activeAnims /\ f.pulses = e.pulses
<1> DEFINE f == createFadingLeafletLine(e, n)
<1>1. CASE n = 0
  BY <1>1 DEF createFadingLeafletLine
<1>2. CASE n # 0
  <2> DEFINE new == (e.lines + 1)..(e.lines + n)
             keep == Newest(e.recent \union new)
             fds == {g \in e.fades : g.line \in keep}
                      \union {[line |-> l, left |-> FadeFrames] : l \in keep \intersect new}
             total == e.lines + n
             wait == IF e.isFading THEN e.fadeRaf ELSE e.fadeRaf + 1
  <2>1. /\ e.lines \in Nat /\ e.recent \in SUBSET Nat /\ e.fades \in SUBSET FadeRec /\ e.fadeRaf \in Nat
        /\ IsFiniteSet(e.recent) /\ FadeFrames \in Int
    BY LiveAnimAssumption DEF EngRec, FadeOK
  <2>2. total \in Nat /\ wait \in Nat /\ new \in SUBSET Nat /\ IsFiniteSet(new)
    <3>1. total \in Nat /\ wait \in Nat /\ new \in SUBSET Nat
      BY <2>1
    <3>2. e.lines + 1 \in Int /\ e.lines + n \in Int
      BY <2>1
    <3>3. IsFiniteSet(new)
      BY <3>2, FS_Interval
    <3> QED BY <3>1, <3>3
  <2>3. e.recent \union new \in SUBSET Nat /\ IsFiniteSet(e.recent \union new)
    BY <2>1, <2>2, FS_Union
  <2>4. keep \in SUBSET (e.recent \union new) /\ IsFiniteSet(keep) /\ Cardinality(keep) <= MaxRecent
    BY <2>3, FewNewest
  <2>5. f = [e EXCEPT !.lines = total, !.recent = keep, !.fades = fds, !.isFading = TRUE, !.fadeRaf = wait]
    BY <1>2 DEF createFadingLeafletLine
  <2>6. \A l \in new : l \in Nat /\ l > e.lines /\ l <= total
    BY <2>1
  <2> HIDE DEF new, keep, total, wait
  <2>7. fds \in SUBSET FadeRec
    <3> SUFFICES ASSUME NEW g \in fds PROVE g \in FadeRec
      OBVIOUS
    <3>1. CASE g \in e.fades
      BY <2>1, <3>1
    <3>2. CASE g \in {[line |-> l, left |-> FadeFrames] : l \in keep \intersect new}
      <4>1. PICK l \in keep \intersect new : g = [line |-> l, left |-> FadeFrames]
        BY <3>2
      <4> QED BY <2>1, <2>6, <4>1 DEF FadeRec
    <3> QED BY <3>1, <3>2
  <2>8. \A g \in fds : \/ g \in e.fades /\ g.line \in keep /\ g.line \in e.recent /\ g.line <= e.lines
                       \/ /\ g.line \in keep \intersect new
                          /\ g = [line |-> g.line, left |-> FadeFrames]
    <3> TAKE g \in fds
    <3>1. CASE g \in e.fades /\ g.line \in keep
      BY <3>1 DEF FadeOK
    <3>2. CASE g \in {[line |-> l, left |-> FadeFrames] : l \in keep \intersect new}
      <4>1. PICK l \in keep \intersect new : g = [line |-> l, left |-> FadeFrames]
        BY <3>2
      <4> QED BY <4>1
    <3> QED BY <3>1, <3>2
  <2>9. {g.line : g \in fds} = keep
    <3>1. \A l \in keep : \E g \in fds : g.line = l
      <4> TAKE l \in keep
      <4>1. CASE l \in new
        <5>1. [line |-> l, left |-> FadeFrames] \in fds
          BY <4>1
        <5>2. [line |-> l, left |-> FadeFrames].line = l
          OBVIOUS
        <5> QED BY <5>1, <5>2
      <4>2. CASE l \in e.recent
        <5>1. PICK g \in e.fades : g.line = l
          BY <4>2 DEF FadeOK
        <5> QED BY <5>1
      <4> QED BY <2>4, <4>1, <4>2
    <3>2. \A g \in fds : g.line \in keep
      BY <2>8
    <3> QED BY <3>1, <3>2
  <2>10. \A g, h \in fds : g.line = h.line => g = h
    <3> TAKE g, h \in fds
    <3> HAVE g.line = h.line
    <3>1. g \in e.fades /\ h \in e.fades => g = h
      BY DEF FadeOK
    <3> QED BY <2>1, <2>6, <2>8, <3>1
  <2> HIDE DEF fds, f
  <2>11. f \in EngRec
    BY <2>2, <2>3, <2>4, <2>5, <2>7, Zenon DEF EngRec
  <2>12. /\ f.ctx = e.ctx /\ f.paused = e.paused /\ f.matrix = e.matrix /\ f.isAnimating = e.isAnimating
         /\ f.raf = e.raf /\ f.activeAnims = e.activeAnims /\ f.pulses = e.pulses
         /\ f.lines = total /\ f.recent = keep /\ f.fades = fds
    BY <2>5 DEF EngRec
  <2>13. \A l \in keep : l <= total
    <3>1. \A l \in e.recent : l \in Nat /\ l <= e.lines
      BY <2>1 DEF FadeOK
    <3> QED BY <2>1, <2>4, <2>6, <3>1 DEF total
  <2>14. FadeOK(f)
    BY <2>4, <2>9, <2>10, <2>12, <2>13 DEF FadeOK
  <2> QED BY <2>11, <2>12, <2>14 DEF f
<1> QED BY <1>1, <1>2

\* A frame of the fading lines: those at their end go from both lists.
LEMMA FadeLess ==
  ASSUME NEW e, e \in EngRec, FadeOK(e), e.fadeRaf > 0
  PROVE  LET f == renderFades(e)
         IN /\ f \in EngRec /\ FadeOK(f)
            /\ f.ctx = e.ctx /\ f.paused = e.paused /\ f.matrix = e.matrix /\ f.isAnimating = e.isAnimating
            /\ f.raf = e.raf /\ f.activeAnims = e.activeAnims /\ f.pulses = e.pulses
<1> DEFINE f == renderFades(e)
           less == {[g EXCEPT !.left = @ - 1] : g \in e.fades}
           stay == {g \in less : g.left > 0}
           left == e.recent \ {g.line : g \in less \ stay}
           on == stay # {}
           wait == IF stay # {} THEN e.fadeRaf ELSE e.fadeRaf - 1
<1>1. /\ e.lines \in Nat /\ e.recent \in SUBSET Nat /\ e.fades \in SUBSET FadeRec /\ e.fadeRaf \in Nat
      /\ IsFiniteSet(e.recent) /\ Cardinality(e.recent) <= MaxRecent
  BY DEF EngRec, FadeOK
<1>2. wait \in Nat /\ on \in BOOLEAN
  BY <1>1
<1>3. f = [e EXCEPT !.fades = stay, !.recent = left, !.isFading = on, !.fadeRaf = wait]
  BY DEF renderFades
<1>4. \A g \in less : g \in FadeRec /\ \E h \in e.fades : g = [h EXCEPT !.left = @ - 1] /\ g.line = h.line
  <2> TAKE g \in less
  <2>1. PICK h \in e.fades : g = [h EXCEPT !.left = @ - 1]
    OBVIOUS
  <2>2. h \in FadeRec
    BY <1>1, <2>1
  <2>3. g \in FadeRec /\ g.line = h.line
    BY <2>1, <2>2 DEF FadeRec
  <2> QED BY <2>1, <2>3
<1>5. \A h \in e.fades : \E g \in less : g.line = h.line
  <2> TAKE h \in e.fades
  <2>1. [h EXCEPT !.left = @ - 1] \in less
    OBVIOUS
  <2>2. h \in FadeRec
    BY <1>1
  <2>3. [h EXCEPT !.left = @ - 1].line = h.line
    BY <2>2 DEF FadeRec
  <2> QED BY <2>1, <2>3
<1>6. \A g, h \in less : g.line = h.line => g = h
  <2> TAKE g, h \in less
  <2> HAVE g.line = h.line
  <2>1. PICK a \in e.fades : g = [a EXCEPT !.left = @ - 1] /\ g.line = a.line
    BY <1>4
  <2>2. PICK b \in e.fades : h = [b EXCEPT !.left = @ - 1] /\ h.line = b.line
    BY <1>4
  <2>3. a = b
    BY <2>1, <2>2 DEF FadeOK
  <2> QED BY <2>1, <2>2, <2>3
<1>7. stay \in SUBSET FadeRec /\ \A g \in stay : g \in less
  BY <1>4
<1>8. left \in SUBSET e.recent
  OBVIOUS
<1>9. {g.line : g \in stay} = left
  <2>1. \A g \in stay : g.line \in left
    <3> TAKE g \in stay
    <3>1. g \in less
      OBVIOUS
    <3>2. g.line \in e.recent
      BY <1>4, <3>1 DEF FadeOK
    <3>3. \A h \in less \ stay : h.line # g.line
      BY <1>6, <3>1
    <3> QED BY <3>2, <3>3
  <2>2. \A l \in left : \E g \in stay : g.line = l
    <3> TAKE l \in left
    <3>1. PICK h \in e.fades : h.line = l
      BY DEF FadeOK
    <3>2. PICK g \in less : g.line = l
      BY <1>5, <3>1
    <3>3. g \in stay
      BY <3>2
    <3> QED BY <3>2, <3>3
  <2> QED BY <2>1, <2>2
<1>10. \A g, h \in stay : g.line = h.line => g = h
  BY <1>6, <1>7
<1> HIDE DEF f, less, stay, left, on, wait
<1>11. IsFiniteSet(left) /\ Cardinality(left) <= MaxRecent
  <2>1. IsFiniteSet(left) /\ Cardinality(left) <= Cardinality(e.recent)
    BY <1>1, <1>8, FS_Subset
  <2>2. Cardinality(left) \in Nat /\ Cardinality(e.recent) \in Nat /\ MaxRecent \in Nat
    BY <1>1, <2>1, FS_CardinalityType, LiveAnimAssumption
  <2> QED BY <1>1, <2>1, <2>2
<1>12. left \in SUBSET Nat
  BY <1>1, <1>8
<1>13. f \in EngRec
  BY <1>2, <1>3, <1>7, <1>12, Zenon DEF EngRec
<1>14. /\ f.ctx = e.ctx /\ f.paused = e.paused /\ f.matrix = e.matrix /\ f.isAnimating = e.isAnimating
       /\ f.raf = e.raf /\ f.activeAnims = e.activeAnims /\ f.pulses = e.pulses
       /\ f.lines = e.lines /\ f.recent = left /\ f.fades = stay
  BY <1>3 DEF EngRec
<1>15. \A l \in left : l <= e.lines
  BY <1>8 DEF FadeOK
<1>16. FadeOK(f)
  BY <1>9, <1>10, <1>11, <1>14, <1>15 DEF FadeOK
<1> QED BY <1>13, <1>14, <1>16 DEF f

\* The engine after a wake-up, and what that leaves alone.
Awake(e, f) ==
    /\ f \in EngRec /\ FrameOK(f) /\ FadeOK(f) /\ f.isAnimating /\ f.raf > 0
    /\ f.ctx = e.ctx /\ f.paused = e.paused /\ f.matrix = e.matrix /\ f.activeAnims = e.activeAnims

LEMMA WakeIs ==
  ASSUME NEW e, EngineOK(e), e.ctx
  PROVE  Awake(e, Wake(e))
<1> DEFINE f == Wake(e)
<1>1. e \in EngRec /\ FrameOK(e) /\ FadeOK(e) /\ e.raf \in Nat /\ e.isAnimating \in BOOLEAN
  BY DEF EngineOK, EngRec
<1>2. CASE e.isAnimating
  BY <1>1, <1>2 DEF Wake, Awake, FrameOK
<1>3. CASE ~e.isAnimating
  <2> DEFINE r == e.raf + 1
  <2>1. r \in Nat /\ r > 0
    BY <1>1
  <2>2. f = [e EXCEPT !.isAnimating = TRUE, !.raf = r]
    BY <1>3 DEF Wake
  <2> HIDE DEF r, f
  <2>3. f \in EngRec
    BY <1>1, <2>1, <2>2, Zenon DEF EngRec
  <2>4. /\ f.isAnimating = TRUE /\ f.raf = r /\ f.ctx = e.ctx /\ f.paused = e.paused /\ f.matrix = e.matrix
        /\ f.activeAnims = e.activeAnims /\ f.lines = e.lines /\ f.recent = e.recent /\ f.fades = e.fades
    BY <1>1, <2>2 DEF EngRec
  <2>5. FrameOK(f) /\ FadeOK(f)
    BY <1>1, <2>1, <2>4 DEF FrameOK, FadeOK
  <2>6. Awake(e, f)
    BY <2>1, <2>3, <2>4, <2>5 DEF Awake
  <2> QED BY <2>6 DEF f
<1> QED BY <1>1, <1>2, <1>3

LEMMA PulseIs ==
  ASSUME NEW e, EngineOK(e), e.ctx
  PROVE  Awake(e, pulseNode(e))
<1> DEFINE f == [e EXCEPT !.pulses = PulseFrames]
<1>1. e \in EngRec /\ FrameOK(e) /\ FadeOK(e) /\ PulseFrames \in Nat
  BY LiveAnimAssumption DEF EngineOK
<1>2. f \in EngRec
  BY <1>1, Zenon DEF EngRec
<1>3. /\ f.isAnimating = e.isAnimating /\ f.raf = e.raf /\ f.ctx = e.ctx /\ f.paused = e.paused
      /\ f.matrix = e.matrix /\ f.activeAnims = e.activeAnims /\ f.lines = e.lines /\ f.recent = e.recent
      /\ f.fades = e.fades
  BY <1>1 DEF EngRec
<1>4. pulseNode(e) = Wake(f)
  BY DEF pulseNode
<1> HIDE DEF f
<1>5. EngineOK(f)
  BY <1>1, <1>2, <1>3 DEF EngineOK, FrameOK, FadeOK
<1>6. Awake(f, Wake(f))
  BY <1>3, <1>5, WakeIs
<1> QED BY <1>3, <1>4, <1>6 DEF Awake

\* The count of running animations after n have ended.
LEMMA HopsDoneIs ==
  ASSUME NEW e, e \in EngRec, FrameOK(e), FadeOK(e), NEW n \in Nat
  PROVE  LET f == hopsDone(e, n)
         IN /\ EngineOK(f) /\ f.activeAnims = IF e.activeAnims > n THEN e.activeAnims - n ELSE 0
            /\ f.ctx = e.ctx /\ f.paused = e.paused /\ f.matrix = e.matrix /\ f.raf = e.raf
<1> DEFINE f == hopsDone(e, n)
           c == IF e.activeAnims > n THEN e.activeAnims - n ELSE 0
<1>1. e.activeAnims \in Nat
  BY DEF EngRec
<1>2. c \in Nat /\ (e.activeAnims = 0 => c = 0)
  BY <1>1
<1>3. f = [e EXCEPT !.activeAnims = c]
  BY DEF hopsDone
<1> HIDE DEF c, f
<1>4. f \in EngRec
  BY <1>2, <1>3, Zenon DEF EngRec
<1>5. /\ f.isAnimating = e.isAnimating /\ f.raf = e.raf /\ f.ctx = e.ctx /\ f.paused = e.paused
      /\ f.matrix = e.matrix /\ f.activeAnims = c /\ f.lines = e.lines /\ f.recent = e.recent
      /\ f.fades = e.fades
  BY <1>3 DEF EngRec
<1>6. EngineOK(f)
  BY <1>2, <1>4, <1>5 DEF EngineOK, FrameOK, FadeOK
<1> QED BY <1>5, <1>6 DEF f, c

\* A path is called back at its next hop.
LEMMA AtNextHopIs ==
  ASSUME NEW a, a \in AnimPathRec, AtHop(a), NEW e, e \in EngRec
  PROVE  LET b == atNextHop(a, e)
         IN /\ b \in AnimPathRec /\ AnimPathOK(b) /\ b.visit = a.visit
            /\ e.ctx => b.st \in {"canvas", "matrix", "done"}
            /\ ~e.ctx \/ e.matrix => b.st # "canvas"
            /\ e.ctx /\ a.hop + 1 < a.of => b.st # "done"
<1> DEFINE b == atNextHop(a, e)
<1>1. /\ a.hop \in Nat /\ a.of \in Nat /\ a.fired \in Nat /\ a.fired = a.hop /\ a.hop < a.of
      /\ e.ctx \in BOOLEAN /\ e.matrix \in BOOLEAN
  BY DEF AnimPathRec, AtHop, EngRec
<1> DEFINE more == a.fired + 1
           end == a.of
<1>2. more \in Nat /\ end \in Nat
  BY <1>1
<1>3. CASE ~e.ctx
  <2>1. b = [a EXCEPT !.st = "lost"]
    BY <1>1, <1>3 DEF atNextHop
  <2>2. b \in AnimPathRec /\ b.st = "lost" /\ b.hop = a.hop /\ b.of = a.of /\ b.fired = a.fired /\ b.visit = a.visit
    BY <2>1 DEF AnimPathRec
  <2> HIDE DEF b
  <2>3. AnimPathOK(b)
    BY <1>1, <2>2 DEF AnimPathOK
  <2> QED BY <1>3, <2>2, <2>3 DEF b
<1>4. CASE e.ctx /\ a.hop = a.of - 1
  <2>1. b = [a EXCEPT !.st = "done", !.hop = end, !.fired = more]
    BY <1>1, <1>4 DEF atNextHop
  <2> HIDE DEF b, more, end
  <2>2. b \in AnimPathRec /\ b.st = "done" /\ b.hop = end /\ b.of = a.of /\ b.fired = more /\ b.visit = a.visit
    BY <1>2, <2>1 DEF AnimPathRec
  <2>3. AnimPathOK(b)
    BY <1>1, <1>4, <2>2 DEF AnimPathOK, more
  <2> QED BY <1>1, <1>4, <2>2, <2>3 DEF b
<1>5. CASE e.ctx /\ a.hop # a.of - 1
  <2> DEFINE how == IF e.matrix THEN "matrix" ELSE "canvas"
  <2>1. b = [a EXCEPT !.st = how, !.fired = more]
    <3>1. ~(a.hop >= a.of)
      BY <1>1
    <3>2. CASE e.matrix
      BY <1>5, <3>1, <3>2 DEF atNextHop
    <3>3. CASE ~e.matrix
      BY <1>5, <3>1, <3>3 DEF atNextHop
    <3> QED BY <3>2, <3>3
  <2>2. how \in {"canvas", "matrix"} /\ (e.matrix => how = "matrix")
    OBVIOUS
  <2> HIDE DEF b, more, end, how
  <2>3. b \in AnimPathRec /\ b.st = how /\ b.hop = a.hop /\ b.of = a.of /\ b.fired = more /\ b.visit = a.visit
    BY <1>2, <2>1, <2>2 DEF AnimPathRec
  <2>4. AnimPathOK(b)
    BY <1>1, <1>5, <2>2, <2>3 DEF AnimPathOK, more
  <2> QED BY <1>1, <1>5, <2>2, <2>3, <2>4 DEF b
<1> QED BY <1>1, <1>3, <1>4, <1>5

\* Calls of nextHop: their paths move on, and the engine is awake if there was one.
LEMMA NextHopIs ==
  ASSUME NEW s, NEW ps \in SUBSET Paths,
         s.path \in [Paths -> AnimPathRec], EngineOK(s.eng),
         \A p \in ps : AtHop(s.path[p]),
         \A p \in Paths \ ps : AnimPathOK(s.path[p])
  PROVE  LET t == nextHop(s, ps)
             n == Cardinality({p \in ps : t.path[p].st = "done"})
         IN /\ PathsOK(t.path) /\ EngineOK(t.eng)
            /\ \A p \in Paths \ ps : t.path[p] = s.path[p]
            /\ \A p \in ps : t.path[p] = atNextHop(s.path[p], s.eng)
            /\ t.eng.ctx = s.eng.ctx /\ t.eng.paused = s.eng.paused
            /\ n \in Nat
            /\ t.eng.activeAnims = IF s.eng.activeAnims > n THEN s.eng.activeAnims - n ELSE 0
            /\ s.eng.ctx /\ ps # {} => t.eng.raf > 0
            /\ ps = {} => t.eng.raf = s.eng.raf
            /\ ~s.eng.ctx => t.eng.raf = s.eng.raf
<1> DEFINE t == nextHop(s, ps)
           next == [p \in Paths |-> IF p \in ps THEN atNextHop(s.path[p], s.eng) ELSE s.path[p]]
           gone == {p \in ps : next[p].st = "done"}
           n == Cardinality(gone)
           reach == \E p \in ps : s.path[p].hop < s.path[p].of
           e == IF reach THEN pulseNode(s.eng) ELSE s.eng
<1>1. t = [path |-> next, eng |-> hopsDone(e, n)]
  BY DEF nextHop
<1>2. \A p \in ps : LET b == atNextHop(s.path[p], s.eng) IN b \in AnimPathRec /\ AnimPathOK(b)
  <2> TAKE p \in ps
  <2>1. s.path[p] \in AnimPathRec /\ AtHop(s.path[p]) /\ s.eng \in EngRec
    BY DEF EngineOK
  <2> QED BY <2>1, AtNextHopIs
<1>3. PathsOK(next)
  BY <1>2 DEF PathsOK
<1>4. gone \in SUBSET Paths /\ IsFiniteSet(gone) /\ n \in Nat
  <2>1. gone \in SUBSET Paths
    OBVIOUS
  <2>2. IsFiniteSet(gone)
    BY <2>1, FS_Subset, LiveAnimAssumption
  <2> QED BY <2>1, <2>2, FS_CardinalityType
<1>5. reach <=> ps # {}
  BY DEF AtHop
<1>6. /\ e \in EngRec /\ FrameOK(e) /\ FadeOK(e) /\ e.ctx = s.eng.ctx /\ e.paused = s.eng.paused
      /\ e.activeAnims = s.eng.activeAnims
      /\ s.eng.ctx /\ ps # {} => e.raf > 0
      /\ ps = {} \/ ~s.eng.ctx => e.raf = s.eng.raf
  <2>1. CASE s.eng.ctx /\ ps # {}
    <3>1. Awake(s.eng, pulseNode(s.eng)) /\ e = pulseNode(s.eng)
      BY <1>5, <2>1, PulseIs
    <3> HIDE DEF e
    <3> QED BY <2>1, <3>1 DEF Awake
  <2>2. CASE ~s.eng.ctx \/ ps = {}
    <3>1. e = s.eng
      BY <1>5, <2>2 DEF pulseNode
    <3> HIDE DEF e
    <3> QED BY <2>2, <3>1 DEF EngineOK
  <2>3. s.eng.ctx \in BOOLEAN
    BY DEF EngineOK, EngRec
  <2> QED BY <2>1, <2>2, <2>3
<1> HIDE DEF e, reach, n
<1>7. /\ EngineOK(hopsDone(e, n))
      /\ hopsDone(e, n).activeAnims = IF e.activeAnims > n THEN e.activeAnims - n ELSE 0
      /\ hopsDone(e, n).ctx = e.ctx /\ hopsDone(e, n).paused = e.paused /\ hopsDone(e, n).raf = e.raf
  BY <1>4, <1>6, HopsDoneIs
<1>8. t.path = next /\ t.eng = hopsDone(e, n)
  BY <1>1
<1>9. n = Cardinality({p \in ps : t.path[p].st = "done"})
  BY <1>8 DEF n
<1>10. /\ \A p \in Paths \ ps : next[p] = s.path[p]
       /\ \A p \in ps : next[p] = atNextHop(s.path[p], s.eng)
  OBVIOUS
<1> HIDE DEF t, next
<1>11. /\ PathsOK(t.path) /\ EngineOK(t.eng)
       /\ \A p \in Paths \ ps : t.path[p] = s.path[p]
       /\ \A p \in ps : t.path[p] = atNextHop(s.path[p], s.eng)
       /\ t.eng.ctx = s.eng.ctx /\ t.eng.paused = s.eng.paused
       /\ t.eng.activeAnims = IF s.eng.activeAnims > n THEN s.eng.activeAnims - n ELSE 0
       /\ s.eng.ctx /\ ps # {} => t.eng.raf > 0
       /\ ps = {} => t.eng.raf = s.eng.raf
       /\ ~s.eng.ctx => t.eng.raf = s.eng.raf
  BY <1>3, <1>6, <1>7, <1>8, <1>10
<1> QED BY <1>4, <1>9, <1>11 DEF t

\* The paths of a visit whose animations are under way.
Under(pt, m) == {p \in Paths : pt[p].st \in {"canvas", "matrix"} /\ pt[p].visit = m}
Counted(s, m) == s.eng.ctx => s.eng.activeAnims <= Cardinality(Under(s.path, m))
Frames(s) == s.eng.ctx /\ ~s.eng.paused /\ activeAnimations(s.path) # {} => s.eng.raf > 0
Whole(s, m) ==
    /\ PathsOK(s.path) /\ EngineOK(s.eng) /\ Counted(s, m) /\ Frames(s)
    /\ ~s.eng.ctx => activeAnimations(s.path) = {}
AnimInv == Whole(state, mounts) /\ mounts \in Nat

\* Lines call back: no path is lost while the page is there, and the count
\* drops by no more than the paths that are done.
LEMMA OnCompleteIs ==
  ASSUME NEW s, NEW ps \in SUBSET Paths, NEW m,
         PathsOK(s.path), EngineOK(s.eng), Counted(s, m), s = [path |-> s.path, eng |-> s.eng],
         \A p \in ps : s.path[p].st \in {"canvas", "matrix"}
  PROVE  LET t == onComplete(s, ps)
         IN /\ PathsOK(t.path) /\ EngineOK(t.eng) /\ Counted(t, m)
            /\ \A p \in Paths \ ps : t.path[p] = s.path[p]
            /\ t.eng.ctx = s.eng.ctx /\ t.eng.paused = s.eng.paused
            /\ ~s.eng.ctx => \A p \in ps : t.path[p].st # "canvas"
            /\ s.eng.ctx /\ ps # {} => t.eng.raf > 0
            /\ ps = {} => t.eng.raf = s.eng.raf
            /\ ~s.eng.ctx => t.eng.raf = s.eng.raf
<1> DEFINE t == onComplete(s, ps)
           o == hopsOn(s.path, ps, 1)
           r == [path |-> o, eng |-> s.eng]
           gone == {p \in ps : t.path[p].st = "done"}
           n == Cardinality(gone)
<1>1. t = nextHop(r, ps) /\ r.path = o /\ r.eng = s.eng
  BY DEF onComplete
<1>2. /\ \A p \in Paths : s.path[p] \in AnimPathRec /\ AnimPathOK(s.path[p])
      /\ s.eng \in EngRec
  BY DEF PathsOK, EngineOK
<1>3. \A p \in ps : /\ o[p] \in AnimPathRec /\ AtHop(o[p]) /\ o[p].visit = s.path[p].visit
  <2> TAKE p \in ps
  <2> DEFINE a == s.path[p]
             h == a.hop + 1
  <2>1. a \in AnimPathRec /\ a.fired = a.hop + 1 /\ a.hop + 1 < a.of /\ h \in Nat /\ 0 \in Nat
    BY <1>2 DEF AnimPathOK, AnimPathRec
  <2>2. o[p] = [a EXCEPT !.hop = h, !.age = 0]
    BY DEF hopsOn
  <2> HIDE DEF a, h, o
  <2>3. o[p] \in AnimPathRec
    BY <2>1, <2>2, Zenon DEF AnimPathRec
  <2>4. o[p].hop = h /\ o[p].of = a.of /\ o[p].fired = a.fired /\ o[p].visit = a.visit
    BY <2>1, <2>2 DEF AnimPathRec
  <2>5. AtHop(o[p])
    BY <2>1, <2>4 DEF AtHop, h
  <2> QED BY <2>3, <2>4, <2>5 DEF a
<1>4. \A p \in Paths \ ps : o[p] = s.path[p]
  BY DEF hopsOn
<1>5. o \in [Paths -> AnimPathRec]
  <2>1. \A p \in Paths : o[p] \in AnimPathRec
    BY <1>2, <1>3, <1>4
  <2> QED BY <2>1 DEF hopsOn
<1> HIDE DEF o, r
<1>6. /\ PathsOK(t.path) /\ EngineOK(t.eng)
      /\ \A p \in Paths \ ps : t.path[p] = r.path[p]
      /\ \A p \in ps : t.path[p] = atNextHop(r.path[p], r.eng)
      /\ t.eng.ctx = r.eng.ctx /\ t.eng.paused = r.eng.paused
      /\ n \in Nat
      /\ t.eng.activeAnims = IF r.eng.activeAnims > n THEN r.eng.activeAnims - n ELSE 0
      /\ r.eng.ctx /\ ps # {} => t.eng.raf > 0
      /\ ps = {} => t.eng.raf = r.eng.raf
      /\ ~r.eng.ctx => t.eng.raf = r.eng.raf
  <2>1. /\ r.path \in [Paths -> AnimPathRec] /\ EngineOK(r.eng)
        /\ \A p \in ps : AtHop(r.path[p])
        /\ \A p \in Paths \ ps : AnimPathOK(r.path[p])
    BY <1>1, <1>2, <1>3, <1>4, <1>5
  <2>2. t = nextHop(r, ps)
    BY <1>1
  <2> HIDE DEF t
  <2>3. n = Cardinality({p \in ps : t.path[p].st = "done"})
    BY DEF n, gone
  <2> HIDE DEF n, gone
  <2>4. LET u == nextHop(r, ps)
            c == Cardinality({p \in ps : u.path[p].st = "done"})
        IN /\ PathsOK(u.path) /\ EngineOK(u.eng)
           /\ \A p \in Paths \ ps : u.path[p] = r.path[p]
           /\ \A p \in ps : u.path[p] = atNextHop(r.path[p], r.eng)
           /\ u.eng.ctx = r.eng.ctx /\ u.eng.paused = r.eng.paused
           /\ c \in Nat
           /\ u.eng.activeAnims = IF r.eng.activeAnims > c THEN r.eng.activeAnims - c ELSE 0
           /\ r.eng.ctx /\ ps # {} => u.eng.raf > 0
           /\ ps = {} => u.eng.raf = r.eng.raf
           /\ ~r.eng.ctx => u.eng.raf = r.eng.raf
    BY <2>1, NextHopIs
  <2> QED BY ONLY <2>2, <2>3, <2>4
<1> HIDE DEF t, n
<1>7. \A p \in ps : /\ t.path[p].visit = s.path[p].visit
                    /\ s.eng.ctx => t.path[p].st \in {"canvas", "matrix", "done"}
                    /\ ~s.eng.ctx => t.path[p].st # "canvas"
  <2> TAKE p \in ps
  <2>1. o[p] \in AnimPathRec /\ AtHop(o[p]) /\ t.path[p] = atNextHop(o[p], s.eng) /\ s.eng \in EngRec
    BY <1>1, <1>2, <1>3, <1>6
  <2>2. LET b == atNextHop(o[p], s.eng)
        IN /\ b.visit = o[p].visit /\ (s.eng.ctx => b.st \in {"canvas", "matrix", "done"})
           /\ ~s.eng.ctx => b.st # "canvas"
    BY <2>1, AtNextHopIs
  <2> QED BY <1>3, <2>1, <2>2
<1>8. Counted(t, m)
  <2> SUFFICES ASSUME s.eng.ctx PROVE t.eng.activeAnims <= Cardinality(Under(t.path, m))
    BY <1>1, <1>6 DEF Counted
  <2> DEFINE old == Under(s.path, m)
             new == Under(t.path, m)
             hit == gone \intersect old
             a == Cardinality(old)
             b == Cardinality(new)
             c == Cardinality(hit)
             k == s.eng.activeAnims
  <2>1. old \in SUBSET Paths /\ new \in SUBSET Paths /\ gone \in SUBSET Paths /\ IsFiniteSet(Paths)
    BY LiveAnimAssumption DEF Under
  <2>2. old \ gone \in SUBSET new
    <3> SUFFICES ASSUME NEW p \in old, p \notin gone PROVE p \in new
      OBVIOUS
    <3>1. p \in Paths /\ s.path[p].st \in {"canvas", "matrix"} /\ s.path[p].visit = m
      BY DEF Under
    <3>2. CASE p \in ps
      <4>1. t.path[p].st \in {"canvas", "matrix"} /\ t.path[p].visit = m
        BY <1>7, <3>1, <3>2
      <4> QED BY <3>1, <4>1 DEF Under
    <3>3. CASE p \notin ps
      <4>1. t.path[p] = s.path[p]
        BY <1>1, <1>4, <1>6, <3>1, <3>3
      <4> QED BY <3>1, <4>1 DEF Under
    <3> QED BY <3>2, <3>3
  <2> HIDE DEF old, new, gone
  <2>3. IsFiniteSet(old) /\ IsFiniteSet(new) /\ IsFiniteSet(gone) /\ IsFiniteSet(old \ gone) /\ IsFiniteSet(hit)
    BY <2>1, FS_Subset
  <2>4. Cardinality(old \ gone) = a - Cardinality(old \intersect gone)
    BY <2>3, FS_Difference
  <2>5. Cardinality(old \ gone) <= b /\ c <= n
    BY <2>2, <2>3, FS_Subset DEF n
  <2>6. a \in Nat /\ b \in Nat /\ c \in Nat /\ k \in Nat /\ Cardinality(old \ gone) \in Nat
    BY <1>2, <2>3, FS_CardinalityType DEF EngRec
  <2>7. old \intersect gone = hit
    OBVIOUS
  <2>8. k <= a
    BY DEF Counted, old
  <2>9. t.eng.activeAnims = IF k > n THEN k - n ELSE 0
    BY <1>1, <1>6
  <2>10. b = Cardinality(Under(t.path, m))
    BY DEF new
  <2> HIDE DEF hit, a, b, c, k
  <2>11. Cardinality(old \ gone) = a - c
    BY <2>4, <2>7 DEF c
  <2>12. t.eng.activeAnims <= b
    BY <1>6, <2>5, <2>6, <2>8, <2>9, <2>11
  <2> QED BY <2>10, <2>12
<1>9. \A p \in Paths \ ps : t.path[p] = s.path[p]
  BY <1>1, <1>4, <1>6
<1>10. ~s.eng.ctx => \A p \in ps : t.path[p].st # "canvas"
  BY <1>7
<1> QED BY <1>1, <1>6, <1>8, <1>9, <1>10 DEF t

LEMMA StepLinesIs ==
  ASSUME NEW s, NEW m, PathsOK(s.path), EngineOK(s.eng), Counted(s, m), s.eng.ctx, s.eng.raf > 0
  PROVE  LET t == StepLines(s)
         IN /\ PathsOK(t.path) /\ EngineOK(t.eng) /\ Counted(t, m)
            /\ t.eng.ctx = s.eng.ctx /\ t.eng.paused = s.eng.paused /\ t.eng.raf > 0
<1> DEFINE t == StepLines(s)
           run == activeAnimations(s.path)
           ends == {p \in run : s.path[p].age + 1 >= LineFrames}
           aged == [p \in Paths |-> IF p \in run \ ends THEN [s.path[p] EXCEPT !.age = @ + 1] ELSE s.path[p]]
           n == Cardinality(ends)
           e == createFadingLeafletLine(s.eng, n)
           r == [path |-> aged, eng |-> e]
<1>1. t = onComplete(r, ends)
  BY DEF StepLines
<1>2. s.path \in [Paths -> AnimPathRec] /\ \A p \in Paths : AnimPathOK(s.path[p])
  BY DEF PathsOK
<1>3. ends \in SUBSET Paths /\ \A p \in ends : s.path[p].st = "canvas"
  BY DEF activeAnimations
<1>4. n \in Nat
  <2>1. IsFiniteSet(ends)
    BY <1>3, FS_Subset, LiveAnimAssumption
  <2> QED BY <2>1, FS_CardinalityType
<1> HIDE DEF n
<1>5. /\ e \in EngRec /\ FadeOK(e)
      /\ e.ctx = s.eng.ctx /\ e.paused = s.eng.paused /\ e.matrix = s.eng.matrix
      /\ e.isAnimating = s.eng.isAnimating /\ e.raf = s.eng.raf /\ e.activeAnims = s.eng.activeAnims
  <2>1. s.eng \in EngRec /\ FadeOK(s.eng)
    BY DEF EngineOK
  <2> QED BY <1>4, <2>1, FadeMore
<1> HIDE DEF e
<1>6. EngineOK(e)
  BY <1>5 DEF EngineOK, FrameOK
<1> HIDE DEF ends
<1>7. \A p \in Paths : aged[p] \in AnimPathRec /\ aged[p].st = s.path[p].st /\ aged[p].visit = s.path[p].visit
                       /\ AnimPathOK(aged[p])
  <2> TAKE p \in Paths
  <2> DEFINE a == s.path[p]
             k == a.age + 1
  <2>1. a \in AnimPathRec /\ AnimPathOK(a) /\ k \in Nat
    BY <1>2 DEF AnimPathRec
  <2>2. CASE p \in run \ ends
    <3>1. aged[p] = [a EXCEPT !.age = k]
      BY <2>2
    <3> HIDE DEF aged, a, k
    <3>2. /\ aged[p] \in AnimPathRec /\ aged[p].st = a.st /\ aged[p].visit = a.visit /\ aged[p].hop = a.hop
          /\ aged[p].of = a.of /\ aged[p].fired = a.fired
      BY <2>1, <3>1 DEF AnimPathRec
    <3>3. AnimPathOK(aged[p])
      BY <2>1, <3>2 DEF AnimPathOK
    <3> QED BY <3>2, <3>3 DEF a
  <2>3. CASE p \notin run \ ends
    BY <2>1, <2>3
  <2> QED BY <2>2, <2>3
<1>8. PathsOK(aged)
  BY <1>7 DEF PathsOK
<1> HIDE DEF aged
<1>9. Counted(r, m)
  <2>1. Under(aged, m) = Under(s.path, m)
    BY <1>7 DEF Under
  <2> QED BY <1>5, <2>1 DEF Counted
<1>10. /\ r.path = aged /\ r.eng = e /\ r = [path |-> r.path, eng |-> r.eng]
       /\ \A p \in ends : r.path[p].st \in {"canvas", "matrix"}
  BY <1>3, <1>7
<1> HIDE DEF r, t, run
<1>11. /\ PathsOK(r.path) /\ EngineOK(r.eng) /\ Counted(r, m) /\ r = [path |-> r.path, eng |-> r.eng]
       /\ \A p \in ends : r.path[p].st \in {"canvas", "matrix"}
       /\ ends \in SUBSET Paths
  BY <1>3, <1>6, <1>8, <1>9, <1>10
<1>12. LET u == onComplete(r, ends)
       IN /\ PathsOK(u.path) /\ EngineOK(u.eng) /\ Counted(u, m)
          /\ u.eng.ctx = r.eng.ctx /\ u.eng.paused = r.eng.paused
          /\ r.eng.ctx /\ ends # {} => u.eng.raf > 0
          /\ ends = {} => u.eng.raf = r.eng.raf
  BY <1>11, OnCompleteIs
<1>13. /\ PathsOK(t.path) /\ EngineOK(t.eng) /\ Counted(t, m)
       /\ t.eng.ctx = s.eng.ctx /\ t.eng.paused = s.eng.paused /\ t.eng.raf > 0
  BY <1>1, <1>5, <1>10, <1>12
<1> QED BY <1>13 DEF t

LEMMA AnimStarts == AnimInit => AnimInv
<1> SUFFICES ASSUME AnimInit PROVE AnimInv
  OBVIOUS
<1>1. state.path = path /\ state.eng = eng
  BY DEF state
<1>2. \A p \in Paths : path[p] = [st |-> "idle", hop |-> 0, of |-> 0, age |-> 0, fired |-> 0, visit |-> 0]
  BY DEF AnimInit
<1>3. \A p \in Paths : path[p] \in AnimPathRec /\ AnimPathOK(path[p]) /\ path[p].st = "idle"
  BY <1>2 DEF AnimPathRec, AnimPathOK
<1>4. PathsOK(path)
  BY <1>3 DEF PathsOK, AnimInit
<1>5. activeAnimations(path) = {}
  BY <1>3 DEF activeAnimations
<1>6. /\ eng \in EngRec /\ ~eng.ctx /\ ~eng.isAnimating /\ eng.activeAnims = 0 /\ eng.fades = {}
      /\ eng.recent = {} /\ eng.lines = 0
  BY DEF AnimInit, EngRec
<1>7. FadeOK(eng)
  <2>1. IsFiniteSet({}) /\ Cardinality({}) = 0 /\ MaxRecent \in Nat
    BY FS_EmptySet, LiveAnimAssumption
  <2> QED BY <1>6, <2>1 DEF FadeOK
<1>8. EngineOK(eng)
  BY <1>6, <1>7 DEF EngineOK, FrameOK
<1>9. mounts \in Nat
  BY DEF AnimInit
<1> QED BY <1>1, <1>4, <1>5, <1>6, <1>8, <1>9 DEF AnimInv, Whole, Counted, Frames

\* A new path is under way with one more counted, or lost at the limit.
LEMMA AnimatePathKeeps == ASSUME AnimInv, NEW p \in Paths, animatePath(p) PROVE AnimInv'
<1>1. /\ path \in [Paths -> AnimPathRec] /\ (\A q \in Paths : AnimPathOK(path[q])) /\ EngineOK(eng)
      /\ eng \in EngRec /\ FrameOK(eng) /\ FadeOK(eng)
      /\ Counted(state, mounts) /\ Frames(state) /\ mounts \in Nat /\ state.path = path /\ state.eng = eng
  BY DEF AnimInv, Whole, state, PathsOK, EngineOK
<1>2. path[p].st = "idle" /\ eng.ctx /\ mounts' = mounts /\ path[p] \in AnimPathRec
      /\ path[p].hop = 0 /\ path[p].fired = 0 /\ path[p].of = 0
  BY <1>1 DEF animatePath, AnimPathOK
<1>3. state'.path = path' /\ state'.eng = eng'
  BY DEF state
<1>4. PICK n \in 2..MaxHops :
         IF eng.activeAnims >= MaxAnims
           THEN Becomes([state EXCEPT !.path[p].st = "lost"])
           ELSE Becomes(nextHop([path |-> [path EXCEPT ![p].of = n, ![p].visit = mounts],
                                 eng |-> [eng EXCEPT !.activeAnims = @ + 1]], {p}))
  BY DEF animatePath
<1>5. CASE eng.activeAnims >= MaxAnims
  <2> DEFINE b == [path[p] EXCEPT !.st = "lost"]
  <2>1. path' = [path EXCEPT ![p] = b] /\ eng' = eng
    BY <1>1, <1>4, <1>5 DEF Becomes, state
  <2>2. b \in AnimPathRec /\ b.st = "lost" /\ b.fired = 0 /\ b.of = 0
    BY <1>2 DEF AnimPathRec
  <2>3. AnimPathOK(b)
    BY <2>2 DEF AnimPathOK
  <2> HIDE DEF b
  <2>4. \A q \in Paths : path'[q] = IF q = p THEN b ELSE path[q]
    BY <1>1, <2>1
  <2>5. PathsOK(path')
    BY <1>1, <2>1, <2>2, <2>3, <2>4 DEF PathsOK
  <2>6. Under(path', mounts) = Under(path, mounts) /\ activeAnimations(path') = activeAnimations(path)
    BY <1>2, <2>2, <2>4 DEF Under, activeAnimations
  <2> QED BY <1>1, <1>2, <1>3, <2>1, <2>5, <2>6 DEF AnimInv, Whole, Counted, Frames
<1>6. CASE ~(eng.activeAnims >= MaxAnims)
  <2> DEFINE b == [path[p] EXCEPT !.of = n, !.visit = mounts]
             pt == [path EXCEPT ![p] = b]
             k == eng.activeAnims + 1
             e == [eng EXCEPT !.activeAnims = k]
             r == [path |-> pt, eng |-> e]
             t == nextHop(r, {p})
  <2>1. path' = t.path /\ eng' = t.eng
    <3>1. [path EXCEPT ![p].of = n, ![p].visit = mounts] = pt
      BY <1>1
    <3> QED BY <1>4, <1>6, <3>1 DEF Becomes
  <2>2. n \in Nat /\ n >= 2 /\ k \in Nat /\ k = eng.activeAnims + 1 /\ eng.activeAnims \in Nat
    BY <1>1, LiveAnimAssumption DEF EngRec
  <2>3. b \in AnimPathRec
    BY <1>1, <1>2, <2>2, Zenon DEF AnimPathRec
  <2>4. b.hop = 0 /\ b.fired = 0 /\ b.of = n /\ b.visit = mounts /\ b.st = "idle"
    BY <1>1, <1>2 DEF AnimPathRec
  <2> HIDE DEF b
  <2>5. /\ pt \in [Paths -> AnimPathRec] /\ pt[p] = b
        /\ \A q \in Paths : q # p => pt[q] = path[q] /\ AnimPathOK(pt[q])
    BY <1>1, <2>3
  <2>6. AtHop(b)
    BY <2>2, <2>4 DEF AtHop
  <2> HIDE DEF k, pt
  <2>7. e \in EngRec
    BY <1>1, <2>2, Zenon DEF EngRec
  <2>8. /\ e.isAnimating = eng.isAnimating /\ e.raf = eng.raf /\ e.ctx = eng.ctx /\ e.activeAnims = k
        /\ e.lines = eng.lines /\ e.recent = eng.recent /\ e.fades = eng.fades /\ e.paused = eng.paused
    BY <1>1 DEF EngRec
  <2> HIDE DEF e
  <2>9. EngineOK(e)
    BY <1>1, <1>2, <2>7, <2>8 DEF EngineOK, FrameOK, FadeOK
  <2>10. r.path = pt /\ r.eng = e
    OBVIOUS
  <2> HIDE DEF r
  <2>11. /\ {p} \in SUBSET Paths /\ r.path \in [Paths -> AnimPathRec] /\ EngineOK(r.eng)
         /\ (\A q \in {p} : AtHop(r.path[q])) /\ (\A q \in Paths \ {p} : AnimPathOK(r.path[q]))
    BY <2>5, <2>6, <2>9, <2>10
  <2> DEFINE gone == {q \in {p} : t.path[q].st = "done"}
             c == Cardinality(gone)
  <2>12. /\ PathsOK(t.path) /\ EngineOK(t.eng)
         /\ \A q \in Paths \ {p} : t.path[q] = r.path[q]
         /\ \A q \in {p} : t.path[q] = atNextHop(r.path[q], r.eng)
         /\ t.eng.ctx = r.eng.ctx /\ t.eng.paused = r.eng.paused
         /\ t.eng.activeAnims = IF r.eng.activeAnims > c THEN r.eng.activeAnims - c ELSE 0
         /\ r.eng.ctx /\ {p} # {} => t.eng.raf > 0
    BY <2>11, NextHopIs
  <2> HIDE DEF t
  <2>13. t.path[p] = atNextHop(b, e)
    BY <2>5, <2>10, <2>12
  <2>14. t.path[p].visit = mounts /\ t.path[p].st \in {"canvas", "matrix"}
    <3>1. LET x == atNextHop(b, e)
          IN /\ x.visit = b.visit /\ (e.ctx => x.st \in {"canvas", "matrix", "done"})
             /\ (e.ctx /\ b.hop + 1 < b.of => x.st # "done")
      BY <2>3, <2>6, <2>7, AtNextHopIs
    <3>2. b.hop + 1 < b.of /\ e.ctx
      BY <1>2, <2>2, <2>4, <2>8
    <3> QED BY <2>4, <2>13, <3>1, <3>2
  <2>15. c = 0
    <3>1. gone = {}
      BY <2>14
    <3> QED BY <3>1, FS_EmptySet
  <2> HIDE DEF gone, c
  <2>16. t.eng.activeAnims = k /\ t.eng.raf > 0 /\ t.eng.ctx
    <3>1. r.eng.activeAnims = k /\ r.eng.ctx /\ {p} # {}
      BY <1>2, <2>8, <2>10
    <3>2. k > 0 /\ k \in Nat
      BY <2>2
    <3>3. t.eng.activeAnims = k
      BY <2>12, <2>15, <3>1, <3>2
    <3> QED BY <2>12, <3>1, <3>3
  <2>17. \A q \in Paths : q # p => t.path[q] = path[q]
    BY <2>5, <2>10, <2>12
  <2>18. Counted(t, mounts)
    <3> DEFINE old == Under(path, mounts)
    <3>1. Under(t.path, mounts) = old \union {p} /\ p \notin old
      BY <1>2, <2>14, <2>17 DEF Under
    <3>2. old \in SUBSET Paths /\ IsFiniteSet(Paths)
      BY LiveAnimAssumption DEF Under
    <3>3. IsFiniteSet(old)
      BY <3>2, FS_Subset
    <3>4. eng.activeAnims <= Cardinality(old)
      BY <1>1, <1>2 DEF Counted
    <3> HIDE DEF old
    <3>5. Cardinality(old \union {p}) = Cardinality(old) + 1 /\ Cardinality(old) \in Nat
      BY <3>1, <3>3, FS_AddElement, FS_CardinalityType
    <3> QED BY <2>2, <2>16, <3>1, <3>4, <3>5 DEF Counted
  <2>19. Frames(t)
    BY <2>16 DEF Frames
  <2> QED BY <1>1, <1>2, <1>3, <2>1, <2>12, <2>16, <2>18, <2>19 DEF AnimInv, Whole, Counted, Frames
<1> QED BY <1>5, <1>6

\* Same engine but for what the frames and switches set.
LEMMA EngineLike ==
  ASSUME NEW e, EngineOK(e), NEW f \in EngRec,
         f.ctx = e.ctx, f.activeAnims = e.activeAnims, f.lines = e.lines, f.recent = e.recent, f.fades = e.fades,
         f.isAnimating => e.isAnimating /\ f.raf = e.raf
  PROVE  EngineOK(f)
  BY DEF EngineOK, FrameOK, FadeOK

LEMMA AnimFrameKeeps == ASSUME AnimInv, AnimFrame PROVE AnimInv'
<1>1. /\ PathsOK(path) /\ EngineOK(eng) /\ eng \in EngRec
      /\ Counted(state, mounts) /\ Frames(state) /\ mounts \in Nat /\ state.path = path /\ state.eng = eng
      /\ (~eng.ctx => activeAnimations(path) = {}) /\ state = [path |-> path, eng |-> eng]
  BY DEF AnimInv, Whole, state, EngineOK
<1>2. state'.path = path' /\ state'.eng = eng' /\ mounts' = mounts /\ eng.raf > 0
  BY DEF state, AnimFrame
<1>3. path' = renderAnimations(state).path /\ eng' = renderAnimations(state).eng
  BY DEF AnimFrame, Becomes
<1> DEFINE r == eng.raf - 1
           u == IF eng.pulses > 0 THEN eng.pulses - 1 ELSE 0
<1>4. r \in Nat /\ u \in Nat
  BY <1>1, <1>2 DEF EngRec
<1>5. CASE ~eng.ctx
  <2>1. path' = path /\ eng' = [eng EXCEPT !.raf = r]
    BY <1>1, <1>3, <1>5 DEF renderAnimations
  <2> HIDE DEF r
  <2>2. eng' \in EngRec
    BY <1>1, <1>4, <2>1, Zenon DEF EngRec
  <2>3. /\ eng'.ctx = eng.ctx /\ eng'.activeAnims = eng.activeAnims /\ eng'.lines = eng.lines
        /\ eng'.recent = eng.recent /\ eng'.fades = eng.fades /\ eng'.isAnimating = eng.isAnimating
    BY <1>1, <2>1 DEF EngRec
  <2>4. ~eng.isAnimating
    BY <1>1, <1>5 DEF EngineOK, FrameOK
  <2>5. EngineOK(eng')
    BY <1>1, <2>2, <2>3, <2>4, EngineLike
  <2> QED BY <1>1, <1>2, <1>5, <2>1, <2>3, <2>5 DEF AnimInv, Whole, Counted, Frames
<1>6. CASE eng.ctx /\ (eng.paused \/ (activeAnimations(path) = {} /\ eng.pulses = 0))
  <2>1. path' = path /\ eng' = [eng EXCEPT !.raf = r, !.isAnimating = FALSE]
    BY <1>1, <1>3, <1>6 DEF renderAnimations
  <2> HIDE DEF r
  <2>2. eng' \in EngRec
    BY <1>1, <1>4, <2>1, Zenon DEF EngRec
  <2>3. /\ eng'.ctx = eng.ctx /\ eng'.activeAnims = eng.activeAnims /\ eng'.lines = eng.lines
        /\ eng'.recent = eng.recent /\ eng'.fades = eng.fades /\ eng'.isAnimating = FALSE /\ eng'.paused = eng.paused
    BY <1>1, <2>1 DEF EngRec
  <2>4. EngineOK(eng')
    BY <1>1, <2>2, <2>3, EngineLike
  <2> QED BY <1>1, <1>2, <1>6, <2>1, <2>3, <2>4 DEF AnimInv, Whole, Counted, Frames
<1>7. CASE eng.ctx /\ ~(eng.paused \/ (activeAnimations(path) = {} /\ eng.pulses = 0))
  <2> DEFINE e == [eng EXCEPT !.pulses = u]
             s == [path |-> path, eng |-> e]
             t == StepLines(s)
  <2>1. path' = t.path /\ eng' = t.eng
    BY <1>1, <1>3, <1>7 DEF renderAnimations
  <2> HIDE DEF u
  <2>2. e \in EngRec
    BY <1>1, <1>4, Zenon DEF EngRec
  <2>3. /\ e.ctx = eng.ctx /\ e.activeAnims = eng.activeAnims /\ e.lines = eng.lines /\ e.raf = eng.raf
        /\ e.recent = eng.recent /\ e.fades = eng.fades /\ e.isAnimating = eng.isAnimating
    BY <1>1 DEF EngRec
  <2> HIDE DEF e
  <2>4. EngineOK(e)
    BY <1>1, <2>2, <2>3, EngineLike
  <2>5. s.path = path /\ s.eng = e
    OBVIOUS
  <2> HIDE DEF s
  <2>6. PathsOK(s.path) /\ EngineOK(s.eng) /\ Counted(s, mounts) /\ s.eng.ctx /\ s.eng.raf > 0
    BY <1>1, <1>2, <1>7, <2>3, <2>4, <2>5 DEF Counted
  <2> HIDE DEF t
  <2>7. PathsOK(t.path) /\ EngineOK(t.eng) /\ Counted(t, mounts) /\ t.eng.ctx = s.eng.ctx /\ t.eng.raf > 0
    BY <2>6, StepLinesIs DEF t
  <2> QED BY <1>1, <1>2, <2>1, <2>6, <2>7 DEF AnimInv, Whole, Counted, Frames
<1>8. eng.ctx \in BOOLEAN
  BY <1>1 DEF EngRec
<1> QED BY <1>5, <1>6, <1>7, <1>8

LEMMA FadeFrameKeeps == ASSUME AnimInv, FadeFrame PROVE AnimInv'
<1>1. /\ PathsOK(path) /\ EngineOK(eng) /\ eng \in EngRec /\ FadeOK(eng)
      /\ Counted(state, mounts) /\ Frames(state) /\ mounts \in Nat /\ state.path = path /\ state.eng = eng
      /\ (~eng.ctx => activeAnimations(path) = {})
  BY DEF AnimInv, Whole, state, EngineOK
<1>2. /\ state'.path = path' /\ state'.eng = eng' /\ mounts' = mounts /\ path' = path
      /\ eng.fadeRaf > 0 /\ eng' = renderFades(eng)
  BY DEF state, FadeFrame
<1>3. /\ eng' \in EngRec /\ FadeOK(eng') /\ eng'.ctx = eng.ctx /\ eng'.paused = eng.paused
      /\ eng'.isAnimating = eng.isAnimating /\ eng'.raf = eng.raf /\ eng'.activeAnims = eng.activeAnims
  BY <1>1, <1>2, FadeLess
<1>4. EngineOK(eng')
  BY <1>1, <1>3 DEF EngineOK, FrameOK
<1> QED BY <1>1, <1>2, <1>3, <1>4 DEF AnimInv, Whole, Counted, Frames

LEMMA MatrixTickKeeps == ASSUME AnimInv, NEW p \in Paths, MatrixTick(p) PROVE AnimInv'
<1>1. /\ PathsOK(path) /\ EngineOK(eng) /\ eng \in EngRec
      /\ Counted(state, mounts) /\ Frames(state) /\ mounts \in Nat /\ state.path = path /\ state.eng = eng
      /\ (~eng.ctx => activeAnimations(path) = {}) /\ state = [path |-> path, eng |-> eng]
  BY DEF AnimInv, Whole, state, EngineOK
<1>2. /\ state'.path = path' /\ state'.eng = eng' /\ mounts' = mounts /\ path[p].st = "matrix"
  BY DEF state, MatrixTick
<1> DEFINE t == onComplete(state, {p})
<1>3. path' = t.path /\ eng' = t.eng
  BY DEF MatrixTick, Becomes
<1>4. {p} \in SUBSET Paths /\ {p} # {} /\ \A q \in {p} : state.path[q].st \in {"canvas", "matrix"}
  BY <1>1, <1>2
<1>5. /\ PathsOK(state.path) /\ EngineOK(state.eng) /\ Counted(state, mounts)
      /\ state = [path |-> state.path, eng |-> state.eng]
  BY <1>1
<1>6. /\ PathsOK(t.path) /\ EngineOK(t.eng) /\ Counted(t, mounts)
      /\ (\A q \in Paths \ {p} : t.path[q] = state.path[q])
      /\ t.eng.ctx = state.eng.ctx /\ t.eng.paused = state.eng.paused
      /\ (~state.eng.ctx => \A q \in {p} : t.path[q].st # "canvas")
      /\ (state.eng.ctx /\ {p} # {} => t.eng.raf > 0)
  BY <1>4, <1>5, OnCompleteIs
<1> HIDE DEF t
<1>7. ~eng.ctx => activeAnimations(t.path) = {}
  BY <1>1, <1>6 DEF activeAnimations
<1> QED BY <1>1, <1>2, <1>3, <1>4, <1>6, <1>7 DEF AnimInv, Whole, Counted, Frames

LEMMA PauseAnimKeeps == ASSUME AnimInv, PauseAnim PROVE AnimInv'
<1>1. /\ PathsOK(path) /\ EngineOK(eng) /\ eng \in EngRec
      /\ Counted(state, mounts) /\ Frames(state) /\ mounts \in Nat /\ state.path = path /\ state.eng = eng
      /\ (~eng.ctx => activeAnimations(path) = {}) /\ state = [path |-> path, eng |-> eng]
  BY DEF AnimInv, Whole, state, EngineOK
<1>2. state'.path = path' /\ state'.eng = eng' /\ mounts' = mounts /\ eng.ctx
  BY DEF state, PauseAnim
<1> DEFINE n == ~eng.paused
           e == [eng EXCEPT !.paused = n]
           s == [path |-> path, eng |-> e]
<1>3. path' = wakeCanvasEngine(s).path /\ eng' = wakeCanvasEngine(s).eng
  BY <1>1 DEF PauseAnim, Becomes
<1>4. n \in BOOLEAN
  OBVIOUS
<1> HIDE DEF n
<1>5. e \in EngRec
  BY <1>1, <1>4, Zenon DEF EngRec
<1>6. /\ e.ctx = eng.ctx /\ e.activeAnims = eng.activeAnims /\ e.lines = eng.lines /\ e.raf = eng.raf
      /\ e.recent = eng.recent /\ e.fades = eng.fades /\ e.isAnimating = eng.isAnimating /\ e.paused = n
  BY <1>1 DEF EngRec
<1> HIDE DEF e
<1>7. EngineOK(e)
  BY <1>1, <1>5, <1>6, EngineLike
<1>8. s.path = path /\ s.eng = e
  OBVIOUS
<1>9. CASE activeAnimations(path) # {} /\ ~n
  <2>1. path' = path /\ eng' = Wake(e)
    BY <1>3, <1>6, <1>8, <1>9 DEF wakeCanvasEngine
  <2>2. Awake(e, eng')
    BY <1>2, <1>6, <1>7, <2>1, WakeIs
  <2>3. EngineOK(eng') /\ eng'.raf > 0 /\ eng'.ctx = eng.ctx /\ eng'.activeAnims = eng.activeAnims
    BY <1>6, <2>2 DEF Awake, EngineOK
  <2> QED BY <1>1, <1>2, <2>1, <2>3 DEF AnimInv, Whole, Counted, Frames
<1>10. CASE ~(activeAnimations(path) # {} /\ ~n)
  <2>1. path' = path /\ eng' = e
    BY <1>3, <1>6, <1>8, <1>10 DEF wakeCanvasEngine
  <2> QED BY <1>1, <1>2, <1>6, <1>7, <1>10, <2>1 DEF AnimInv, Whole, Counted, Frames
<1> QED BY <1>9, <1>10

LEMMA ToggleMatrixKeeps == ASSUME AnimInv, ToggleMatrix PROVE AnimInv'
<1>1. /\ PathsOK(path) /\ EngineOK(eng) /\ eng \in EngRec
      /\ Counted(state, mounts) /\ Frames(state) /\ mounts \in Nat /\ state.path = path /\ state.eng = eng
      /\ (~eng.ctx => activeAnimations(path) = {})
  BY DEF AnimInv, Whole, state, EngineOK
<1> DEFINE n == ~eng.matrix
<1>2. /\ state'.path = path' /\ state'.eng = eng' /\ mounts' = mounts /\ path' = path
      /\ eng' = [eng EXCEPT !.matrix = n] /\ n \in BOOLEAN
  BY DEF state, ToggleMatrix
<1> HIDE DEF n
<1>3. eng' \in EngRec
  BY <1>1, <1>2, Zenon DEF EngRec
<1>4. /\ eng'.ctx = eng.ctx /\ eng'.activeAnims = eng.activeAnims /\ eng'.lines = eng.lines /\ eng'.raf = eng.raf
      /\ eng'.recent = eng.recent /\ eng'.fades = eng.fades /\ eng'.isAnimating = eng.isAnimating
      /\ eng'.paused = eng.paused
  BY <1>1, <1>2 DEF EngRec
<1>5. EngineOK(eng')
  BY <1>1, <1>3, <1>4, EngineLike
<1> QED BY <1>1, <1>2, <1>4, <1>5 DEF AnimInv, Whole, Counted, Frames

LEMMA AnimMountKeeps == ASSUME AnimInv, AnimMount PROVE AnimInv'
<1>1. /\ PathsOK(path) /\ EngineOK(eng) /\ eng \in EngRec /\ FadeOK(eng) /\ FrameOK(eng)
      /\ mounts \in Nat /\ state.path = path /\ state.eng = eng
      /\ (~eng.ctx => activeAnimations(path) = {})
  BY DEF AnimInv, Whole, state, EngineOK
<1>2. /\ state'.path = path' /\ state'.eng = eng' /\ mounts' = mounts + 1 /\ path' = path /\ ~eng.ctx
      /\ eng' = [eng EXCEPT !.ctx = TRUE]
  BY DEF state, AnimMount
<1>3. eng' \in EngRec
  BY <1>1, <1>2, Zenon DEF EngRec
<1>4. /\ eng'.ctx /\ eng'.activeAnims = eng.activeAnims /\ eng'.lines = eng.lines /\ eng'.raf = eng.raf
      /\ eng'.recent = eng.recent /\ eng'.fades = eng.fades /\ eng'.isAnimating = eng.isAnimating
  BY <1>1, <1>2 DEF EngRec
<1>5. EngineOK(eng')
  BY <1>1, <1>2, <1>3, <1>4 DEF EngineOK, FrameOK, FadeOK
<1>6. eng'.activeAnims = 0
  BY <1>1, <1>2, <1>4 DEF FrameOK
<1>7. Cardinality(Under(path, mounts + 1)) \in Nat
  <2>1. Under(path, mounts + 1) \in SUBSET Paths
    BY DEF Under
  <2>2. IsFiniteSet(Under(path, mounts + 1))
    BY <2>1, FS_Subset, LiveAnimAssumption
  <2> QED BY <2>2, FS_CardinalityType
<1>8. Counted(state', mounts')
  BY <1>2, <1>6, <1>7 DEF Counted
<1>9. Frames(state')
  BY <1>1, <1>2 DEF Frames
<1> QED BY <1>1, <1>2, <1>4, <1>5, <1>8, <1>9 DEF AnimInv, Whole

\* destroy: every line on the canvas has called back, and the engine is empty.
LEMMA AnimDestroyKeeps == ASSUME AnimInv, AnimDestroy PROVE AnimInv'
<1>1. /\ PathsOK(path) /\ EngineOK(eng) /\ eng \in EngRec
      /\ mounts \in Nat /\ path \in [Paths -> AnimPathRec]
  BY DEF AnimInv, Whole, state, EngineOK, PathsOK
<1>2. /\ state'.path = path' /\ state'.eng = eng' /\ mounts' = mounts /\ eng.ctx
      /\ path' = [p \in Paths |-> IF p \in activeAnimations(path) THEN Drain(path[p], eng) ELSE path[p]]
  BY DEF state, AnimDestroy
<1> DEFINE e == IF activeAnimations(path) # {} THEN pulseNode(eng) ELSE eng
<1>3. eng' = [e EXCEPT !.ctx = FALSE, !.paused = FALSE, !.isAnimating = FALSE, !.isFading = FALSE,
                       !.pulses = 0, !.activeAnims = 0, !.fades = {}, !.recent = {}]
  BY DEF AnimDestroy
<1>4. e \in EngRec
  BY <1>1, <1>2, PulseIs DEF Awake
<1> HIDE DEF e
<1>5. /\ eng' \in EngRec /\ ~eng'.ctx /\ ~eng'.isAnimating /\ eng'.activeAnims = 0 /\ eng'.fades = {}
      /\ eng'.recent = {} /\ eng'.lines = e.lines
  BY <1>3, <1>4 DEF EngRec
<1>6. EngineOK(eng')
  <2>1. IsFiniteSet({}) /\ Cardinality({}) = 0 /\ MaxRecent \in Nat
    BY FS_EmptySet, LiveAnimAssumption
  <2> QED BY <1>5, <2>1 DEF EngineOK, FrameOK, FadeOK
<1>7. \A p \in Paths : path'[p] \in AnimPathRec /\ AnimPathOK(path'[p]) /\ path'[p].st # "canvas"
  <2> TAKE p \in Paths
  <2> DEFINE a == path[p]
  <2>1. a \in AnimPathRec /\ AnimPathOK(a)
    BY <1>1 DEF PathsOK
  <2>2. CASE a.st # "canvas"
    <3>1. path'[p] = a
      BY <1>2, <2>2 DEF activeAnimations
    <3> QED BY <2>1, <2>2, <3>1
  <2>3. CASE a.st = "canvas"
    <3>1. path'[p] = Drain(a, eng)
      BY <1>2, <2>3 DEF activeAnimations
    <3>2. a.fired = a.hop + 1 /\ a.hop + 1 < a.of /\ a.hop \in Nat /\ a.of \in Nat /\ a.fired \in Nat
      BY <2>1, <2>3 DEF AnimPathOK, AnimPathRec
    <3>3. CASE eng.matrix
      <4> DEFINE h == a.hop + 1
                 b == [a EXCEPT !.hop = h, !.age = 0]
      <4>1. h \in Nat /\ 0 \in Nat /\ path'[p] = atNextHop(b, eng)
        BY <3>1, <3>2, <3>3 DEF Drain
      <4>2. b \in AnimPathRec
        BY <2>1, <4>1, Zenon DEF AnimPathRec
      <4>3. b.hop = h /\ b.of = a.of /\ b.fired = a.fired
        BY <2>1 DEF AnimPathRec
      <4> HIDE DEF b
      <4>4. AtHop(b)
        BY <3>2, <4>3 DEF AtHop
      <4>5. LET x == atNextHop(b, eng)
            IN x \in AnimPathRec /\ AnimPathOK(x) /\ (~eng.ctx \/ eng.matrix => x.st # "canvas")
        BY <1>1, <4>2, <4>4, AtNextHopIs
      <4> QED BY <3>3, <4>1, <4>5
    <3>4. CASE ~eng.matrix
      <4> DEFINE k == a.of
                 m == a.fired + (a.of - 1 - a.hop)
      <4>1. path'[p] = [a EXCEPT !.st = "done", !.hop = k, !.age = 0, !.fired = m]
        BY <3>1, <3>4 DEF Drain
      <4>2. m = k /\ k \in Nat /\ 0 \in Nat
        BY <3>2
      <4> HIDE DEF m, k, a
      <4>3. /\ path'[p] \in AnimPathRec
        BY <2>1, <4>1, <4>2 DEF AnimPathRec
      <4>4. path'[p].st = "done" /\ path'[p].of = a.of /\ path'[p].fired = m
        BY <2>1, <4>1 DEF AnimPathRec
      <4>5. k = a.of
        BY DEF k
      <4> QED BY <3>2, <4>2, <4>3, <4>4, <4>5 DEF AnimPathOK
    <3> QED BY <3>3, <3>4
  <2> QED BY <2>2, <2>3
<1>8. PathsOK(path')
  BY <1>2, <1>7 DEF PathsOK
<1>9. activeAnimations(path') = {}
  BY <1>7 DEF activeAnimations
<1> QED BY <1>1, <1>2, <1>5, <1>6, <1>8, <1>9 DEF AnimInv, Whole, Counted, Frames

LEMMA AnimStep == AnimInv /\ [AnimNext]_animVars => AnimInv'
<1> SUFFICES ASSUME AnimInv, [AnimNext]_animVars PROVE AnimInv'
  OBVIOUS
<1>1. ASSUME NEW p \in Paths, animatePath(p) PROVE AnimInv'
  BY <1>1, AnimatePathKeeps
<1>2. ASSUME NEW p \in Paths, MatrixTick(p) PROVE AnimInv'
  BY <1>2, MatrixTickKeeps
<1>3. CASE AnimFrame
  BY <1>3, AnimFrameKeeps
<1>4. CASE FadeFrame
  BY <1>4, FadeFrameKeeps
<1>5. CASE PauseAnim
  BY <1>5, PauseAnimKeeps
<1>6. CASE ToggleMatrix
  BY <1>6, ToggleMatrixKeeps
<1>7. CASE AnimMount
  BY <1>7, AnimMountKeeps
<1>8. CASE AnimDestroy
  BY <1>8, AnimDestroyKeeps
<1>9. CASE UNCHANGED animVars
  <2>1. path' = path /\ eng' = eng /\ mounts' = mounts /\ state' = state
    BY <1>9 DEF animVars, state
  <2> QED BY <2>1 DEF AnimInv, Whole
<1> QED BY <1>1, <1>2, <1>3, <1>4, <1>5, <1>6, <1>7, <1>8, <1>9 DEF AnimNext

LEMMA AnimTells == AnimInv => AnimationsAccounted
<1> SUFFICES ASSUME AnimInv PROVE AnimationsAccounted
  OBVIOUS
<1>1. /\ PathsOK(path) /\ EngineOK(eng) /\ eng \in EngRec /\ FadeOK(eng)
      /\ Counted(state, mounts) /\ Frames(state) /\ state.path = path /\ state.eng = eng
  BY DEF AnimInv, Whole, state, EngineOK
<1>2. CountNeverLeaks
  BY <1>1 DEF CountNeverLeaks, Counted, Running, Under
<1>3. NoLostWakeup
  BY <1>1 DEF NoLostWakeup, Frames
<1>4. HopsFireOnce
  BY <1>1 DEF HopsFireOnce, PathsOK, AnimPathOK
<1>5. Cardinality(eng.fades) <= MaxRecent
  <2> DEFINE f == [g \in eng.fades |-> g.line]
  <2>1. f \in [eng.fades -> eng.recent]
    BY <1>1 DEF FadeOK
  <2>2. \A g, h \in eng.fades : f[g] = f[h] => g = h
    BY <1>1 DEF FadeOK
  <2>3. f \in Injection(eng.fades, eng.recent)
    BY <2>1, <2>2 DEF Injection, IsInjective
  <2>4. IsFiniteSet(eng.recent) /\ Cardinality(eng.recent) <= MaxRecent
    BY <1>1 DEF FadeOK
  <2>5. IsFiniteSet(eng.fades) /\ Cardinality(eng.fades) <= Cardinality(eng.recent)
    BY <2>3, <2>4, FS_Injection
  <2>6. Cardinality(eng.fades) \in Nat /\ Cardinality(eng.recent) \in Nat /\ MaxRecent \in Nat
    BY <2>4, <2>5, FS_CardinalityType, LiveAnimAssumption
  <2> QED BY <2>4, <2>5, <2>6
<1>6. FadesAreRecent
  BY <1>1, <1>5 DEF FadesAreRecent, FadeOK
<1> QED BY <1>2, <1>3, <1>4, <1>6 DEF AnimationsAccounted

\* The count of animations never claims more than run, no line waits for a
\* loop that sleeps, every hop's callback fires once, and a line stays on the
\* map while it fades and among the newest, for any paths, hops and limits
\* (animatePath, renderAnimations, createFadingLeafletLine and destroy).
THEOREM AnimationsAccountedThm == AnimInit /\ [][AnimNext]_animVars => []AnimationsAccounted
  BY AnimStarts, AnimStep, AnimTells, PTL
==============================================================================
