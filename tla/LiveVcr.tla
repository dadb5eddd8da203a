------------------------------- MODULE LiveVcr -------------------------------
(***************************************************************************)
(* The VCR of the live page (public/live.js): live, paused and replay      *)
(* modes over a bounded buffer of packets, replays fed by requests that    *)
(* may answer late, out of order, after the user has changed his mind, or  *)
(* after the page was left and entered again.                              *)
(*                                                                         *)
(* The VCR object is one record and each function of the source an         *)
(* operator from records to records.  The buffer is its length: what a     *)
(* packet holds is rendered, never tested.  A replay is a closure over the *)
(* entries the buffer had when it started; which of them share a hash is   *)
(* left open.  The speed only scales delays and is left out, but changing  *)
(* it restarts the replay.                                                 *)
(***************************************************************************)
EXTENDS Integers, FiniteSets

CONSTANTS BufferCap,    \* 2000: packets kept
          BufferTrim,   \* 500: packets dropped when the cap is passed
          MaxFetched,   \* bound on the entries of one answer
          MaxCommands,  \* bound on what the user does
          MaxArrivals,  \* bound on packets from the socket
          MaxVisits     \* bound on visits of the page

ASSUME LiveVcrAssumption ==
    /\ BufferCap \in Nat \ {0} /\ BufferTrim \in 1..BufferCap
    /\ MaxFetched \in Nat \ {0} /\ MaxCommands \in Nat
    /\ MaxArrivals \in Nat /\ MaxVisits \in Nat \ {0}

VARIABLES VCR,        \* the VCR object, its timers and its requests
          mounted,    \* the page is mounted
          visit,      \* visits so far
          commands,   \* what the user has done
          arrivals    \* packets from the socket

vcrVars == <<VCR, mounted, visit, commands, arrivals>>

(***************************************************************************)
(* ticks are the armed timers of replays, timer the run whose handle       *)
(* VCR.replayTimer holds (0 = null).  latest is a history variable: the id *)
(* of the request of the last command, 0 for live; applied says what the   *)
(* last answer that was put into the buffer was.                           *)
(***************************************************************************)
VcrType == [mode : {"LIVE", "PAUSED", "REPLAY"}, buffer : Nat, playhead : Int, missed : Nat,
            gen : Nat, frozen : BOOLEAN, scrub : BOOLEAN, dragging : BOOLEAN,
            ticks : SUBSET [run : Nat, left : Nat], timer : Nat, runs : Nat,
            reqs : SUBSET [id : Nat, kind : {"from", "rewind", "next"}, gen : Nat, visit : Nat],
            issued : Nat, latest : Nat, applied : {"none", "fresh", "stale", "foreign"}]

VcrInit ==
    /\ VCR = [mode |-> "LIVE", buffer |-> 0, playhead |-> -1, missed |-> 0, gen |-> 0,
              frozen |-> FALSE, scrub |-> FALSE, dragging |-> FALSE, ticks |-> {}, timer |-> 0,
              runs |-> 0, reqs |-> {}, issued |-> 0, latest |-> 0, applied |-> "none"]
    /\ mounted = FALSE /\ visit = 0 /\ commands = 0 /\ arrivals = 0

MinOf(a, b) == IF a <= b THEN a ELSE b
MaxOf(a, b) == IF a >= b THEN a ELSE b

------------------------------------------------------------------------------
(* The functions the handlers are made of. *)

\* Time stands still outside LIVE.
vcrSetMode(v, m) == [v EXCEPT !.mode = m, !.frozen = (m # "LIVE")]

stopReplayLeavesTimer(v) == [v EXCEPT !.timer = 0]

\* Clears the timer VCR.replayTimer holds.
stopReplay(v) == [v EXCEPT !.ticks = {t \in @ : t.run # v.timer}, !.timer = 0]

\* Without the nodes it reloads.
vcrResumeLive(v) ==
    vcrSetMode([stopReplay(v) EXCEPT !.gen = @ + 1, !.playhead = -1, !.missed = 0,
                                     !.scrub = FALSE, !.latest = 0], "LIVE")

\* A request leaves and remembers the generation it was issued under.
Send(v, kind) ==
    [v EXCEPT !.issued = @ + 1,
              !.reqs = @ \union {[id |-> v.issued + 1, kind |-> kind, gen |-> v.gen,
                                 visit |-> IF mounted THEN visit ELSE 0]}]

\* A request that is a command of the user: it starts a new generation.
Ask(v, kind) == LET w == Send([stopReplay(v) EXCEPT !.gen = @ + 1], kind)
                IN [w EXCEPT !.latest = w.issued]

\* The mode changes at once, the packets come later.
vcrReplayFromTs(v) == vcrSetMode(Ask(v, "from"), "REPLAY")

\* At the end of the entries the next page is asked for; an empty buffer has none.
fetchNextReplayPage(v) == IF v.buffer = 0 THEN vcrResumeLive(v) ELSE Send(v, "next")

tickUnbounded(v, r, n) ==
    IF v.mode # "REPLAY" THEN {v}
    ELSE IF n = 0 THEN {fetchNextReplayPage(v)}
    ELSE {[v EXCEPT !.playhead = @ + k, !.timer = r,
                    !.ticks = @ \union {[run |-> r, left |-> n - k]}] : k \in 1..n}

tickStuck(v, r, n) ==
    IF v.mode # "REPLAY" THEN {v}
    ELSE IF n = 0 THEN {fetchNextReplayPage(v)}
    ELSE {[v EXCEPT !.playhead = MinOf(v.buffer, @ + 1), !.timer = r,
                    !.ticks = @ \union {[run |-> r, left |-> n]}]}

\* What one call of tick can do in the closure of run r with n entries left:
\* a group of k entries is rendered and the timer armed again.
tick(v, r, n) ==
    IF v.mode # "REPLAY" THEN {v}
    ELSE IF n = 0 THEN {fetchNextReplayPage(v)}
    ELSE {[v EXCEPT !.playhead = MinOf(v.buffer, @ + k), !.timer = r,
                    !.ticks = @ \union {[run |-> r, left |-> n - k]}] : k \in 1..n}

startReplayUnstopped(v) == LET w == [v EXCEPT !.runs = @ + 1] IN tick(w, w.runs, w.buffer)

\* Groups the whole buffer, wherever the playhead is, and ticks at once.
startReplay(v) == LET w == [stopReplay(v) EXCEPT !.runs = @ + 1] IN tick(w, w.runs, w.buffer)

\* The page buffers a packet: cap, trim, and the playhead moves with the trim.
bufferPacket(v) ==
    LET full == v.buffer + 1 > BufferCap
    IN [v EXCEPT !.buffer = IF full THEN @ + 1 - BufferTrim ELSE @ + 1,
                 !.playhead = IF full /\ @ >= 0 THEN MaxOf(0, @ - BufferTrim) ELSE @,
                 !.missed = IF v.mode = "PAUSED" THEN @ + 1 ELSE @]

------------------------------------------------------------------------------
(* What the user does. *)

Command == commands < MaxCommands /\ commands' = commands + 1 /\ UNCHANGED <<arrivals, visit, mounted>>

vcrPauseNoFreeze(v) == [stopReplay(v) EXCEPT !.missed = 0, !.mode = "PAUSED"]

vcrPause(v) == vcrSetMode([stopReplay(v) EXCEPT !.missed = 0], "PAUSED")

\* Back to the scrubbed time if there is one, else to live.
vcrUnpause(v) == IF v.scrub THEN vcrReplayFromTs(v) ELSE vcrResumeLive(v)

\* During a replay the count of missed packets is not reset.
PauseButton ==
    /\ mounted /\ Command
    /\ VCR' = CASE VCR.mode = "PAUSED" -> vcrUnpause(VCR)
                [] VCR.mode = "REPLAY" -> vcrSetMode(stopReplay(VCR), "PAUSED")
                [] VCR.mode = "LIVE" -> vcrPause(VCR)

LiveButton == mounted /\ Command /\ VCR' = vcrResumeLive(VCR)

\* The replay stops now, the mode changes only when the packets come.
vcrRewind == mounted /\ Command /\ VCR' = Ask(VCR, "rewind")

\* A replay whose timer handle is set is restarted, from its first entry.
vcrSpeedCycle ==
    /\ mounted /\ Command /\ VCR.mode = "REPLAY" /\ VCR.timer # 0
    /\ VCR' \in startReplay(VCR)

\* mousedown or touchstart on the timeline.
DragStart ==
    /\ mounted /\ Command
    /\ VCR' = [stopReplay(VCR) EXCEPT !.dragging = TRUE, !.scrub = FALSE, !.frozen = TRUE]

\* Called from a listener on the document: the page may be gone.
scrubRelease ==
    /\ VCR.dragging /\ Command
    /\ VCR' = [vcrReplayFromTs(VCR) EXCEPT !.dragging = FALSE, !.scrub = TRUE]

------------------------------------------------------------------------------
(* Packets, timers and answers. *)

Packet ==
    /\ mounted /\ arrivals < MaxArrivals /\ arrivals' = arrivals + 1
    /\ VCR' = bufferPacket(VCR)
    /\ UNCHANGED <<mounted, visit, commands>>

\* The handle of a timer that has fired stays in VCR.replayTimer.
TimerFires ==
    /\ \E t \in VCR.ticks : VCR' \in tick([VCR EXCEPT !.ticks = @ \ {t}], t.run, t.left)
    /\ UNCHANGED <<mounted, visit, commands, arrivals>>

\* The generation test of every answer.
Current(v, q) == q.gen = v.gen

\* The answer passed the test: it is the latest command's, or that of a
\* command given up since, or (once and for all) that of an earlier visit.
Accept(v, q) ==
    [v EXCEPT !.applied = IF @ = "foreign" \/ ~mounted \/ q.visit # visit THEN "foreign"
                          ELSE IF q.id = v.latest THEN "fresh" ELSE "stale"]

AnswerFromUnchecked(v, q, n) ==
    IF n = 0 THEN {vcrSetMode(Accept(v, q), "PAUSED")}
    ELSE startReplay([Accept(v, q) EXCEPT !.buffer = n, !.playhead = 0, !.scrub = FALSE])

\* n entries replace the buffer; the mode is not looked at.
AnswerFrom(v, q, n) ==
    IF ~Current(v, q) THEN {v}
    ELSE IF n = 0 THEN {vcrSetMode(Accept(v, q), "PAUSED")}
    ELSE startReplay([Accept(v, q) EXCEPT !.buffer = n, !.playhead = 0, !.scrub = FALSE])

\* n entries go in front of the buffer and are replayed, paused or not.
AnswerRewind(v, q, n) ==
    IF ~Current(v, q) THEN {v}
    ELSE startReplay(vcrSetMode([Accept(v, q) EXCEPT !.buffer = @ + n, !.playhead = 0], "REPLAY"))

\* Whatever the next page holds, tick goes back to live.
AnswerNext(v, q, n) == {vcrResumeLive(IF Current(v, q) THEN [v EXCEPT !.buffer = @ + n] ELSE v)}

\* The catch clauses: a failed replay goes live whatever happened since, a
\* failed rewind is ignored, a failed next page counts as an empty one.
Failure(v, q) == IF q.kind = "rewind" THEN {v} ELSE {vcrResumeLive(v)}

Answers(v, q) ==
    Failure(v, q) \union
    UNION {CASE q.kind = "from" -> AnswerFrom(v, q, n)
             [] q.kind = "rewind" -> AnswerRewind(v, q, n)
             [] q.kind = "next" -> AnswerNext(v, q, n) : n \in 0..MaxFetched}

Answer ==
    /\ \E q \in VCR.reqs : VCR' \in Answers([VCR EXCEPT !.reqs = @ \ {q}], q)
    /\ UNCHANGED <<mounted, visit, commands, arrivals>>

------------------------------------------------------------------------------
(* Entering and leaving the page. *)

VcrMount ==
    /\ ~mounted /\ visit < MaxVisits
    /\ mounted' = TRUE /\ visit' = visit + 1
    /\ VCR' = [VCR EXCEPT !.dragging = FALSE]
    /\ UNCHANGED <<commands, arrivals>>

\* frozenNow, scrubTs and the drag survive; the generation starts again at 0.
VcrDestroy ==
    /\ mounted /\ mounted' = FALSE
    /\ VCR' = [stopReplay(VCR) EXCEPT !.buffer = 0, !.playhead = -1, !.mode = "LIVE",
                                      !.missed = 0, !.gen = 0, !.latest = 0]
    /\ UNCHANGED <<visit, commands, arrivals>>

VcrNext ==
    \/ PauseButton \/ LiveButton \/ vcrRewind \/ vcrSpeedCycle \/ DragStart \/ scrubRelease
    \/ Packet \/ TimerFires \/ Answer \/ VcrMount \/ VcrDestroy

\* Timers fire and requests settle; the user owes nothing.
VcrFairness == WF_vcrVars(TimerFires) /\ WF_vcrVars(Answer)
VcrSpec == VcrInit /\ [][VcrNext]_vcrVars /\ VcrFairness

------------------------------------------------------------------------------
(* The VCR, its counters, timers and requests have their types. *)
VcrTypeOK ==
    /\ VCR \in VcrType
    /\ mounted \in BOOLEAN /\ visit \in 0..MaxVisits
    /\ commands \in 0..MaxCommands /\ arrivals \in 0..MaxArrivals

(* The playhead stays inside the buffer through trims, replaced buffers,   *)
(* replays restarted by a change of speed and pages left (bufferPacket,    *)
(* tick): updateTimelinePlayhead indexes the buffer with it.               *)
PlayheadInRange == VCR.playhead \in -1..VCR.buffer

(* At most one replay is armed, and VCR.replayTimer holds its handle:      *)
(* whatever order answers, speed changes, scrubs and pauses come in, no    *)
(* second chain of ticks renders packets beside the first, and the timer   *)
(* can always be cleared (startReplay, stopReplay).                        *)
OneReplay == \A t \in VCR.ticks : VCR.timer = t.run /\ \A u \in VCR.ticks : u = t

(* Within one visit the buffer is only ever filled by the answer to the    *)
(* user's last scrub, rewind or return to live (replayGen).                *)
NewestCommandWins == VCR.applied # "stale"

(* The timeline stands still for as long as the page is paused or          *)
(* replaying (vcrSetMode): scrubbing computes times from frozenNow.        *)
FrozenWhileNotLive == VCR.mode # "LIVE" => VCR.frozen

(* A tick pending means the page is replaying: pausing, going live and     *)
(* leaving all disarm it (tick, stopReplay, destroy), as long as no answer *)
(* of an earlier visit got in.                                             *)
ArmedOnlyInReplay == VCR.ticks # {} => VCR.mode = "REPLAY" \/ VCR.applied = "foreign"

(* No answer of an earlier visit is put into this visit's buffer: what     *)
(* "generation counter — incremented on each replay/rewind to discard      *)
(* stale async results" promises (VCR.replayGen).                          *)
NoForeignAnswer == VCR.applied # "foreign"

(* A running replay comes to an end, live or paused, unless the user       *)
(* drags the timeline or asks for a rewind (tick, fetchNextReplayPage).    *)
ReplayEnds == (VCR.mode = "REPLAY" /\ VCR.ticks # {})
                 ~> \/ VCR.mode # "REPLAY" \/ VCR.dragging
                    \/ \E q \in VCR.reqs : q.kind = "rewind"

(* Packets that arrive in REPLAY "just go to buffer, will be reached when  *)
(* playhead catches up": the page does not stay in REPLAY for good         *)
(* (bufferPacket).                                                         *)
ReplayCatchesUp == (VCR.mode = "REPLAY" /\ mounted)
                      ~> (VCR.mode # "REPLAY" \/ ~mounted \/ VCR.dragging)

(* Pausing, replaying and going live leave one replay at most, that of the
   newest command, with the playhead inside what is loaded. *)
VcrConsistent ==
    /\ PlayheadInRange
    /\ NewestCommandWins
    /\ FrozenWhileNotLive
    /\ ArmedOnlyInReplay
    /\ OneReplay
==============================================================================
