--------------------------- MODULE Ingestor_proof ---------------------------
(***************************************************************************)
(* The proofs about two parts of the ingestor that run beside each other:  *)
(* the liveness watchdog of an MQTT source, whose messages go through the  *)
(* buffer, and the ingest buffer between the sources and the database.     *)
(***************************************************************************)
EXTENDS IngestBuffer, Watchdog, SequenceTheorems, TLAPS

-----------------------------------------------------------------------------
(* The MQTT liveness watchdog.                                             *)

\* LastMessageUnix, when set, is the age of the last message; it is never
\* older than the registration of the source.
ClocksAgree ==
    /\ lastMessage # Unset => lastMessage = lastFlow
    /\ lastFlow <= firstConnected

\* The outage timer never reaches back behind the last OnConnect.
TimerAfterConnect == disconnectedAt # Unset => disconnectedAt <= startedAt

\* An alarm is standing, or about to be raised.
Alarmed == lastAlert # Unset \/ verdict \in Alarming

\* An alarm means that the cold-start grace is over and, until the next
\* message, that no recent message is on record.
AlarmMeansSilence ==
    /\ Alarmed => firstConnected >= Threshold
    /\ Alarmed /\ ~flowed => lastMessage = Unset \/ lastMessage >= Threshold
    /\ lastAlert # Unset /\ verdict = "OK" => flowed

Inv ==
    /\ LivenessTypeOK
    /\ ClocksAgree
    /\ TimerAfterConnect
    /\ AlarmMeansSilence
    /\ RecoveryIsReal
    /\ LoopGoneBeforeClose

USE DEF Unset, Alarming

\* A clock that ages stays within its bound and keeps its order with
\* another clock of the same bound.
LEMMA OlderStays ==
  ASSUME NEW b \in Nat, NEW a \in {Unset} \cup 0..b
  PROVE  /\ Older(a, b) \in {Unset} \cup 0..b
         /\ (Older(a, b) = Unset) <=> (a = Unset)
         /\ a >= b => Older(a, b) >= b
         /\ \A c \in 0..b : a <= c => Older(a, b) <= Older(c, b)
BY DEF Older

\* A clock that is set stays set.
LEMMA OlderSet ==
  ASSUME NEW b \in Nat, NEW a \in 0..b
  PROVE  Older(a, b) \in 0..b
BY DEF Older

\* The log queue never holds more than its capacity.
LEMMA EmitBounded ==
  ASSUME NEW n \in Nat, Emit(n), queued \in 0..QueueCap
  PROVE  queued' \in 0..QueueCap
BY BoundsAssumption DEF Emit

\* A forced reconnect changes the force clock, the goroutine and the queue.
LEMMA ForceTyped ==
  ASSUME LivenessTypeOK, MaybeForceReconnect(1)
  PROVE  /\ queued' \in 0..QueueCap
         /\ lastForce' \in {Unset} \cup 0..Throttle
         /\ forcer' \in {"idle", "issued", "disconnect", "connect", "report"}
<1>1. queued' \in 0..QueueCap
  BY EmitBounded DEF MaybeForceReconnect, LivenessTypeOK
<1>2. CASE Throttled
  BY <1>1, <1>2 DEF MaybeForceReconnect, LivenessTypeOK
<1>3. CASE ~Throttled
  BY <1>1, <1>3, BoundsAssumption DEF MaybeForceReconnect
<1>4. QED
  BY <1>2, <1>3

\* A watchdog that starts has no alarm, no timer and no redial under way.
LEMMA InitInv == WatchdogInit => Inv
<1> SUFFICES ASSUME WatchdogInit PROVE Inv
  OBVIOUS
<1>1. /\ connectPending \in BOOLEAN /\ inFlight \in BOOLEAN /\ due \in BOOLEAN
      /\ done \in BOOLEAN /\ closed \in BOOLEAN /\ crashed \in BOOLEAN
      /\ handled \in BOOLEAN /\ flowed \in BOOLEAN
  BY Zenon DEF WatchdogInit
<1>2. LoopGoneBeforeClose /\ RecoveryIsReal
  BY DEF WatchdogInit, LoopGoneBeforeClose, RecoveryIsReal
<1>3. QED
  BY <1>1, <1>2, BoundsAssumption
  DEF WatchdogInit, Inv, LivenessTypeOK, Links, ClocksAgree, TimerAfterConnect, Alarmed,
      AlarmMeansSilence

\* What the network, paho and the forced reconnect do to the client leaves
\* every clock alone.
LEMMA NetworkInv == Inv /\ Network => Inv'
<1> USE DEF Inv, LivenessTypeOK, Links, ClocksAgree, TimerAfterConnect, Alarmed,
        AlarmMeansSilence, RecoveryIsReal, LoopGoneBeforeClose, clocks, scan,
        stopping, flowHistory
<1>1. Inv /\ ConnectionLost => Inv'  BY DEF ConnectionLost
<1>2. Inv /\ GoHalfOpen => Inv'      BY DEF GoHalfOpen
<1>3. Inv /\ GiveUp => Inv'          BY DEF GiveUp
<1>4. Inv /\ Connected => Inv'       BY DEF Connected
<1>5. Inv /\ Settle => Inv'          BY DEF Settle
<1>6. QED  BY <1>1, <1>2, <1>3, <1>4, <1>5 DEF Network

\* A reconnect forgets the last message and the outage; a message ends the
\* silence.
LEMMA MessagesInv == Inv /\ Messages => Inv'
<1> USE BoundsAssumption
    DEF Inv, LivenessTypeOK, ClocksAgree, TimerAfterConnect, Alarmed,
        AlarmMeansSilence, RecoveryIsReal, LoopGoneBeforeClose, clocks, scan,
        stopping, flowHistory
<1>1. Inv /\ MarkReconnected => Inv'
  <2>1. MarkReconnected => connectPending' \in BOOLEAN
    BY Zenon DEF MarkReconnected
  <2>2. QED
    BY <2>1 DEF MarkReconnected
<1>2. Inv /\ ReceiveMessage => Inv'
  BY DEF ReceiveMessage
<1>3. Inv /\ HandleMessage => Inv'
  <2>1. HandleMessage => /\ inFlight' \in BOOLEAN
                         /\ handled' \in BOOLEAN
                         /\ flowed' \in BOOLEAN
                         /\ flowed'
    BY Zenon DEF HandleMessage
  <2>2. QED
    BY <2>1 DEF HandleMessage
<1>4. QED  BY <1>1, <1>2, <1>3 DEF Messages

\* Time ages every clock at the same pace.
LEMMA TimeInv == Inv /\ TimePasses => Inv'
<1> SUFFICES ASSUME Inv, TimePasses PROVE Inv'
  OBVIOUS
<1>1. LivenessTypeOK'
  <2>1. /\ lastMessage' \in {Unset} \cup 0..Threshold
        /\ lastAlert' \in {Unset} \cup 0..Heartbeat
        /\ lastForce' \in {Unset} \cup 0..Throttle
        /\ disconnectedAt' \in {Unset} \cup 0..Gap
    BY OlderStays, BoundsAssumption DEF Inv, LivenessTypeOK, TimePasses
  <2>2. /\ firstConnected' \in 0..Threshold
        /\ startedAt' \in 0..Gap
        /\ lastFlow' \in 0..Threshold
    BY OlderSet, BoundsAssumption DEF Inv, LivenessTypeOK, TimePasses
  <2>3. QED
    BY <2>1, <2>2 DEF Inv, LivenessTypeOK, TimePasses, client, stopping
<1>2. ClocksAgree' /\ TimerAfterConnect'
  BY BoundsAssumption
  DEF Inv, LivenessTypeOK, ClocksAgree, TimerAfterConnect, TimePasses, Older
<1>3. AlarmMeansSilence'
  BY BoundsAssumption
  DEF Inv, LivenessTypeOK, AlarmMeansSilence, Alarmed, TimePasses, Older
<1>4. RecoveryIsReal' /\ LoopGoneBeforeClose'
  BY DEF Inv, RecoveryIsReal, LoopGoneBeforeClose, TimePasses, stopping
<1>5. QED
  BY <1>1, <1>2, <1>3, <1>4 DEF Inv

\* What a verdict says about the clocks it was computed from.
LEMMA VerdictSays ==
  ASSUME LivenessTypeOK
  PROVE  /\ Verdict \in Alarming \cup {"OK", "Disconnected"}
         /\ Verdict \in Alarming => lastMessage = Unset \/ lastMessage >= Threshold
         /\ Verdict = "NeverReceived" => firstConnected >= Threshold
         /\ Verdict = "Stalled" => lastMessage # Unset
         /\ Verdict = "OK" => \/ lastMessage = Unset /\ firstConnected < Threshold
                              \/ lastMessage # Unset /\ lastMessage < Threshold
BY BoundsAssumption DEF LivenessTypeOK, Verdict, IsConnected, Links

\* The verdict of a scan keeps the invariant.
LEMMA CheckInv == Inv /\ Check => Inv'
<1> SUFFICES ASSUME Inv, Check PROVE Inv'
  OBVIOUS
<1>1. LivenessTypeOK'
  <2>1. due' \in BOOLEAN /\ flowed' \in BOOLEAN
    BY Zenon DEF Check
  <2>2. QED
    BY <2>1, VerdictSays DEF Inv, LivenessTypeOK, Check, client, clocks, stopping
<1>2. ClocksAgree' /\ TimerAfterConnect'
  BY DEF Inv, ClocksAgree, TimerAfterConnect, Check, clocks
<1>3. AlarmMeansSilence'
  <2>1. CASE Verdict \in Alarming
    <3>1. firstConnected >= Threshold
      BY <2>1, VerdictSays, BoundsAssumption DEF Inv, LivenessTypeOK, ClocksAgree
    <3>2. QED
      BY <2>1, <3>1, VerdictSays DEF Inv, AlarmMeansSilence, Alarmed, Check, clocks
  <2>2. CASE Verdict = "OK"
    <3>1. lastAlert # Unset => flowed
      BY <2>2, VerdictSays, BoundsAssumption
      DEF Inv, LivenessTypeOK, AlarmMeansSilence, Alarmed
    <3>2. QED
      BY <2>2, <3>1 DEF Inv, AlarmMeansSilence, Alarmed, Check, clocks
  <2>3. CASE Verdict = "Disconnected"
    BY <2>3 DEF Inv, AlarmMeansSilence, Alarmed, Check, clocks
  <2>4. QED
    BY <2>1, <2>2, <2>3, VerdictSays DEF Inv
<1>4. RecoveryIsReal' /\ LoopGoneBeforeClose'
  BY DEF Inv, RecoveryIsReal, LoopGoneBeforeClose, Check, stopping
<1>5. QED
  BY <1>1, <1>2, <1>3, <1>4 DEF Inv

\* Acting on the verdict raises an alarm only after the grace is over.
LEMMA EscalateInv == Inv /\ Escalate => Inv'
<1> SUFFICES ASSUME Inv, Escalate PROVE Inv'
  OBVIOUS
<1>1. /\ queued' \in 0..QueueCap
      /\ lastForce' \in {Unset} \cup 0..Throttle
      /\ forcer' \in {"idle", "issued", "disconnect", "connect", "report"}
  BY ForceTyped DEF Inv, LivenessTypeOK, Escalate
<1>2. /\ disconnectedAt' \in {Unset} \cup 0..Gap
      /\ TimerAfterConnect'
  BY BoundsAssumption DEF Inv, LivenessTypeOK, TimerAfterConnect, Escalate
<1>3. LivenessTypeOK'
  BY <1>1, <1>2 DEF Inv, LivenessTypeOK, Escalate, client, stopping, flowHistory
<1>4. ClocksAgree' /\ AlarmMeansSilence' /\ RecoveryIsReal' /\ LoopGoneBeforeClose'
  BY DEF Inv, ClocksAgree, AlarmMeansSilence, Alarmed, RecoveryIsReal,
         LoopGoneBeforeClose, Escalate, stopping, flowHistory
<1>5. QED
  BY <1>2, <1>3, <1>4 DEF Inv

\* Leaving or entering the alarm state keeps the alarm tied to a silence.
LEMMA TransitionInv == Inv /\ Transition => Inv'
<1> SUFFICES ASSUME Inv, Transition PROVE Inv'
  OBVIOUS
<1>1. /\ queued' \in 0..QueueCap
      /\ lastForce' \in {Unset} \cup 0..Throttle
      /\ forcer' \in {"idle", "issued", "disconnect", "connect", "report"}
  BY ForceTyped, EmitBounded DEF Inv, LivenessTypeOK, Transition, Alarm
<1>2. /\ lastAlert' \in {Unset} \cup 0..Heartbeat
      /\ line' \in {"none", "WARN", "REMINDER", "INFO"}
  BY BoundsAssumption DEF Inv, LivenessTypeOK, Transition, Alarm
<1>3. LivenessTypeOK'
  BY <1>1, <1>2 DEF Inv, LivenessTypeOK, Transition, client, stopping, flowHistory
<1>4. ClocksAgree' /\ TimerAfterConnect' /\ LoopGoneBeforeClose'
  BY DEF Inv, ClocksAgree, TimerAfterConnect, LoopGoneBeforeClose, Transition,
         stopping, flowHistory
<1>5. AlarmMeansSilence' /\ RecoveryIsReal'
  BY DEF Inv, AlarmMeansSilence, Alarmed, RecoveryIsReal, Transition, Alarm,
         Recovered, flowHistory
<1>6. QED
  BY <1>3, <1>4, <1>5 DEF Inv

\* Starting the loop, the forced reconnect, the log writer and the shutdown
\* touch no clock.
LEMMA RestInv == Inv /\ (StartWatchdog \/ Forcing \/ WriteLine \/ Shutdown) => Inv'
<1> USE DEF Inv, LivenessTypeOK, Links, ClocksAgree, TimerAfterConnect, Alarmed,
        AlarmMeansSilence, RecoveryIsReal, LoopGoneBeforeClose, client, clocks,
        scan, stopping, flowHistory
<1>1. Inv /\ StartWatchdog => Inv'    BY DEF StartWatchdog
<1>2. Inv /\ ForceInspect => Inv'     BY DEF ForceInspect
<1>3. Inv /\ ForceDisconnect => Inv'  BY DEF ForceDisconnect
<1>4. Inv /\ ForceConnect => Inv'     BY DEF ForceConnect
<1>5. Inv /\ ForceReport => Inv'      BY EmitBounded DEF ForceReport
<1>6. Inv /\ WriteLine => Inv'        BY BoundsAssumption DEF WriteLine
<1>7. Inv /\ StopWatchdog => Inv'     BY DEF StopWatchdog
<1>8. Inv /\ LoopExit => Inv'
  <2>1. LoopExit => due' \in BOOLEAN
    BY Zenon DEF LoopExit
  <2>2. QED
    BY <2>1 DEF LoopExit
<1>9. Inv /\ StopEmit => Inv'         BY DEF StopEmit, LoopReturned
<1>10. QED
  BY <1>1, <1>2, <1>3, <1>4, <1>5, <1>6, <1>7, <1>8, <1>9 DEF Forcing, Shutdown

\* Every step of the scan, the callbacks, the redial and the clock keeps the
\* invariant.
LEMMA NextInv == Inv /\ [WatchdogNext]_watchdogVars => Inv'
<1>1. Inv /\ WatchdogNext => Inv'
  BY NetworkInv, MessagesInv, TimeInv, CheckInv, EscalateInv, TransitionInv,
     RestInv DEF WatchdogNext, Loop
<1>2. Inv /\ UNCHANGED watchdogVars => Inv'
  BY DEF Inv, LivenessTypeOK, ClocksAgree, TimerAfterConnect, Alarmed,
         AlarmMeansSilence, RecoveryIsReal, LoopGoneBeforeClose, watchdogVars, client,
         clocks, scan, stopping, flowHistory
<1>3. QED
  BY <1>1, <1>2

\* The inductive invariant of the watchdog.
THEOREM InvThm == WatchdogSpec => []Inv
BY InitInv, NextInv, PTL DEF WatchdogSpec

\* The clocks stay within their bounds and the log queue within its
\* capacity.
THEOREM LivenessTypeCorrect == WatchdogSpec => []LivenessTypeOK
<1>1. Inv => LivenessTypeOK
  BY DEF Inv
<1>2. QED
  BY <1>1, InvThm, PTL

\* "Messages flowing again" is logged only when they are.
THEOREM RecoveryIsRealThm == WatchdogSpec => []RecoveryIsReal
<1>1. Inv => RecoveryIsReal
  BY DEF Inv
<1>2. QED
  BY <1>1, InvThm, PTL

\* The loop never sends to a log queue that stop() has closed.
THEOREM LoopGoneBeforeCloseThm == WatchdogSpec => []LoopGoneBeforeClose
<1>1. Inv => LoopGoneBeforeClose
  BY DEF Inv
<1>2. QED
  BY <1>1, InvThm, PTL

\* Which steps move the loop into a scan or start a forced reconnect.
LEMMA WhoMoves ==
  ASSUME WatchdogNext
  PROVE  /\ loop = "wait" /\ loop' = "checked" => Check
         /\ forcer # "issued" /\ forcer' = "issued" => Escalate \/ Transition
         /\ loop = "checked" => ~Transition
<1>1. Network \/ Messages \/ TimePasses \/ WriteLine => UNCHANGED <<loop, forcer>>
  BY DEF Network, Messages, ConnectionLost, GoHalfOpen, GiveUp, Connected,
         Settle, MarkReconnected, ReceiveMessage, HandleMessage, TimePasses,
         WriteLine, scan
<1>2. Forcing => UNCHANGED loop /\ forcer' # "issued"
  BY DEF Forcing, ForceInspect, ForceDisconnect, ForceConnect, ForceReport, scan
<1>3. StartWatchdog \/ Shutdown =>
        UNCHANGED forcer /\ loop' \in {loop, "wait", "exited"}
  BY DEF StartWatchdog, Shutdown, StopWatchdog, LoopExit, StopEmit, scan
<1>4. Escalate => loop' = "escalated"
  BY DEF Escalate
<1>5. Transition => loop = "escalated" /\ loop' = "wait"
  BY DEF Transition
<1>6. Check => UNCHANGED forcer
  BY DEF Check
<1>7. QED
  BY <1>1, <1>2, <1>3, <1>4, <1>5, <1>6 DEF WatchdogNext, Loop

\* Reconnects cannot hide a silent source from the scan.
THEOREM FlapCannotSilenceThm == WatchdogSpec => FlapCannotSilence
<1>1. Inv /\ [WatchdogNext]_watchdogVars =>
        [loop = "wait" /\ loop' = "checked" /\ verdict' = "OK"
            => lastFlow < Threshold]_watchdogVars
  <2> SUFFICES ASSUME Inv, WatchdogNext, loop = "wait", loop' = "checked", verdict' = "OK"
               PROVE  lastFlow < Threshold
    OBVIOUS
  <2>1. Check
    BY WhoMoves
  <2>2. Verdict = "OK"
    BY <2>1 DEF Check
  <2>3. QED
    BY <2>2, VerdictSays, BoundsAssumption DEF Inv, LivenessTypeOK, ClocksAgree
<1>2. QED
  BY <1>1, InvThm, PTL DEF WatchdogSpec, FlapCannotSilence

\* An escalation follows an outage of at least Gap, never a flap.
THEOREM EscalationMeansOutageThm == WatchdogSpec => EscalationMeansOutage
<1>1. Inv /\ [WatchdogNext]_watchdogVars =>
        [loop = "checked" /\ forcer = "idle" /\ forcer' = "issued"
            => startedAt >= Gap]_watchdogVars
  <2> SUFFICES ASSUME Inv, WatchdogNext, loop = "checked", forcer = "idle", forcer' = "issued"
               PROVE  startedAt >= Gap
    OBVIOUS
  <2>1. Escalate
    BY WhoMoves
  <2>2. disconnectedAt >= Gap
    BY <2>1 DEF Escalate
  <2>3. QED
    BY <2>2, BoundsAssumption DEF Inv, LivenessTypeOK, TimerAfterConnect
<1>2. QED
  BY <1>1, InvThm, PTL DEF WatchdogSpec, EscalationMeansOutage

\* Both ways of forcing a reconnect respect the throttle.
THEOREM ForceThrottledThm == WatchdogSpec => ForceThrottled
<1>1. Inv /\ [WatchdogNext]_watchdogVars =>
        [forcer # "issued" /\ forcer' = "issued"
            => lastForce = Unset \/ lastForce >= Throttle]_watchdogVars
  <2> SUFFICES ASSUME Inv, WatchdogNext, forcer # "issued", forcer' = "issued"
               PROVE  lastForce = Unset \/ lastForce >= Throttle
    OBVIOUS
  <2>1. Escalate \/ Transition
    BY WhoMoves
  <2>2. ~Throttled
    BY <2>1 DEF Escalate, Transition, Alarm, MaybeForceReconnect
  <2>3. QED
    BY <2>2, BoundsAssumption DEF Throttled, Inv, LivenessTypeOK
<1>2. QED
  BY <1>1, InvThm, PTL DEF WatchdogSpec, ForceThrottled

(* Recovery lines are earned and the log queue outlives the loop, for every
   choice of the timing constants. *)
THEOREM RecoverySoundThm == WatchdogSpec => []RecoverySound
<1>1. LivenessTypeOK /\ RecoveryIsReal /\ LoopGoneBeforeClose <=> RecoverySound
  BY DEF RecoverySound
<1>2. QED
  BY <1>1, LivenessTypeCorrect, RecoveryIsRealThm, LoopGoneBeforeCloseThm, PTL

(* Verdicts, escalations and forced reconnects keep to their thresholds, for
   every choice of the timing constants. *)
THEOREM StepsSoundThm == WatchdogSpec => StepsSound
BY FlapCannotSilenceThm, EscalationMeansOutageThm, ForceThrottledThm, PTL DEF StepsSound

-----------------------------------------------------------------------------
(* The ingest buffer.                                                      *)

USE CapacityAssumption, MaxMsgsAssumption

\* The capacity the channel is made with is at least one.
LEMMA CapPositive == Cap \in Nat \ {0}
  BY DEF Cap

\* Type correctness: in particular the channel never holds more than its
\* capacity and at most one job runs at a time (the single-writer rule).
THEOREM TypeCorrect == Spec => []TypeOK
<1>1. Init => TypeOK
  <2> SUFFICES ASSUME Init PROVE TypeOK
    OBVIOUS
  <2>1. <<>> \in Seq(Job) /\ Len(<<>>) = 0
    BY EmptySeq
  <2>2. sent \in [Producers -> 0..MaxMsgs] /\ ticket \in [Producers -> Nat]
    BY DEF Init
  <2>3. dropped \in Nat /\ stallStartDrop \in Int /\ recovered \in Int
    BY DEF Init
  <2>4. Len(jobs) <= Cap /\ Len(running) <= 1
    BY <2>1, CapPositive DEF Init
  <2>5. ready \in BOOLEAN /\ stop \in BOOLEAN /\ stallActive \in BOOLEAN
    BY DEF Init
  <2>6. pc \in [Producers -> {"idle", "accepted", "refused"}]
    BY DEF Init
  <2> QED
    BY <2>1, <2>2, <2>3, <2>4, <2>5, <2>6 DEF Init, TypeOK
<1>2. TypeOK /\ [Next]_vars => TypeOK'
  <2> SUFFICES ASSUME TypeOK, [Next]_vars PROVE TypeOK'
    OBVIOUS
  <2> USE CapPositive DEF TypeOK
  <2>1. ASSUME NEW p \in Producers, SubmitAccept(p) PROVE TypeOK'
    <3>1. NextJob(p) \in Job
      BY <2>1 DEF NextJob, Job, SubmitAccept, CanSubmit
    <3>2. jobs' \in Seq(Job) /\ Len(jobs') <= Cap /\ accepted' \in Seq(Job)
      BY <2>1, <3>1 DEF SubmitAccept, HasRoom
    <3>3. sent' \in [Producers -> 0..MaxMsgs]
      BY <2>1 DEF SubmitAccept, CanSubmit
    <3>4. pc' \in [Producers -> {"idle", "accepted", "refused"}]
      BY <2>1 DEF SubmitAccept
    <3> QED
      BY <2>1, <3>2, <3>3, <3>4 DEF SubmitAccept, logState
  <2>2. ASSUME NEW p \in Producers, SubmitRefuse(p) PROVE TypeOK'
    BY <2>2 DEF SubmitRefuse, CanSubmit, channel, logState, history
  <2>3. ASSUME NEW p \in Producers, MaybeLogRecovery(p) PROVE TypeOK'
    <3>1. recovered' \in Int
      BY <2>3 DEF MaybeLogRecovery
    <3>2. stallActive' \in BOOLEAN
      BY <2>3 DEF MaybeLogRecovery
    <3>3. pc' \in [Producers -> {"idle", "accepted", "refused"}]
      BY <2>3 DEF MaybeLogRecovery
    <3> QED
      BY <2>3, <3>1, <3>2, <3>3 DEF MaybeLogRecovery, channel, history
  <2>4. ASSUME NEW p \in Producers, LogDrop(p) PROVE TypeOK'
    BY <2>4 DEF LogDrop, channel, history
  <2>5. CASE Start
    BY <2>5 DEF Start, logState, history
  <2>6. CASE Ready
    BY <2>6 DEF Ready, logState, history
  <2>7. CASE Stop
    BY <2>7 DEF Stop, logState, history
  <2>8. CASE GateOpen
    BY <2>8 DEF GateOpen, outside, logState, history
  <2>9. CASE GateStopped
    BY <2>9 DEF GateStopped, outside, logState, history
  <2>10. CASE Receive
    <3>1. Head(jobs) \in Job /\ Tail(jobs) \in Seq(Job)
      BY <2>10 DEF Receive
    <3>2. Len(Tail(jobs)) <= Cap
      BY <2>10 DEF Receive
    <3> QED
      BY <2>10, <3>1, <3>2 DEF Receive, outside, logState, history
  <2>11. CASE Finish
    BY <2>11 DEF Finish, outside, logState
  <2>12. CASE BeginDrain
    BY <2>12 DEF BeginDrain, outside, logState, history
  <2>13. CASE EndDrain
    BY <2>13 DEF EndDrain, outside, logState, history
  <2>14. CASE UNCHANGED vars
    BY <2>14 DEF vars, channel, logState, history
  <2> QED
    BY <2>1, <2>2, <2>3, <2>4, <2>5, <2>6, <2>7, <2>8, <2>9, <2>10, <2>11,
       <2>12, <2>13, <2>14 DEF Next, Submit, Log, Consume
<1> QED
  BY <1>1, <1>2, PTL DEF Spec

-----------------------------------------------------------------------------
(* The conveyor: accepted = executed \o running \o jobs is inductive given *)
(* the types.                                                              *)

\* Appending to the second of two queues is appending to both.
LEMMA AppendConcat ==
    \A d, j \in Seq(Job), e \in Job : Append(d \o j, e) = d \o Append(j, e)
  OBVIOUS

\* A queue that is not empty is its head and its tail.
LEMMA UnconsLemma ==
    ASSUME NEW S, NEW q \in Seq(S), q # <<>>
    PROVE  /\ q = <<Head(q)>> \o Tail(q)
           /\ <<Head(q)>> \in Seq(S) /\ Tail(q) \in Seq(S)
<1>1. Head(q) \in S /\ Tail(q) \in Seq(S) /\ Len(Tail(q)) = Len(q) - 1
      /\ \A i \in 1..Len(Tail(q)) : Tail(q)[i] = q[i + 1]
  BY HeadTailProperties
<1>2. <<Head(q)>> \in Seq(S) /\ Len(<<Head(q)>>) = 1 /\ <<Head(q)>>[1] = Head(q)
  BY <1>1
<1>3. Head(q) = q[1] /\ Len(q) \in Nat /\ Len(q) # 0
  BY EmptySeq
<1> DEFINE r == <<Head(q)>> \o Tail(q)
<1>4. r \in Seq(S) /\ Len(r) = Len(q)
  BY <1>1, <1>2, <1>3, ConcatProperties
<1>5. ASSUME NEW i \in 1..Len(q) PROVE r[i] = q[i]
  <2>1. r[i] = IF i <= 1 THEN <<Head(q)>>[i] ELSE Tail(q)[i - 1]
    BY <1>1, <1>2, <1>3, ConcatProperties
  <2> QED
    BY <2>1, <1>1, <1>2, <1>3
<1>6. q = r
  <2> HIDE DEF r
  <2> QED
    BY <1>4, <1>5, SeqEqual
<1> QED
  BY <1>1, <1>2, <1>6

\* Nothing accepted is lost, duplicated or reordered (Submit, Start).
THEOREM NoLossNoDupThm == Spec => []NoLossNoDup
<1>1. Init => NoLossNoDup
  <2> SUFFICES ASSUME Init PROVE NoLossNoDup
    OBVIOUS
  <2>1. <<>> = <<>> \o <<>> \o <<>>
    BY ConcatEmptySeq, EmptySeq
  <2> QED
    BY <2>1 DEF Init, NoLossNoDup
<1>2. TypeOK /\ NoLossNoDup /\ [Next]_vars => NoLossNoDup'
  <2> SUFFICES ASSUME TypeOK, NoLossNoDup, [Next]_vars PROVE NoLossNoDup'
    OBVIOUS
  <2>0. jobs \in Seq(Job) /\ running \in Seq(Job) /\ executed \in Seq(Job)
    BY DEF TypeOK
  <2>1. ASSUME NEW p \in Producers, SubmitAccept(p) PROVE NoLossNoDup'
    <3>1. NextJob(p) \in Job
      BY <2>1 DEF NextJob, Job, SubmitAccept, CanSubmit, TypeOK
    <3>2. executed \o running \in Seq(Job)
      BY <2>0, ConcatProperties
    <3> DEFINE past == executed \o running
               job == NextJob(p)
    <3>3. accepted' = Append(past \o jobs, job)
          /\ past' \o jobs' = past \o Append(jobs, job)
      BY <2>1 DEF SubmitAccept, NoLossNoDup
    <3>4. job \in Job /\ past \in Seq(Job)
      BY <3>1, <3>2
    <3> HIDE DEF past, job
    <3>5. Append(past \o jobs, job) = past \o Append(jobs, job)
      BY <2>0, <3>4, AppendConcat
    <3>6. accepted' = past' \o jobs'
      BY <3>3, <3>5
    <3> QED
      BY <3>6 DEF past, NoLossNoDup
  <2>2. CASE Receive
    <3>0. jobs # <<>>
      BY <2>2 DEF Receive
    <3>1. /\ jobs = <<Head(jobs)>> \o Tail(jobs)
          /\ <<Head(jobs)>> \in Seq(Job) /\ Tail(jobs) \in Seq(Job)
      BY <2>0, <3>0, UnconsLemma
    <3>2. executed \o <<>> = executed
      BY <2>0, ConcatEmptySeq
    <3>3. (executed \o <<Head(jobs)>>) \o Tail(jobs)
            = executed \o (<<Head(jobs)>> \o Tail(jobs))
      BY <2>0, <3>1, ConcatAssociative, SMTT(60)
    <3> QED
      BY <2>2, <3>1, <3>2, <3>3 DEF Receive, history, NoLossNoDup
  <2>3. CASE Finish
    <3>1. (executed \o running) \o <<>> = executed \o running
      BY <2>0, ConcatEmptySeq, ConcatProperties
    <3> QED
      BY <2>3, <3>1 DEF Finish, NoLossNoDup
  <2>5. ASSUME NEW p \in Producers,
               SubmitRefuse(p) \/ MaybeLogRecovery(p) \/ LogDrop(p)
        PROVE  NoLossNoDup'
    BY <2>5 DEF SubmitRefuse, MaybeLogRecovery, LogDrop, channel, history,
                NoLossNoDup
  <2>6. CASE Start \/ Ready \/ Stop \/ GateOpen \/ GateStopped
               \/ BeginDrain \/ EndDrain
    BY <2>6 DEF Start, Ready, Stop, GateOpen, GateStopped, BeginDrain,
                EndDrain, history, NoLossNoDup
  <2>7. CASE UNCHANGED vars
    BY <2>7 DEF vars, channel, history, NoLossNoDup
  <2> QED
    BY <2>1, <2>2, <2>3, <2>5, <2>6, <2>7 DEF Next, Submit, Log, Consume
<1> QED
  BY <1>1, <1>2, TypeCorrect, PTL DEF Spec

-----------------------------------------------------------------------------
(* Order per source.                                                       *)

\* The channel's history is ordered per source: each source stamps its next
\* job with a number above everything of its own accepted before.
LEMMA AcceptedOrdered == Spec => []AcceptedOrder
<1>1. Init => AcceptedOrder
  BY DEF Init, AcceptedOrder
<1>2. TypeOK /\ AcceptedOrder /\ [Next]_vars => AcceptedOrder'
  <2> SUFFICES ASSUME TypeOK, AcceptedOrder, [Next]_vars PROVE AcceptedOrder'
    OBVIOUS
  <2>0. accepted \in Seq(Job) /\ sent \in [Producers -> 0..MaxMsgs]
        /\ \A i \in 1..Len(accepted) :
              accepted[i].src \in Producers /\ accepted[i].seq \in Nat
    <3>1. accepted \in Seq(Job) /\ sent \in [Producers -> 0..MaxMsgs]
      BY DEF TypeOK
    <3>2. \A i \in 1..Len(accepted) : accepted[i] \in Job
      BY <3>1
    <3>3. \A j \in Job : j.src \in Producers /\ j.seq \in Nat
      BY DEF Job
    <3> QED
      BY <3>1, <3>2, <3>3
  <2>1. ASSUME NEW p \in Producers, SubmitAccept(p) PROVE AcceptedOrder'
    <3> DEFINE job == [src |-> p, seq |-> sent[p] + 1]
    <3>1. /\ Len(accepted') = Len(accepted) + 1
          /\ \A i \in 1..Len(accepted) : accepted'[i] = accepted[i]
          /\ accepted'[Len(accepted) + 1] = job
          /\ Len(accepted) \in Nat
      BY <2>0, <2>1 DEF SubmitAccept, NextJob
    <3>2. sent' = [sent EXCEPT ![p] = sent[p] + 1]
      BY <2>1 DEF SubmitAccept
    <3>3. job.src = p /\ job.seq = sent[p] + 1 /\ sent[p] \in Nat
      BY <2>0
    <3> HIDE DEF job
    <3>4. ASSUME NEW i \in 1..Len(accepted'), NEW j \in 1..Len(accepted'),
                 i < j, accepted'[i].src = accepted'[j].src
          PROVE  accepted'[i].seq < accepted'[j].seq
      <4>1. CASE j = Len(accepted) + 1
        <5>1. i \in 1..Len(accepted) /\ accepted[i].src = p
              /\ accepted'[i].seq = accepted[i].seq
          BY <3>1, <3>3, <3>4, <4>1
        <5>2. accepted[i].seq <= sent[p] /\ accepted[i].seq \in Nat
          BY <2>0, <5>1 DEF AcceptedOrder
        <5>3. accepted'[j].seq = sent[p] + 1
          BY <3>1, <3>3, <4>1
        <5> QED
          BY <3>3, <5>1, <5>2, <5>3
      <4>2. CASE j # Len(accepted) + 1
        BY <3>1, <3>4, <4>2 DEF AcceptedOrder
      <4> QED
        BY <4>1, <4>2
    <3>5. ASSUME NEW i \in 1..Len(accepted')
          PROVE  accepted'[i].seq <= sent'[accepted'[i].src]
      <4>1. CASE i = Len(accepted) + 1
        BY <2>0, <3>1, <3>2, <3>3, <4>1
      <4>2. CASE i # Len(accepted) + 1
        <5>1. i \in 1..Len(accepted) /\ accepted'[i] = accepted[i]
          BY <3>1, <4>2
        <5>2. accepted[i].src \in Producers /\ accepted[i].seq \in Nat
              /\ accepted[i].seq <= sent[accepted[i].src]
          BY <2>0, <5>1 DEF AcceptedOrder
        <5>3. sent[accepted[i].src] <= sent'[accepted[i].src]
          BY <2>0, <3>2, <3>3, <5>2
        <5>4. sent[accepted[i].src] \in Nat /\ sent'[accepted[i].src] \in Nat
          BY <2>0, <3>2, <3>3, <5>2
        <5> QED
          BY <5>1, <5>2, <5>3, <5>4
      <4> QED
        BY <4>1, <4>2
    <3> QED
      BY <3>4, <3>5 DEF AcceptedOrder
  <2>2. ASSUME NEW p \in Producers, SubmitRefuse(p) PROVE AcceptedOrder'
    <3>1. accepted' = accepted /\ sent' = [sent EXCEPT ![p] = sent[p] + 1]
      BY <2>2 DEF SubmitRefuse, history
    <3>2. \A q \in Producers : sent[q] <= sent'[q] /\ sent[q] \in Nat
                               /\ sent'[q] \in Nat
      BY <2>0, <3>1
    <3> QED
      BY <2>0, <3>1, <3>2 DEF AcceptedOrder
  <2>3. CASE UNCHANGED <<accepted, sent>>
    BY <2>3 DEF AcceptedOrder
  <2>4. ASSUME NEW p \in Producers, Log(p) PROVE AcceptedOrder'
    BY <2>3, <2>4 DEF Log, MaybeLogRecovery, LogDrop, history
  <2>5. CASE Start \/ Ready \/ Stop
    BY <2>3, <2>5 DEF Start, Ready, Stop, history
  <2>6. CASE Consume
    BY <2>3, <2>6 DEF Consume, GateOpen, GateStopped, Receive, Finish,
                      BeginDrain, EndDrain, outside, history
  <2>7. CASE UNCHANGED vars
    BY <2>3, <2>7 DEF vars, history
  <2> QED
    BY <2>1, <2>2, <2>4, <2>5, <2>6, <2>7 DEF Next, Submit
<1> QED
  BY <1>1, <1>2, TypeCorrect, PTL DEF Spec

\* The jobs of one source run in the order the source delivered them, each at
\* most once: what ran is a prefix of what was accepted.
THEOREM SourceOrderThm == Spec => []SourceOrder
<1>1. TypeOK /\ NoLossNoDup /\ AcceptedOrder => SourceOrder
  <2> SUFFICES ASSUME TypeOK, NoLossNoDup, AcceptedOrder PROVE SourceOrder
    OBVIOUS
  <2> DEFINE rest == running \o jobs
  <2>1. executed \in Seq(Job) /\ rest \in Seq(Job)
    BY DEF TypeOK
  <2>2. accepted = executed \o rest
    <3>1. jobs \in Seq(Job) /\ running \in Seq(Job)
      BY DEF TypeOK
    <3>2. (executed \o running) \o jobs = executed \o (running \o jobs)
      BY <2>1, <3>1, ConcatAssociative
    <3> QED
      BY <3>2 DEF NoLossNoDup
  <2> HIDE DEF rest
  <2>3. /\ Len(accepted) = Len(executed) + Len(rest)
        /\ Len(executed) \in Nat /\ Len(rest) \in Nat
        /\ \A i \in 1..Len(executed) : accepted[i] = executed[i]
    BY <2>1, <2>2
  <2> QED
    BY <2>3 DEF AcceptedOrder, SourceOrder
<1> QED
  BY <1>1, TypeCorrect, NoLossNoDupThm, AcceptedOrdered, PTL

-----------------------------------------------------------------------------
(* The gate.                                                               *)

\* No job runs before Ready, whichever way Stop and Ready race (Start).
THEOREM GateHoldsThm == Spec => []GateHolds
<1>1. Init => GateInv
  BY DEF Init, GateInv
<1>2. GateInv /\ [Next]_vars => GateInv'
  <2> SUFFICES ASSUME GateInv, [Next]_vars PROVE GateInv'
    OBVIOUS
  <2> USE DEF GateInv
  <2>1. ASSUME NEW p \in Producers, Submit(p) \/ Log(p) PROVE GateInv'
    BY <2>1 DEF Submit, SubmitAccept, SubmitRefuse, Log, MaybeLogRecovery,
                LogDrop, channel, history
  <2>2. CASE Start \/ Ready \/ Stop
    BY <2>2 DEF Start, Ready, Stop, history
  <2>3. CASE GateOpen \/ GateStopped \/ BeginDrain \/ EndDrain
    BY <2>3 DEF GateOpen, GateStopped, BeginDrain, EndDrain, history
  <2>4. CASE Receive
    BY <2>4 DEF Receive, history
  <2>5. CASE Finish
    BY <2>5 DEF Finish
  <2>6. CASE UNCHANGED vars
    BY <2>6 DEF vars, channel, history
  <2> QED
    BY <2>1, <2>2, <2>3, <2>4, <2>5, <2>6 DEF Next, Consume
<1>3. GateInv => GateHolds
  BY DEF GateInv, GateHolds
<1> QED
  BY <1>1, <1>2, <1>3, PTL DEF Spec

\* A consumer that got past the gate returns only when everything accepted
\* has run (the drain loop of Start).
THEOREM GracefulExitThm == Spec => GracefulExit
<1>1. TypeOK /\ NoLossNoDup /\ [Next]_vars
        => [consumer' = "done" /\ consumer \in {"loop", "drain"}
              => executed' = accepted']_vars
  <2> SUFFICES ASSUME TypeOK, NoLossNoDup, [Next]_vars,
                      consumer' = "done", consumer \in {"loop", "drain"}
               PROVE  executed' = accepted'
    OBVIOUS
  <2>1. EndDrain
    BY DEF Next, Submit, SubmitAccept, SubmitRefuse, Log, MaybeLogRecovery,
           LogDrop, Start, Ready, Stop, Consume, GateOpen, GateStopped,
           Receive, Finish, BeginDrain, channel, vars
  <2>2. executed \o <<>> = executed
    BY ConcatEmptySeq DEF TypeOK
  <2> QED
    BY <2>1, <2>2 DEF EndDrain, NoLossNoDup, history
<1> QED
  BY <1>1, TypeCorrect, NoLossNoDupThm, PTL DEF Spec, GracefulExit

(* What Submit accepted is what ran, runs and waits, in delivery order for
   each source and never before Ready, for any number of sources and any
   capacity. *)
THEOREM DeliveryExactThm == Spec => []DeliveryExact
<1>1. TypeOK /\ NoLossNoDup /\ SourceOrder /\ GateHolds <=> DeliveryExact
  BY DEF DeliveryExact
<1>2. QED
  BY <1>1, TypeCorrect, NoLossNoDupThm, SourceOrderThm, GateHoldsThm, PTL
=============================================================================
