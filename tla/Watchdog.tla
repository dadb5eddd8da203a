------------------------------ MODULE Watchdog ------------------------------
(***************************************************************************)
(* cmd/ingestor/mqtt_watchdog.go with the parts of main.go it drives: the  *)
(* liveness watchdog of one MQTT source.  Three goroutines share the       *)
(* atomics of SourceLivenessState: the watchdog loop, paho's OnConnect     *)
(* handler and the message path; a fourth, the forced reconnect, is        *)
(* started by the loop and works on the paho client.                       *)
(*                                                                         *)
(* Every unix timestamp the code keeps is the age of that timestamp here,  *)
(* counted in scan intervals and saturating at the bound it is compared    *)
(* with, so time is unbounded and the state space finite.  Unset stands    *)
(* for the timestamp 0.                                                    *)
(***************************************************************************)
EXTENDS Integers

CONSTANTS
    Threshold,   \* silence that counts as a stall (5 scan intervals)
    Heartbeat,   \* livenessHeartbeatInterval
    Throttle,    \* forceReconnectThrottle
    Gap,         \* disconnectedEscalationGap of this source
    QueueCap     \* logQueueCapacity

ASSUME BoundsAssumption ==
    /\ Threshold \in Nat \ {0}
    /\ Heartbeat \in Nat \ {0}
    /\ Throttle \in Nat \ {0}
    /\ Gap \in Nat \ {0}
    /\ QueueCap \in Nat \ {0}

Unset == -1

\* An age with its bound; Unset stays Unset.
Older(age, bound) == IF age = Unset \/ age >= bound THEN age ELSE age + 1

VARIABLES
    link,            \* the paho client and its socket
    connectPending,  \* the OnConnect handler has still to run
    inFlight,        \* a received message waits in the ingest buffer
    lastMessage,     \* age of LastMessageUnix
    firstConnected,  \* age of FirstConnectedAt
    startedAt,       \* age of StartedAt
    lastAlert,       \* age of LastAlertUnix
    lastForce,       \* age of LastForceReconnectUnix
    disconnectedAt,  \* age of DisconnectedSinceUnix
    loop,            \* where the watchdog goroutine stands
    due,             \* the ticker's channel holds a tick
    verdict,         \* the LivenessKind of the scan in progress
    line,            \* what the last transition logged
    forcer,          \* where the forced-reconnect goroutine stands
    queued,          \* lines in the asynchronous log queue
    done, closed,    \* stop(): done is closed; the log queue is closed
    crashed,         \* a goroutine without recover panicked
    handled,         \* history: some message was ever handled
    lastFlow,        \* history: age of the last message, or of registration
    flowed           \* history: a message since the last alarming verdict

client == <<link, connectPending, inFlight>>
clocks == <<lastMessage, firstConnected, startedAt, lastAlert, lastForce,
            disconnectedAt>>
scan == <<loop, due, verdict, line>>
stopping == <<done, closed, crashed>>
flowHistory == <<handled, lastFlow, flowed>>
watchdogVars == <<client, clocks, scan, forcer, queued, stopping, flowHistory>>

(***************************************************************************)
(* The paho client.  "retrying" covers connecting and reconnecting;        *)
(* "closing" is the transitional state Disconnect leaves when a retry was  *)
(* under way; "down" is disconnected with nobody retrying.                 *)
(***************************************************************************)
Links == {"open", "halfOpen", "retrying", "closing", "down"}

IsConnected == link \in {"open", "halfOpen", "retrying"}
IsConnectionOpen == link \in {"open", "halfOpen"}

WatchdogInit ==
    /\ link \in {"retrying", "down"}
    /\ connectPending = FALSE
    /\ inFlight = FALSE
    /\ lastMessage = Unset
    /\ firstConnected = 0
    /\ startedAt = 0
    /\ lastAlert = Unset
    /\ lastForce = Unset
    /\ disconnectedAt = Unset
    /\ loop = "unstarted"
    /\ due = FALSE
    /\ verdict = "none"
    /\ line = "none"
    /\ forcer = "idle"
    /\ queued = 0
    /\ done = FALSE
    /\ closed = FALSE
    /\ crashed = FALSE
    /\ handled = FALSE
    /\ lastFlow = 0
    /\ flowed = FALSE

-----------------------------------------------------------------------------
(* The broker and the network, as paho reports them.                       *)

\* ConnectionLost: AutoReconnect starts retrying.  A half-open socket is
\* noticed this way too if the keepalive catches it.
ConnectionLost ==
    /\ IsConnectionOpen
    /\ link' = "retrying"
    /\ UNCHANGED <<connectPending, inFlight, clocks, scan, forcer, queued,
                   stopping, flowHistory>>

\* The peer vanishes without closing: paho still reports connected.
GoHalfOpen ==
    /\ link = "open"
    /\ link' = "halfOpen"
    /\ UNCHANGED <<connectPending, inFlight, clocks, scan, forcer, queued,
                   stopping, flowHistory>>

\* paho's own retry loop dies silently.
GiveUp ==
    /\ link = "retrying"
    /\ link' = "down"
    /\ UNCHANGED <<connectPending, inFlight, clocks, scan, forcer, queued,
                   stopping, flowHistory>>

\* A retry succeeds; paho starts the OnConnect handler in a goroutine.
Connected ==
    /\ link = "retrying"
    /\ link' = "open"
    /\ connectPending' = TRUE
    /\ UNCHANGED <<inFlight, clocks, scan, forcer, queued, stopping,
                   flowHistory>>

\* The unwound retry loop lets "disconnecting" settle.
Settle ==
    /\ link = "closing"
    /\ link' = "down"
    /\ UNCHANGED <<connectPending, inFlight, clocks, scan, forcer, queued,
                   stopping, flowHistory>>

-----------------------------------------------------------------------------
(* The OnConnect handler and the message path.                             *)

\* Mutant: the outage timer survives a reconnect.
MarkReconnectedKeepsTimer ==
    /\ connectPending
    /\ connectPending' = FALSE
    /\ lastMessage' = Unset
    /\ startedAt' = 0
    /\ lastAlert' = Unset
    /\ UNCHANGED <<link, inFlight, firstConnected, lastForce, disconnectedAt,
                   scan, forcer, queued, stopping, flowHistory>>

\* Mutant: a reconnect restarts the cold-start grace as well.
MarkReconnectedRegrace ==
    /\ connectPending
    /\ connectPending' = FALSE
    /\ lastMessage' = Unset
    /\ firstConnected' = 0
    /\ startedAt' = 0
    /\ lastAlert' = Unset
    /\ disconnectedAt' = Unset
    /\ UNCHANGED <<link, inFlight, lastForce, scan, forcer, queued, stopping,
                   flowHistory>>

MarkReconnected ==
    /\ connectPending
    /\ connectPending' = FALSE
    /\ lastMessage' = Unset
    /\ startedAt' = 0
    /\ lastAlert' = Unset
    /\ disconnectedAt' = Unset
    /\ UNCHANGED <<link, inFlight, firstConnected, lastForce, scan, forcer,
                   queued, stopping, flowHistory>>

\* The publish handler; the subscription is made after MarkReconnected.
ReceiveMessage ==
    /\ link = "open"
    /\ ~connectPending
    /\ ~inFlight
    /\ inFlight' = TRUE
    /\ UNCHANGED <<link, connectPending, clocks, scan, forcer, queued,
                   stopping, flowHistory>>

\* handleMessage stamps LastMessageUnix first, whatever becomes of the
\* message.  The message may come from an earlier connection.
HandleMessage ==
    /\ inFlight
    /\ inFlight' = FALSE
    /\ lastMessage' = 0
    /\ handled' = TRUE
    /\ lastFlow' = 0
    /\ flowed' = TRUE
    /\ UNCHANGED <<link, connectPending, firstConnected, startedAt, lastAlert,
                   lastForce, disconnectedAt, scan, forcer, queued, stopping>>

-----------------------------------------------------------------------------
(* The watchdog loop.                                                      *)

\* emit: a non-blocking send to the log queue; what does not fit is dropped.
\* Mutant: a blocking send.
EmitBlocking(n) ==
    /\ queued + n <= QueueCap
    /\ queued' = queued + n

\* Mutant: the queue has no bound.
EmitUnbounded(n) == queued' = queued + n

Emit(n) ==
    queued' = IF queued + n > QueueCap THEN QueueCap ELSE queued + n

\* The writer goroutine gets a line out.  The sink may be stuck for ever.
WriteLine ==
    /\ queued > 0
    /\ queued' = queued - 1
    /\ UNCHANGED <<client, clocks, scan, forcer, stopping, flowHistory>>

StartWatchdog ==
    /\ loop = "unstarted"
    /\ loop' = "wait"
    /\ UNCHANGED <<client, clocks, due, verdict, line, forcer, queued,
                   stopping, flowHistory>>

\* One scan interval.  A scan, and a forced reconnect, take far less.
TimePasses ==
    /\ loop \in {"unstarted", "wait", "exited"}
    /\ ~due
    /\ forcer = "idle"
    /\ due' = (loop = "wait" /\ ~done)
    /\ lastMessage' = Older(lastMessage, Threshold)
    /\ firstConnected' = Older(firstConnected, Threshold)
    /\ startedAt' = Older(startedAt, Gap)
    /\ lastAlert' = Older(lastAlert, Heartbeat)
    /\ lastForce' = Older(lastForce, Throttle)
    /\ disconnectedAt' = Older(disconnectedAt, Gap)
    /\ lastFlow' = Older(lastFlow, Threshold)
    /\ UNCHANGED <<client, loop, verdict, line, forcer, queued, stopping,
                   handled, flowed>>

\* Mutant: silence before the first message is not reported.
VerdictColdStartQuiet ==
    CASE ~IsConnected -> "Disconnected"
      [] IsConnected /\ lastMessage # Unset /\ lastMessage >= Threshold ->
            "Stalled"
      [] OTHER -> "OK"

\* checkSourceLiveness.
Verdict ==
    CASE ~IsConnected -> "Disconnected"
      [] IsConnected /\ lastMessage = Unset /\ firstConnected >= Threshold ->
            "NeverReceived"
      [] IsConnected /\ lastMessage # Unset /\ lastMessage >= Threshold ->
            "Stalled"
      [] OTHER -> "OK"

Alarming == {"Stalled", "NeverReceived"}

Check ==
    /\ loop = "wait"
    /\ due
    /\ due' = FALSE
    /\ loop' = "checked"
    /\ verdict' = Verdict
    /\ line' = "none"
    /\ flowed' = (flowed /\ Verdict \notin Alarming)
    /\ UNCHANGED <<client, clocks, forcer, queued, stopping, handled, lastFlow>>

Throttled == lastForce # Unset /\ lastForce < Throttle

\* Mutant: a force ignores the previous one.
MaybeForceReconnectUnthrottled(lines) ==
    /\ lastForce' = 0
    /\ forcer' = "issued"
    /\ Emit(lines + 1)

\* maybeForceReconnect, called after `lines' lines were logged.
MaybeForceReconnect(lines) ==
    /\ Emit(lines + 1)
    /\ IF Throttled
       THEN UNCHANGED <<lastForce, forcer>>
       ELSE /\ lastForce' = 0
            /\ forcer' = "issued"

\* Mutant: every disconnected tick restarts the outage timer.
FirstSeenDownAlways == TRUE

FirstSeenDown == disconnectedAt = Unset

\* maybeEscalateDisconnected.
Escalate ==
    /\ loop = "checked"
    /\ loop' = "escalated"
    /\ \/ /\ verdict # "Disconnected"
          /\ disconnectedAt' = Unset
          /\ UNCHANGED <<lastForce, forcer, queued>>
       \/ /\ verdict = "Disconnected"
          /\ FirstSeenDown
          /\ disconnectedAt' = 0
          /\ UNCHANGED <<lastForce, forcer, queued>>
       \/ /\ verdict = "Disconnected"
          /\ ~FirstSeenDown
          /\ disconnectedAt < Gap \/ Throttled
          /\ UNCHANGED <<disconnectedAt, lastForce, forcer, queued>>
       \/ /\ verdict = "Disconnected"
          /\ ~FirstSeenDown
          /\ disconnectedAt >= Gap
          /\ ~Throttled
          /\ MaybeForceReconnect(1)
          /\ UNCHANGED disconnectedAt
    /\ UNCHANGED <<client, lastMessage, firstConnected, startedAt, lastAlert,
                   due, verdict, line, stopping, flowHistory>>

\* processLivenessTransition: an alarm is logged and remembered; only a
\* stall gets a new socket.
Alarm(what) ==
    /\ line' = what
    /\ lastAlert' = 0
    /\ IF verdict = "Stalled"
       THEN MaybeForceReconnect(1)
       ELSE Emit(1) /\ UNCHANGED <<lastForce, forcer>>

\* Mutant: a disconnected source counts as recovered.
RecoveredOrGone == lastAlert # Unset /\ verdict \in {"OK", "Disconnected"}

Recovered == lastAlert # Unset /\ verdict = "OK"

Transition ==
    /\ loop = "escalated"
    /\ loop' = "wait"
    /\ verdict' = "none"
    /\ \/ /\ verdict \in Alarming
          /\ lastAlert = Unset
          /\ Alarm("WARN")
       \/ /\ verdict \in Alarming
          /\ lastAlert >= Heartbeat
          /\ Alarm("REMINDER")
       \/ /\ Recovered
          /\ line' = "INFO"
          /\ lastAlert' = Unset
          /\ Emit(1)
          /\ UNCHANGED <<lastForce, forcer>>
       \/ /\ \/ verdict \in Alarming /\ lastAlert # Unset /\ lastAlert < Heartbeat
             \/ verdict \notin Alarming /\ ~Recovered
          /\ UNCHANGED <<line, lastAlert, lastForce, forcer, queued>>
    /\ UNCHANGED <<client, lastMessage, firstConnected, startedAt,
                   disconnectedAt, due, stopping, flowHistory>>

-----------------------------------------------------------------------------
(* The forced-reconnect goroutine: buildForceReconnectFn, then one line.   *)

\* Mutant: the socket is not dropped before it is dialled again.
ForceInspectDialOnly ==
    /\ forcer = "issued"
    /\ forcer' = "connect"
    /\ UNCHANGED <<client, clocks, scan, queued, stopping, flowHistory>>

ForceInspect ==
    /\ forcer = "issued"
    /\ forcer' = IF IsConnectionOpen THEN "disconnect" ELSE "connect"
    /\ UNCHANGED <<client, clocks, scan, queued, stopping, flowHistory>>

\* client.Disconnect(250): immediate on an open connection, but a retry
\* loop that started meanwhile has to unwind first, for good.
ForceDisconnect ==
    /\ forcer = "disconnect"
    /\ forcer' = "connect"
    /\ link' = CASE IsConnectionOpen -> "down"
                 [] link = "retrying" -> "closing"
                 [] OTHER -> link
    /\ UNCHANGED <<connectPending, inFlight, clocks, scan, queued, stopping,
                   flowHistory>>

\* client.Connect(): starts a fresh attempt only from "down"; a no-op while
\* connected or retrying, an error token while closing.
ForceConnect ==
    /\ forcer = "connect"
    /\ forcer' = "report"
    /\ link' = IF link = "down" THEN "retrying" ELSE link
    /\ UNCHANGED <<connectPending, inFlight, clocks, scan, queued, stopping,
                   flowHistory>>

\* The goroutine's own emit: a send on a closed channel panics, and nothing
\* recovers here.
ForceReport ==
    /\ forcer = "report"
    /\ forcer' = "idle"
    /\ crashed' = closed
    /\ IF closed THEN UNCHANGED queued ELSE Emit(1)
    /\ UNCHANGED <<client, clocks, scan, done, closed, flowHistory>>

-----------------------------------------------------------------------------
(* Shutdown: stop the ticker, close done, wait for the loop, close the log *)
(* queue.                                                                  *)

StopWatchdog ==
    /\ loop # "unstarted"
    /\ ~done
    /\ done' = TRUE
    /\ UNCHANGED <<client, clocks, scan, forcer, queued, closed, crashed,
                   flowHistory>>

\* The loop's select takes the done arm; a tick may be waiting as well.
LoopExit ==
    /\ loop = "wait"
    /\ done
    /\ loop' = "exited"
    /\ due' = FALSE
    /\ UNCHANGED <<client, clocks, verdict, line, forcer, queued, stopping,
                   flowHistory>>

\* Mutant: the queue is closed without waiting for the loop.
LoopReturnedUnchecked == done

LoopReturned == loop = "exited"

StopEmit ==
    /\ LoopReturned
    /\ ~closed
    /\ closed' = TRUE
    /\ UNCHANGED <<client, clocks, scan, forcer, queued, done, crashed,
                   flowHistory>>

Network == ConnectionLost \/ GoHalfOpen \/ GiveUp \/ Connected \/ Settle
Messages == MarkReconnected \/ ReceiveMessage \/ HandleMessage
Loop == StartWatchdog \/ Check \/ Escalate \/ Transition
Forcing == ForceInspect \/ ForceDisconnect \/ ForceConnect \/ ForceReport
Shutdown == StopWatchdog \/ LoopExit \/ StopEmit

WatchdogNext ==
    /\ ~crashed
    /\ Network \/ Messages \/ TimePasses \/ Loop \/ Forcing \/ WriteLine \/ Shutdown

WatchdogSpec == WatchdogInit /\ [][WatchdogNext]_watchdogVars

\* Time goes on and the goroutines are scheduled.  Nothing is assumed of
\* the broker, of paho's own recovery, of the log sink or of the messages.
Fairness ==
    /\ WF_watchdogVars(TimePasses)
    /\ WF_watchdogVars(Loop)
    /\ WF_watchdogVars(Forcing)
    /\ WF_watchdogVars(Settle)

WatchdogFairSpec == WatchdogSpec /\ Fairness

-----------------------------------------------------------------------------
(* Properties.                                                             *)

\* The ages stay within the bounds they are compared with, and the
\* goroutines where they can be.
LivenessTypeOK ==
    /\ link \in Links
    /\ connectPending \in BOOLEAN
    /\ inFlight \in BOOLEAN
    /\ lastMessage \in {Unset} \cup 0..Threshold
    /\ firstConnected \in 0..Threshold
    /\ startedAt \in 0..Gap
    /\ lastAlert \in {Unset} \cup 0..Heartbeat
    /\ lastForce \in {Unset} \cup 0..Throttle
    /\ disconnectedAt \in {Unset} \cup 0..Gap
    /\ loop \in {"unstarted", "wait", "checked", "escalated", "exited"}
    /\ due \in BOOLEAN
    /\ verdict \in Alarming \cup {"none", "OK", "Disconnected"}
    /\ line \in {"none", "WARN", "REMINDER", "INFO"}
    /\ forcer \in {"idle", "issued", "disconnect", "connect", "report"}
    /\ queued \in 0..QueueCap
    /\ done \in BOOLEAN
    /\ closed \in BOOLEAN
    /\ crashed \in BOOLEAN
    /\ handled \in BOOLEAN
    /\ lastFlow \in 0..Threshold
    /\ flowed \in BOOLEAN

\* The recovery INFO of processLivenessTransition is true: a message was
\* handled after the verdict that raised the alarm, however often the
\* connection dropped and came back in between.
RecoveryIsReal == line = "INFO" => flowed

\* Broker flap cannot silence the watchdog: a scan that finds the client
\* connected calls it OK only if a message was handled, or the source was
\* registered, less than Threshold ago (FirstConnectedAt is never reset).
FlapCannotSilence ==
    [][loop = "wait" /\ loop' = "checked" /\ verdict' = "OK"
        => lastFlow < Threshold]_watchdogVars

\* maybeEscalateDisconnected forces a reconnect on a lasting outage, never
\* on a flap: the last OnConnect is at least Gap old.
EscalationMeansOutage ==
    [][loop = "checked" /\ forcer = "idle" /\ forcer' = "issued"
        => startedAt >= Gap]_watchdogVars

\* Whichever path asks for it, two forced reconnects are Throttle apart.
ForceThrottled ==
    [][forcer # "issued" /\ forcer' = "issued" =>
            lastForce = Unset \/ lastForce >= Throttle]_watchdogVars

\* stop() closes the log queue only when the loop can no longer emit.
LoopGoneBeforeClose == closed => loop = "exited"

\* A stuck log sink never wedges the watchdog: every tick is followed by a
\* complete scan although the writer goroutine may never run.
NeverWedged == due ~> (loop \in {"wait", "exited"} /\ ~due)

\* A half-open socket on which messages had been handled is dropped.
StalledReconnects ==
    (link = "halfOpen" /\ lastMessage # Unset /\ ~connectPending)
        ~> (link # "halfOpen" \/ done)

\* A client on which nobody retries any more, because paho gave up or a
\* forced reconnect hit a retry, is redialled in the end.
OutageRedialled == (link \in {"down", "closing"}) ~> (link = "retrying" \/ done)

\* A half-open socket is always noticed, whether or not it is redialled.
SilenceNoticed ==
    (link = "halfOpen") ~> (link # "halfOpen" \/ lastAlert # Unset \/ done)

-----------------------------------------------------------------------------
(* What comments of the code say and the code does not do.                 *)

\* The ForceReconnectFn comment: forced reconnects make the
\* stall, reconnect, re-stall loop recover by itself.
RestallRecovers ==
    (link = "halfOpen" /\ ~connectPending) ~> (link # "halfOpen" \/ done)

\* checkSourceLiveness: LastMessageUnix = 0 means that the source has never
\* published a message.
NeverMeansNever == loop = "checked" /\ verdict = "NeverReceived" => ~handled

\* runLivenessWatchdog's stop: no emit meets a closed queue.
NoSendOnClosedQueue == ~crashed

(* A recovery line means that a message was handled since the alarming
   verdict, and stop() closes the log queue only after the loop has returned. *)
RecoverySound ==
    /\ LivenessTypeOK
    /\ RecoveryIsReal
    /\ LoopGoneBeforeClose

(* No flapping connection silences the watchdog, an escalation means an
   outage, and forced reconnects keep their distance. *)
StepsSound ==
    /\ FlapCannotSilence
    /\ EscalationMeansOutage
    /\ ForceThrottled

(* The loop never wedges, and stalls, outages and silences are acted on in
   the end. *)
OutagesAnswered ==
    /\ NeverWedged
    /\ StalledReconnects
    /\ OutageRedialled
    /\ SilenceNoticed
=============================================================================
