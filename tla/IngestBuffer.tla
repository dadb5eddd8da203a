---------------------------- MODULE IngestBuffer ----------------------------
(***************************************************************************)
(* cmd/ingestor/ingest_buffer.go: the bounded FIFO between the MQTT        *)
(* delivery goroutines (one per source, here the producers) and the single *)
(* consumer goroutine that owns the SQLite write path.                     *)
(*                                                                         *)
(* A Go channel operation is atomic.  The drop log is not part of it: its  *)
(* mutex is taken after the channel operation, so other producers run in   *)
(* between.  pc[p] is where producer p stands inside Submit.               *)
(***************************************************************************)
EXTENDS Integers, Sequences

CONSTANTS
    Producers,    \* the MQTT sources; each delivers its messages in order
    Capacity,     \* ingestBufferSize, as configured
    MaxMsgs       \* bound: messages a source delivers

ASSUME CapacityAssumption == Capacity \in Int
ASSUME MaxMsgsAssumption == MaxMsgs \in Nat

\* A job is the closure Submit gets for the seq-th message of source src.
Job == [src : Producers, seq : 1..MaxMsgs]

\* NewIngestBuffer: a capacity below one is clamped to one.
Cap == IF Capacity < 1 THEN 1 ELSE Capacity

VARIABLES
    jobs,            \* the buffered channel
    ready, stop,     \* the two signal channels: TRUE once closed
    consumer,        \* where the goroutine of Start stands
    running,         \* the job being executed: a sequence of length at most 1
    dropped,         \* the atomic drop counter
    pc,              \* producer -> "idle" | "accepted" | "refused"
    ticket,          \* producer -> the n it got from dropped.Add(1)
    stallActive,     \* the drop-log state guarded by dropLogMu
    stallStartDrop,
    sent,            \* producer -> number of Submit calls made
    accepted,        \* history: jobs put into the channel, in order
    executed,        \* history: jobs run to completion, in order
    recovered        \* history: sum of the drop counts of the recovery lines

channel == <<jobs, ready, stop, consumer, running>>
logState == <<stallActive, stallStartDrop, recovered>>
history == <<accepted, executed>>
vars == <<channel, dropped, pc, ticket, logState, sent, history>>

Init ==
    /\ jobs = <<>>
    /\ ready = FALSE
    /\ stop = FALSE
    /\ consumer = "unstarted"
    /\ running = <<>>
    /\ dropped = 0
    /\ pc = [p \in Producers |-> "idle"]
    /\ ticket = [p \in Producers |-> 0]
    /\ stallActive = FALSE
    /\ stallStartDrop = 0
    /\ sent = [p \in Producers |-> 0]
    /\ accepted = <<>>
    /\ executed = <<>>
    /\ recovered = 0

-----------------------------------------------------------------------------
(* Submit: the non-blocking send, then one of the two log calls.           *)

NextJob(p) == [src |-> p, seq |-> sent[p] + 1]

\* Submit is called only by a source goroutine that is not inside Submit.
\* main calls Start before it connects any source.
CanSubmit(p) ==
    /\ consumer # "unstarted"
    /\ pc[p] = "idle"
    /\ sent[p] < MaxMsgs

\* Mutant: the channel takes one job more than its capacity.
HasRoomOffByOne == Len(jobs) <= Cap

HasRoom == Len(jobs) < Cap

SubmitAccept(p) ==
    /\ CanSubmit(p)
    /\ HasRoom
    /\ jobs' = Append(jobs, NextJob(p))
    /\ accepted' = Append(accepted, NextJob(p))
    /\ sent' = [sent EXCEPT ![p] = @ + 1]
    /\ pc' = [pc EXCEPT ![p] = "accepted"]
    /\ UNCHANGED <<ready, stop, consumer, running, dropped, ticket, logState,
                   executed>>

\* Mutant: a refused job is not counted.
SubmitRefuseUncounted(p) ==
    /\ CanSubmit(p)
    /\ ~HasRoom
    /\ ticket' = [ticket EXCEPT ![p] = dropped + 1]
    /\ sent' = [sent EXCEPT ![p] = @ + 1]
    /\ pc' = [pc EXCEPT ![p] = "refused"]
    /\ UNCHANGED <<channel, dropped, logState, history>>

SubmitRefuse(p) ==
    /\ CanSubmit(p)
    /\ ~HasRoom
    /\ dropped' = dropped + 1
    /\ ticket' = [ticket EXCEPT ![p] = dropped + 1]
    /\ sent' = [sent EXCEPT ![p] = @ + 1]
    /\ pc' = [pc EXCEPT ![p] = "refused"]
    /\ UNCHANGED <<channel, logState, history>>

\* maybeLogRecovery: reads the counter now, not when the stall ended.
MaybeLogRecovery(p) ==
    /\ pc[p] = "accepted"
    /\ pc' = [pc EXCEPT ![p] = "idle"]
    /\ stallActive' = FALSE
    /\ recovered' = IF stallActive
                    THEN recovered + (dropped - stallStartDrop)
                    ELSE recovered
    /\ UNCHANGED <<channel, dropped, ticket, stallStartDrop, sent, history>>

\* logDrop(n): opens a stall unless one is open.  The once-a-second summary
\* line changes no state but its own timestamp and is left out.
LogDrop(p) ==
    /\ pc[p] = "refused"
    /\ pc' = [pc EXCEPT ![p] = "idle"]
    /\ stallActive' = TRUE
    /\ stallStartDrop' = IF stallActive THEN stallStartDrop ELSE ticket[p] - 1
    /\ UNCHANGED <<channel, dropped, ticket, recovered, sent, history>>

-----------------------------------------------------------------------------
(* The lifecycle calls.  Each is guarded by its sync.Once.                 *)

Start ==
    /\ consumer = "unstarted"
    /\ consumer' = "gate"
    /\ UNCHANGED <<jobs, ready, stop, running, dropped, pc, ticket, logState,
                   sent, history>>

Ready ==
    /\ ~ready
    /\ ready' = TRUE
    /\ UNCHANGED <<jobs, stop, consumer, running, dropped, pc, ticket,
                   logState, sent, history>>

Stop ==
    /\ ~stop
    /\ stop' = TRUE
    /\ UNCHANGED <<jobs, ready, consumer, running, dropped, pc, ticket,
                   logState, sent, history>>

-----------------------------------------------------------------------------
(* The consumer goroutine.  A Go select whose arms are both ready picks    *)
(* either, so each arm is an action with its own guard.                    *)

outside == <<dropped, pc, ticket, logState, sent>>

\* Mutant: the consumer does not wait for Ready.
GateOpenUnchecked ==
    /\ consumer = "gate"
    /\ consumer' = "loop"
    /\ UNCHANGED <<jobs, ready, stop, running, outside, history>>

\* The first select: wait for Ready ...
GateOpen ==
    /\ consumer = "gate"
    /\ ready
    /\ consumer' = "loop"
    /\ UNCHANGED <<jobs, ready, stop, running, outside, history>>

\* ... or for Stop, which abandons what is queued; when Ready and Stop are
\* both closed the select may still take this arm.
GateStopped ==
    /\ consumer = "gate"
    /\ stop
    /\ consumer' = "done"
    /\ UNCHANGED <<jobs, ready, stop, running, outside, history>>

\* Mutant: the job is read without being taken off the queue.
ReceivePeek ==
    /\ consumer \in {"loop", "drain"}
    /\ running = <<>>
    /\ jobs # <<>>
    /\ running' = <<Head(jobs)>>
    /\ UNCHANGED <<jobs, ready, stop, consumer, outside, history>>

\* Mutant: the newest job is taken first.
ReceiveNewest ==
    /\ consumer \in {"loop", "drain"}
    /\ running = <<>>
    /\ jobs # <<>>
    /\ running' = <<jobs[Len(jobs)]>>
    /\ jobs' = SubSeq(jobs, 1, Len(jobs) - 1)
    /\ UNCHANGED <<ready, stop, consumer, outside, history>>

\* Receive one job, in the main loop or in the shutdown drain.
Receive ==
    /\ consumer \in {"loop", "drain"}
    /\ running = <<>>
    /\ jobs # <<>>
    /\ running' = <<Head(jobs)>>
    /\ jobs' = Tail(jobs)
    /\ UNCHANGED <<ready, stop, consumer, outside, history>>

\* job() returns.
Finish ==
    /\ running # <<>>
    /\ executed' = executed \o running
    /\ running' = <<>>
    /\ UNCHANGED <<jobs, ready, stop, consumer, outside, accepted>>

\* Mutant: the main loop has a default arm and leaves when it is idle.
BeginDrainIdle ==
    /\ consumer = "loop"
    /\ running = <<>>
    /\ jobs = <<>>
    /\ consumer' = "drain"
    /\ UNCHANGED <<jobs, ready, stop, running, outside, history>>

\* The stop arm of the main loop.
BeginDrain ==
    /\ consumer = "loop"
    /\ running = <<>>
    /\ stop
    /\ consumer' = "drain"
    /\ UNCHANGED <<jobs, ready, stop, running, outside, history>>

\* Mutant: the drain returns without looking at the queue.
EndDrainUnchecked ==
    /\ consumer = "drain"
    /\ running = <<>>
    /\ consumer' = "done"
    /\ UNCHANGED <<jobs, ready, stop, running, outside, history>>

\* The default arm of the drain: nothing is queued at this instant.
EndDrain ==
    /\ consumer = "drain"
    /\ running = <<>>
    /\ jobs = <<>>
    /\ consumer' = "done"
    /\ UNCHANGED <<jobs, ready, stop, running, outside, history>>

Consume == GateOpen \/ GateStopped \/ Receive \/ Finish \/ BeginDrain \/ EndDrain

Log(p) == MaybeLogRecovery(p) \/ LogDrop(p)

Submit(p) == SubmitAccept(p) \/ SubmitRefuse(p)

Next ==
    \/ \E p \in Producers : Submit(p) \/ Log(p)
    \/ Start \/ Ready \/ Stop
    \/ Consume

\* Stop is called by tests only, and Ready only once the migrations are done,
\* so neither is fair here; goroutines that can run do run.
Spec == Init /\ [][Next]_vars

FairSpec ==
    /\ Spec
    /\ WF_vars(Consume)
    /\ \A p \in Producers : WF_vars(Log(p))

-----------------------------------------------------------------------------
(* Properties                                                              *)

\* The channel holds no more than its clamped capacity and one job runs at a
\* time (the single consumer owns the write path).
TypeOK ==
    /\ jobs \in Seq(Job) /\ Len(jobs) <= Cap
    /\ ready \in BOOLEAN /\ stop \in BOOLEAN
    /\ consumer \in {"unstarted", "gate", "loop", "drain", "done"}
    /\ running \in Seq(Job) /\ Len(running) <= 1
    /\ dropped \in Nat
    /\ pc \in [Producers -> {"idle", "accepted", "refused"}]
    /\ ticket \in [Producers -> Nat]
    /\ stallActive \in BOOLEAN /\ stallStartDrop \in Int
    /\ sent \in [Producers -> 0..MaxMsgs]
    /\ accepted \in Seq(Job) /\ executed \in Seq(Job)
    /\ recovered \in Int

\* Nothing the channel took is lost, duplicated or reordered: what was
\* accepted is what ran, then what runs, then what waits.  (Type comment of
\* IngestBuffer: bounded FIFO, "it introduces NO duplicates".)
NoLossNoDup == accepted = executed \o running \o jobs

\* Messages of one source are executed in the order it delivered them, each
\* at most once, whatever the other sources and the drops do in between.
SourceOrder ==
    \A i, j \in 1..Len(executed) :
        i < j /\ executed[i].src = executed[j].src
            => executed[i].seq < executed[j].seq

\* No job touches the write path before Ready authorised it (#1608), also
\* when Stop and Ready race at the gate.
GateHolds == running # <<>> \/ executed # <<>> => ready

\* The inductive forms of the two: the order already holds of what was
\* accepted and no accepted job is newer than its source's counter; a consumer
\* past the gate has seen Ready.
AcceptedOrder ==
    /\ \A i, j \in 1..Len(accepted) :
           i < j /\ accepted[i].src = accepted[j].src
               => accepted[i].seq < accepted[j].seq
    /\ \A i \in 1..Len(accepted) : accepted[i].seq <= sent[accepted[i].src]

GateInv == consumer \in {"loop", "drain"} \/ running # <<>> \/ executed # <<>>
               => ready

\* A consumer that got past the gate leaves nothing behind: at the moment it
\* returns, every accepted job has run.
GracefulExit ==
    [][consumer' = "done" /\ consumer \in {"loop", "drain"}
           => executed' = accepted']_vars

\* Once the write path is available and nobody stops the buffer, every
\* accepted job is eventually executed.
EventuallyExecuted ==
    \A j \in Job :
        (\E i \in 1..Len(accepted) : accepted[i] = j) /\ ready
            ~> (\E i \in 1..Len(executed) : executed[i] = j) \/ stop

\* The Submit comment: the recovery line is there "so operators can quantify
\* the burst", so the lines together never report more drops than happened.
RecoveryLinesCount == recovered <= dropped

(* Between Submit and the database no message is lost, repeated or
   overtaken by a later one of its source, and none runs before Ready. *)
DeliveryExact ==
    /\ TypeOK
    /\ NoLossNoDup
    /\ SourceOrder
    /\ GateHolds
=============================================================================
