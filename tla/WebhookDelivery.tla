---------------------------- MODULE WebhookDelivery ----------------------------
(***************************************************************************)
(* Webhooks: from a bus event to the delivery of its HTTP requests.        *)
(*                                                                         *)
(* A bridge (internal/webhook/bus_bridge.go) subscribes to the event bus   *)
(* and dispatches each event to the webhooks it matches.  The manager      *)
(* (manager.go) keeps a bounded queue that drops its oldest delivery, a    *)
(* pool of workers, a list of deliveries to retry with a goroutine of its  *)
(* own, and a bounded list of dead letters.  Closing the bridge stops all  *)
(* of it while handlers, requests and retries are under way.               *)
(*                                                                         *)
(* The clock is abstract: any delivery of the retry list may be due, and   *)
(* the ten seconds that Stop waits may pass at any moment.                 *)
(***************************************************************************)
EXTENDS Integers, FiniteSets, Sequences

CONSTANTS
    Event,            \* bound: events published while the bridge lives
    Webhook,
    Matches,          \* which enabled webhooks an event is for
    Worker,
    QueueSize,
    DeadLetterLimit,
    MaxRetries,       \* attempts of a delivery, by webhook: 1 where retries are disabled
    Processor,        \* the goroutine of retryProcessor
    NoDelivery

ASSUME WebhookAssumption ==
    /\ Matches \in [Event -> SUBSET Webhook]
    /\ MaxRetries \in [Webhook -> Nat \ {0}]
    /\ {QueueSize, DeadLetterLimit} \subseteq Nat \ {0}
    /\ Processor \notin Worker
    /\ NoDelivery \notin Event \X Webhook

Delivery == Event \X Webhook
Sender == Worker \cup {Processor}    \* the goroutines that call processDelivery

VARIABLES
    subscribed,   \* is the bridge's handler on the bus?
    handler,      \* the handler goroutine of an event: [pc, todo, cur]
    queue,        \* the channel of deliveries
    retryQueue,   \* deliveries that wait for another attempt
    sender,       \* Sender -> [pc, cur]: what a goroutine is doing
    ready,        \* due deliveries that the retry processor took off the list
    abandoned,    \* retries that Stop took off the list
    attempt,      \* Delivery -> attempts begun
    deadLetters,  \* sequence, oldest first
    pending,      \* the counter that Stop waits for
    started, stopping, canceled,
    stop,         \* the phase of Stop
    overran,      \* did Stop give up waiting for pending work?
    fate,         \* history: how a delivery ended, "open" if it did not yet
    late          \* history: deliveries queued after Stop began

lifecycle == <<subscribed, started, stopping, canceled, stop, overran>>
vars == <<handler, queue, retryQueue, sender, ready, abandoned, attempt,
          deadLetters, pending, fate, late, lifecycle>>

Idle == [pc |-> "idle", cur |-> NoDelivery]
Off  == [pc |-> "off",  cur |-> NoDelivery]

Init == /\ subscribed = TRUE /\ started = TRUE /\ stopping = FALSE /\ canceled = FALSE
        /\ stop = "running" /\ overran = FALSE
        /\ handler = [e \in Event |-> [pc |-> "unpublished", todo |-> {}, cur |-> NoDelivery]]
        /\ queue = <<>> /\ retryQueue = {} /\ ready = {} /\ abandoned = {}
        /\ sender = [s \in Sender |-> Idle]
        /\ attempt = [d \in Delivery |-> 0]
        /\ deadLetters = <<>>
        /\ pending = 0
        /\ fate = [d \in Delivery |-> "none"]
        /\ late = {}

Queued == {queue[i] : i \in DOMAIN queue}
ListIsFree == sender[Processor].pc # "deciding"     \* retryQueueMu

\* completePendingDelivery
OneLess(n) == IF n > 0 THEN n - 1 ELSE 0

\* Mutant: the limit of the list is forgotten.
KeepLetters(letters, d) == Append(letters, d)

\* addToDeadLetter
AddDeadLetter(letters, d) ==
    LET kept == IF Len(letters) >= DeadLetterLimit THEN Tail(letters) ELSE letters
    IN  Append(kept, d)

-----------------------------------------------------------------------------
(* The bus and Dispatch.                                                   *)

\* Publish copies the list of handlers; the handler runs afterwards, whatever
\* unsubscribe has done meanwhile.
Publish(e) ==
    /\ handler[e].pc = "unpublished"
    /\ handler' = [handler EXCEPT ![e].pc = IF subscribed THEN "called" ELSE "done"]
    /\ UNCHANGED <<queue, retryQueue, sender, ready, abandoned, attempt,
                   deadLetters, pending, fate, late, lifecycle>>

\* Dispatch reads the started flag once, and lists the webhooks.
DispatchBegins(e) ==
    /\ handler[e].pc = "called"
    /\ handler' = [handler EXCEPT ![e] =
           IF started /\ Matches[e] # {}
           THEN [@ EXCEPT !.pc = "queueing", !.todo = Matches[e]]
           ELSE [@ EXCEPT !.pc = "done"]]
    /\ UNCHANGED <<queue, retryQueue, sender, ready, abandoned, attempt,
                   deadLetters, pending, fate, late, lifecycle>>

HandlerAfter(e, d) ==
    LET rest == handler[e].todo \ {d[2]}
    IN  [pc |-> IF rest = {} THEN "done" ELSE "queueing", todo |-> rest, cur |-> NoDelivery]

\* Mutant: the counter goes up with the first send only.
CountedIfQueued(n) == IF Len(queue) < QueueSize THEN n + 1 ELSE n

Counted(n) == n + 1

\* The first, non-blocking send; the counter goes up before it.
Enqueue(e) ==
    /\ handler[e].pc = "queueing"
    /\ \E w \in handler[e].todo :
        LET d == <<e, w>> IN
        /\ pending' = Counted(pending)
        /\ fate' = [fate EXCEPT ![d] = "open"]
        /\ late' = IF started THEN late ELSE late \cup {d}
        /\ IF Len(queue) < QueueSize
           THEN /\ queue' = Append(queue, d)
                /\ handler' = [handler EXCEPT ![e] = HandlerAfter(e, d)]
           ELSE /\ handler' = [handler EXCEPT ![e].pc = "full", ![e].cur = d]
                /\ UNCHANGED queue
    /\ UNCHANGED <<retryQueue, sender, ready, abandoned, attempt, deadLetters, lifecycle>>

\* The queue was full: drop its oldest delivery, if no worker emptied it first.
DropOldest(e) ==
    /\ handler[e].pc = "full"
    /\ handler' = [handler EXCEPT ![e].pc = "again"]
    /\ IF queue = <<>>
       THEN UNCHANGED <<queue, pending, fate>>
       ELSE /\ queue' = Tail(queue)
            /\ pending' = OneLess(pending)
            /\ fate' = [fate EXCEPT ![Head(queue)] = "dropped"]
    /\ UNCHANGED <<retryQueue, sender, ready, abandoned, attempt, deadLetters, late, lifecycle>>

\* The second send: if another handler took the room, the new one is dropped.
EnqueueAgain(e) ==
    /\ handler[e].pc = "again"
    /\ handler' = [handler EXCEPT ![e] = HandlerAfter(e, handler[e].cur)]
    /\ IF Len(queue) < QueueSize
       THEN /\ queue' = Append(queue, handler[e].cur)
            /\ UNCHANGED <<pending, fate>>
       ELSE /\ pending' = OneLess(pending)
            /\ fate' = [fate EXCEPT ![handler[e].cur] = "dropped"]
            /\ UNCHANGED queue
    /\ UNCHANGED <<retryQueue, sender, ready, abandoned, attempt, deadLetters, late, lifecycle>>

-----------------------------------------------------------------------------
(* processDelivery, by a worker or by the retry processor.                 *)

\* A request that starts after the context was canceled cannot succeed.
Sending(d) == [pc |-> IF canceled THEN "failing" ELSE "sending", cur |-> d]

\* What the goroutine does after a delivery: a worker goes back to its select,
\* the retry processor to its list.
Done(s) == [sender EXCEPT ![s] = Idle]

Settle(d, how) ==
    /\ pending' = OneLess(pending)
    /\ fate' = [fate EXCEPT ![d] = how]

WorkerTakes(s) ==
    /\ s \in Worker /\ sender[s] = Idle /\ queue # <<>>
    /\ sender' = [sender EXCEPT ![s] = Sending(Head(queue))]
    /\ attempt' = [attempt EXCEPT ![Head(queue)] = @ + 1]
    /\ queue' = Tail(queue)
    /\ UNCHANGED <<handler, retryQueue, ready, abandoned, deadLetters, pending, fate, late, lifecycle>>

\* The select of a worker may also choose the canceled context.
WorkerExits(s) ==
    /\ s \in Worker /\ sender[s] = Idle /\ canceled
    /\ sender' = [sender EXCEPT ![s] = Off]
    /\ UNCHANGED <<handler, queue, retryQueue, ready, abandoned, attempt,
                   deadLetters, pending, fate, late, lifecycle>>

SendSucceeds(s) ==
    /\ sender[s].pc = "sending"
    /\ sender' = Done(s)
    /\ Settle(sender[s].cur, "delivered")
    /\ UNCHANGED <<handler, queue, retryQueue, ready, abandoned, attempt, deadLetters, late, lifecycle>>

\* shouldRetry, for an answer that allows a retry (5xx, 429, no connection).
MayRetry(d) == attempt[d] < MaxRetries[d[2]] /\ ~stopping

Bury(d, s) ==
    /\ deadLetters' = AddDeadLetter(deadLetters, d)
    /\ Settle(d, "dead")
    /\ sender' = Done(s)

\* A client error, or an error that is not retried because of the limit or of Stop.
SendFails(s) ==
    /\ sender[s].pc \in {"sending", "failing"}
    /\ Bury(sender[s].cur, s)
    /\ UNCHANGED <<handler, queue, retryQueue, ready, abandoned, attempt, late, lifecycle>>

\* A retry was decided, with the stopping flag still down.
RetryDecided(s) ==
    /\ sender[s].pc \in {"sending", "failing"}
    /\ MayRetry(sender[s].cur)
    /\ sender' = [sender EXCEPT ![s].pc = "scheduling"]
    /\ UNCHANGED <<handler, queue, retryQueue, ready, abandoned, attempt,
                   deadLetters, pending, fate, late, lifecycle>>

\* Mutant: a retry is scheduled without a signal.
NotWoken(procs) == procs

\* A signal or a broadcast wakes the retry processor if it waits.
Woken(procs) == IF procs[Processor].pc = "waiting"
                THEN [procs EXCEPT ![Processor] = Idle] ELSE procs

\* scheduleRetry: append under the lock, then Signal.
ScheduleRetry(s) ==
    /\ sender[s].pc = "scheduling" /\ ListIsFree
    /\ retryQueue' = retryQueue \cup {sender[s].cur}
    /\ sender' = Woken(Done(s))
    /\ UNCHANGED <<handler, queue, ready, abandoned, attempt,
                   deadLetters, pending, fate, late, lifecycle>>

-----------------------------------------------------------------------------
(* retryProcessor.  "idle" is the top of its loop, unless it has deliveries *)
(* left to send; "deciding" holds the lock between the test of the loop    *)
(* condition and Wait; "asleep" is the timer.                              *)

ProcessorAt(pc) == sender[Processor].pc = pc
AtTop == sender[Processor] = Idle /\ ready = {}
ProcessorGoes(pc) == sender' = [sender EXCEPT ![Processor].pc = pc]
ElsewhereUnchanged == UNCHANGED <<handler, queue, abandoned, deadLetters,
                                  pending, fate, late, lifecycle>>

FindsNothing ==
    /\ AtTop /\ retryQueue = {} /\ ~canceled
    /\ ProcessorGoes("deciding")
    /\ UNCHANGED <<retryQueue, ready, attempt>> /\ ElsewhereUnchanged

Waits ==
    /\ ProcessorAt("deciding")
    /\ ProcessorGoes("waiting")
    /\ UNCHANGED <<retryQueue, ready, attempt>> /\ ElsewhereUnchanged

\* Mutant: the list still holds what was taken.
RemainsAll(due) == retryQueue

Remaining(due) == retryQueue \ due

TakesDue(due) ==
    /\ AtTop /\ ~canceled /\ due # {}
    /\ ready' = due
    /\ retryQueue' = Remaining(due)
    /\ UNCHANGED <<sender, attempt>> /\ ElsewhereUnchanged

NoneDue ==
    /\ AtTop /\ ~canceled /\ retryQueue # {}
    /\ ProcessorGoes("asleep")
    /\ UNCHANGED <<retryQueue, ready, attempt>> /\ ElsewhereUnchanged

SendsReady(d) ==
    /\ sender[Processor] = Idle /\ d \in ready
    /\ ready' = ready \ {d}
    /\ attempt' = [attempt EXCEPT ![d] = @ + 1]
    /\ sender' = [sender EXCEPT ![Processor] = Sending(d)]
    /\ UNCHANGED retryQueue /\ ElsewhereUnchanged

TimerFires ==
    /\ ProcessorAt("asleep")
    /\ ProcessorGoes("idle")
    /\ UNCHANGED <<retryQueue, ready, attempt>> /\ ElsewhereUnchanged

ProcessorExits ==
    /\ canceled /\ (AtTop \/ ProcessorAt("asleep"))
    /\ sender' = [sender EXCEPT ![Processor] = Off]
    /\ UNCHANGED <<retryQueue, ready, attempt>> /\ ElsewhereUnchanged

-----------------------------------------------------------------------------
(* Close and Stop.                                                         *)

WorkUnchanged == UNCHANGED <<handler, queue, ready, attempt, late>>

Unsubscribe ==
    /\ stop = "running"
    /\ stop' = "unsubscribed" /\ subscribed' = FALSE
    /\ UNCHANGED <<retryQueue, sender, abandoned, deadLetters, pending, fate,
                   started, stopping, canceled, overran>> /\ WorkUnchanged

StopBegins ==
    /\ stop = "unsubscribed"
    /\ stop' = "abandoning" /\ started' = FALSE /\ stopping' = TRUE
    /\ UNCHANGED <<retryQueue, sender, abandoned, deadLetters, pending, fate,
                   subscribed, canceled, overran>> /\ WorkUnchanged

\* abandonPendingRetries takes the list under the lock, and buries it.
AbandonRetries ==
    /\ stop = "abandoning" /\ ListIsFree
    /\ stop' = "burying"
    /\ abandoned' = retryQueue /\ retryQueue' = {}
    /\ UNCHANGED <<sender, deadLetters, pending, fate,
                   subscribed, started, stopping, canceled, overran>> /\ WorkUnchanged

BuryAbandoned(d) ==
    /\ stop = "burying" /\ d \in abandoned
    /\ abandoned' = abandoned \ {d}
    /\ deadLetters' = AddDeadLetter(deadLetters, d)
    /\ Settle(d, "dead")
    /\ UNCHANGED <<retryQueue, sender, lifecycle>> /\ WorkUnchanged

\* The loop that waits for pending work ends with it, or after ten seconds.
Drained ==
    /\ stop = "burying" /\ abandoned = {}
    /\ stop' = "drained"
    /\ overran' = (pending > 0)
    /\ UNCHANGED <<retryQueue, sender, abandoned, deadLetters, pending, fate,
                   subscribed, started, stopping, canceled>> /\ WorkUnchanged

Cancel ==
    /\ stop = "drained"
    /\ stop' = "canceled" /\ canceled' = TRUE
    /\ UNCHANGED <<retryQueue, sender, abandoned, deadLetters, pending, fate,
                   subscribed, started, stopping, overran>> /\ WorkUnchanged

\* Broadcast, without the lock.
Broadcast ==
    /\ stop = "canceled"
    /\ stop' = "broadcast" /\ sender' = Woken(sender)
    /\ UNCHANGED <<retryQueue, abandoned, deadLetters, pending, fate,
                   subscribed, started, stopping, canceled, overran>> /\ WorkUnchanged

\* Stop returns when every goroutine has exited, or with a time-out error.
AllExited == \A s \in Sender : sender[s].pc = "off"
StopReturns ==
    /\ stop = "broadcast"
    /\ stop' = IF AllExited THEN "stopped" ELSE "timed out"
    /\ UNCHANGED <<retryQueue, sender, abandoned, deadLetters, pending, fate,
                   subscribed, started, stopping, canceled, overran>> /\ WorkUnchanged

-----------------------------------------------------------------------------
HandlerStep(e) == DispatchBegins(e) \/ Enqueue(e) \/ DropOldest(e) \/ EnqueueAgain(e)
Answered(s) == SendSucceeds(s) \/ SendFails(s) \/ RetryDecided(s)
ProcessorStep == \/ FindsNothing \/ Waits \/ NoneDue \/ TimerFires \/ ProcessorExits
                 \/ \E d \in Delivery : SendsReady(d)
StopStep == \/ StopBegins \/ AbandonRetries \/ Drained \/ Cancel \/ Broadcast \/ StopReturns
            \/ \E d \in Delivery : BuryAbandoned(d)

Next == \/ \E e \in Event : Publish(e) \/ HandlerStep(e)
        \/ \E s \in Sender : WorkerTakes(s) \/ WorkerExits(s) \/ Answered(s) \/ ScheduleRetry(s)
        \/ ProcessorStep
        \/ \E due \in SUBSET retryQueue : TakesDue(due)
        \/ Unsubscribe \/ StopStep

\* Goroutines run, requests end (they have a time-out), Stop goes on, and a
\* delivery that keeps waiting for its retry becomes due.
Fairness == /\ \A e \in Event : WF_vars(HandlerStep(e))
            /\ \A s \in Sender : WF_vars(WorkerTakes(s) \/ WorkerExits(s) \/ Answered(s) \/ ScheduleRetry(s))
            /\ WF_vars(ProcessorStep) /\ WF_vars(StopStep)
            /\ \A d \in Delivery : SF_vars(d \in retryQueue /\ TakesDue(retryQueue))

Spec == Init /\ [][Next]_vars /\ Fairness

-----------------------------------------------------------------------------
(* Properties.                                                             *)

TypeOK ==
    /\ handler \in [Event -> [pc   : {"unpublished", "called", "queueing", "full", "again", "done"},
                             todo : SUBSET Webhook, cur : Delivery \cup {NoDelivery}]]
    /\ queue \in Seq(Delivery) /\ Len(queue) <= QueueSize
    /\ {retryQueue, ready, abandoned, late} \subseteq SUBSET Delivery
    /\ sender \in [Sender -> [pc : {"idle", "sending", "failing", "scheduling", "deciding",
                                   "waiting", "asleep", "off"},
                             cur : Delivery \cup {NoDelivery}]]
    /\ \A d \in Delivery : attempt[d] \in 0..MaxRetries[d[2]]
    /\ deadLetters \in Seq(Delivery) /\ Len(deadLetters) <= DeadLetterLimit
    /\ pending \in Nat
    /\ {subscribed, started, stopping, canceled, overran} \subseteq BOOLEAN
    /\ stop \in {"running", "unsubscribed", "abandoning", "burying", "drained", "canceled",
                 "broadcast", "stopped", "timed out"}
    /\ fate \in [Delivery -> {"none", "open", "delivered", "dropped", "dead"}]

Open == {d \in Delivery : fate[d] = "open"}

\* In how many places a delivery is.
Copies(d) == Cardinality({i \in DOMAIN queue : queue[i] = d})
           + Cardinality({s \in Sender : sender[s].cur = d})
           + Cardinality({e \in Event : handler[e].cur = d})
           + Cardinality({p \in {"retry", "ready", "abandoned"} :
                            d \in (CASE p = "retry" -> retryQueue [] p = "ready" -> ready
                                      [] p = "abandoned" -> abandoned)})

(* A delivery that Dispatch accepted is in exactly one place until it is    *)
(* delivered, dropped or a dead letter, and in none afterwards; the counter *)
(* that Stop waits for counts these deliveries.  A copy too many is a       *)
(* request sent twice, a place too few an event lost without a trace, and a *)
(* wrong counter a Stop that waits for nothing or for too little.           *)
EachDeliveryIsInOnePlace ==
    /\ \A d \in Delivery : Copies(d) = IF d \in Open THEN 1 ELSE 0
    /\ pending = Cardinality(Open)

(* A Stop whose wait was not cut short has seen the end of every delivery    *)
(* that was queued while the manager was started; only a handler that read   *)
(* the started flag before Stop can leave one behind.                        *)
PatientStopSettlesAll ==
    stop \in {"drained", "canceled", "broadcast", "stopped", "timed out"} /\ ~overran
        => Open \subseteq late

(* Every delivery is settled in the end as long as the manager runs: no      *)
(* schedule leaves the retry processor asleep with deliveries to retry.      *)
OpenDeliveriesEnd == \A d \in Delivery : d \in Open ~> d \notin Open \/ ~started

(* What Stop says of its broadcast: "Signal retry processor to wake up and   *)
(* exit."                                                                    *)
CanceledGoroutinesExit == canceled ~> AllExited
================================================================================
