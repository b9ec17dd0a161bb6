------------------------- MODULE WebhookDeliveryProofs -------------------------
(***************************************************************************)
(* Proofs about WebhookDelivery, for any events, webhooks, workers and     *)
(* limits.  The places where a delivery can be (the queue, the hands of a  *)
(* bus handler or of a sending goroutine, the retry list, the due ones,    *)
(* the abandoned ones) are sets: the invariant says that they are disjoint *)
(* and that together they are the open deliveries (PlacesInv), which the   *)
(* counter counts (CountInv); the other parts say what a handler, a sender *)
(* and Stop rely on when they move a delivery.                             *)
(***************************************************************************)
EXTENDS WebhookDelivery, FiniteSetTheorems, SequenceTheorems, TLAPS

\* The deliveries in the hands of some goroutines, and that no two hold the same.
Cur(f) == {f[i].cur : i \in DOMAIN f} \ {NoDelivery}
Distinct(f) == \A i, j \in DOMAIN f : f[i].cur = f[j].cur /\ f[i].cur # NoDelivery => i = j

Elements(q) == {q[i] : i \in DOMAIN q}
NoRepeat(q) == \A i, j \in DOMAIN q : q[i] = q[j] => i = j

HandlerState == [pc   : {"unpublished", "called", "queueing", "full", "again", "done"},
                 todo : SUBSET Webhook, cur : Delivery \cup {NoDelivery}]
SenderState == [pc  : {"idle", "sending", "failing", "scheduling", "deciding", "waiting", "asleep", "off"},
                cur : Delivery \cup {NoDelivery}]

\* Each open delivery is in exactly one place.
PlacesInv ==
    /\ NoRepeat(queue) /\ Distinct(handler) /\ Distinct(sender)
    /\ Queued \cap (Cur(handler) \cup Cur(sender) \cup retryQueue \cup ready \cup abandoned) = {}
    /\ Cur(handler) \cap (Cur(sender) \cup retryQueue \cup ready \cup abandoned) = {}
    /\ Cur(sender) \cap (retryQueue \cup ready \cup abandoned) = {}
    /\ retryQueue \cap (ready \cup abandoned) = {}
    /\ ready \cap abandoned = {}
    /\ Open = Queued \cup Cur(handler) \cup Cur(sender) \cup retryQueue \cup ready \cup abandoned

CountInv == IsFiniteSet(Open) /\ pending = Cardinality(Open)

\* What a handler has yet to queue was never queued.
HandlerInv(e) ==
    /\ handler[e].pc \in {"full", "again"} <=> handler[e].cur # NoDelivery
    /\ handler[e].cur # NoDelivery => handler[e].cur[1] = e
    /\ handler[e].pc \in {"unpublished", "called"} => \A w \in Webhook : fate[<<e, w>>] = "none"
    /\ \A w \in handler[e].todo : fate[<<e, w>>] = "none" \/ handler[e].cur = <<e, w>>

SenderInv(s) ==
    /\ sender[s].pc \in {"sending", "failing", "scheduling"} <=> sender[s].cur # NoDelivery
    /\ sender[s].pc = "scheduling" => attempt[sender[s].cur] < MaxRetries[sender[s].cur[2]]

\* A delivery that is queued was not attempted; one that waits may be attempted again.
AttemptInv ==
    /\ attempt \in [Delivery -> Nat]
    /\ \A d \in Delivery : fate[d] = "none" \/ d \in Queued \cup Cur(handler) => attempt[d] = 0
    /\ \A d \in retryQueue \cup ready : attempt[d] < MaxRetries[d[2]]

StopInv ==
    /\ abandoned # {} => stop = "burying"
    /\ stop \notin {"running", "unsubscribed"} => ~started
    /\ PatientStopSettlesAll

IInv ==
    /\ TypeOK /\ PlacesInv /\ CountInv /\ AttemptInv /\ StopInv
    /\ \A e \in Event : HandlerInv(e)
    /\ \A s \in Sender : SenderInv(s)

-----------------------------------------------------------------------------
(***************************************************************************)
(* Places.                                                                 *)
(***************************************************************************)

\* A queued delivery is behind all others.
LEMMA AppendPlace ==
    ASSUME NEW q \in Seq(Delivery), NEW d \in Delivery, NEW r, r = Append(q, d),
           d \notin Elements(q), NoRepeat(q)
    PROVE  /\ r \in Seq(Delivery) /\ Len(r) = Len(q) + 1 /\ NoRepeat(r)
           /\ Elements(r) = Elements(q) \cup {d}
  <1>1. /\ r \in Seq(Delivery) /\ Len(r) = Len(q) + 1 /\ Len(q) \in Nat
        /\ DOMAIN q = 1..Len(q) /\ DOMAIN r = 1..Len(q) + 1
        /\ \A i \in 1..Len(q) : r[i] = q[i]
        /\ r[Len(q) + 1] = d
    BY AppendProperties, LenProperties
  <1>2. NoRepeat(r)
    BY <1>1 DEF NoRepeat, Elements
  <1>3. Elements(r) = Elements(q) \cup {d}
    BY <1>1 DEF Elements
  <1> QED
    BY <1>1, <1>2, <1>3

\* The oldest delivery leaves the queue.
LEMMA TailPlace ==
    ASSUME NEW q \in Seq(Delivery), q # <<>>, NEW r, r = Tail(q), NoRepeat(q)
    PROVE  /\ r \in Seq(Delivery) /\ Len(r) = Len(q) - 1 /\ Len(q) \in Nat /\ NoRepeat(r)
           /\ Head(q) \in Delivery /\ Head(q) \in Elements(q)
           /\ Elements(r) = Elements(q) \ {Head(q)}
  <1>1. /\ r \in Seq(Delivery) /\ Len(r) = Len(q) - 1 /\ Head(q) \in Delivery
        /\ Len(q) \in Nat \ {0} /\ DOMAIN q = 1..Len(q) /\ DOMAIN r = 1..Len(q) - 1
    BY HeadTailProperties, LenProperties, EmptySeq
  <1>2. Head(q) = q[1] /\ \A i \in 1..Len(q) - 1 : r[i] = q[i + 1]
    BY <1>1
  <1>3. NoRepeat(r)
    BY <1>1, <1>2 DEF NoRepeat
  <1>4. ASSUME NEW d
        PROVE  d \in Elements(r) <=> d \in Elements(q) \ {Head(q)}
    <2>1. ASSUME d \in Elements(r) PROVE d \in Elements(q) \ {Head(q)}
      <3>1. PICK i \in 1..Len(q) - 1 : d = q[i + 1]
        BY <1>1, <1>2, <2>1 DEF Elements
      <3>2. i + 1 \in DOMAIN q /\ 1 \in DOMAIN q /\ i + 1 # 1
        BY <1>1
      <3> QED
        BY <1>2, <3>1, <3>2 DEF NoRepeat, Elements
    <2>2. ASSUME d \in Elements(q) \ {Head(q)} PROVE d \in Elements(r)
      <3>1. PICK i \in 1..Len(q) : d = q[i] /\ i # 1
        BY <1>1, <1>2, <2>2 DEF Elements
      <3>2. i - 1 \in 1..Len(q) - 1 /\ (i - 1) + 1 = i
        BY <1>1, <3>1
      <3>3. r[i - 1] = d
        BY <1>2, <3>1, <3>2
      <3> QED
        BY <1>1, <3>2, <3>3 DEF Elements
    <2> QED
      BY <2>1, <2>2
  <1>5. 1 \in DOMAIN q
    BY <1>1
  <1> QED
    BY <1>1, <1>2, <1>3, <1>4, <1>5 DEF Elements

\* The list of dead letters keeps to its limit.
LEMMA DeadLettersBounded ==
    ASSUME NEW letters \in Seq(Delivery), Len(letters) <= DeadLetterLimit, NEW d \in Delivery
    PROVE  AddDeadLetter(letters, d) \in Seq(Delivery) /\ Len(AddDeadLetter(letters, d)) <= DeadLetterLimit
  <1>1. DeadLetterLimit \in Nat \ {0} /\ Len(letters) \in Nat
    BY WebhookAssumption, LenProperties DEF WebhookAssumption
  <1>2. CASE Len(letters) >= DeadLetterLimit
    <2>1. letters # <<>>
      BY <1>1, <1>2, EmptySeq
    <2>2. Tail(letters) \in Seq(Delivery) /\ Len(Tail(letters)) = Len(letters) - 1
      BY <2>1, HeadTailProperties
    <2>3. /\ Append(Tail(letters), d) \in Seq(Delivery)
          /\ Len(Append(Tail(letters), d)) = Len(Tail(letters)) + 1
      BY <2>2, AppendProperties
    <2> QED
      BY <1>1, <1>2, <2>2, <2>3 DEF AddDeadLetter
  <1>3. CASE ~(Len(letters) >= DeadLetterLimit)
    <2>1. Append(letters, d) \in Seq(Delivery) /\ Len(Append(letters, d)) = Len(letters) + 1
      BY AppendProperties
    <2> QED
      BY <1>1, <1>3, <2>1 DEF AddDeadLetter
  <1> QED
    BY <1>2, <1>3

\* The counter follows the set that it counts.
LEMMA CounterFollows ==
    ASSUME NEW S, IsFiniteSet(S), NEW d
    PROVE  /\ d \notin S => IsFiniteSet(S \cup {d}) /\ Counted(Cardinality(S)) = Cardinality(S \cup {d})
           /\ d \in S => IsFiniteSet(S \ {d}) /\ OneLess(Cardinality(S)) = Cardinality(S \ {d})
           /\ Cardinality(S) \in Nat
  <1>1. Cardinality(S) \in Nat /\ (Cardinality(S) = 0 <=> S = {})
    BY FS_CardinalityType, FS_EmptySet
  <1>2. d \notin S => IsFiniteSet(S \cup {d}) /\ Cardinality(S \cup {d}) = Cardinality(S) + 1
    BY FS_AddElement
  <1>3. d \in S => IsFiniteSet(S \ {d}) /\ Cardinality(S \ {d}) = Cardinality(S) - 1
    BY FS_RemoveElement
  <1>4. d \in S => Cardinality(S) > 0
    BY <1>1
  <1> QED
    BY <1>1, <1>2, <1>3, <1>4 DEF Counted, OneLess

-----------------------------------------------------------------------------
(***************************************************************************)
(* The bus and Dispatch.                                                   *)
(***************************************************************************)

\* Before the first event there is no delivery.
LEMMA Initially ==
    Init => IInv
  <1> SUFFICES ASSUME Init PROVE IInv
    OBVIOUS
  <1> USE DEF Init
  <1>1. /\ \A e \in Event : handler[e].cur = NoDelivery /\ handler[e].todo = {}
        /\ \A s \in Sender : sender[s].cur = NoDelivery
        /\ DOMAIN handler = Event /\ DOMAIN sender = Sender /\ DOMAIN queue = {} /\ queue \in Seq(Delivery)
        /\ Len(queue) = 0 /\ deadLetters \in Seq(Delivery) /\ Len(deadLetters) = 0
    BY EmptySeq DEF Idle
  <1>2. Queued = {} /\ Cur(handler) = {} /\ Cur(sender) = {} /\ Open = {}
    BY <1>1 DEF Queued, Cur, Open
  <1>3. TypeOK
    <2>1. \A d \in Delivery : attempt[d] \in 0..MaxRetries[d[2]]
      BY WebhookAssumption DEF WebhookAssumption, Delivery
    <2>2. 0 <= QueueSize /\ 0 <= DeadLetterLimit
      BY WebhookAssumption DEF WebhookAssumption
    <2>3. handler \in [Event -> HandlerState]
      BY DEF HandlerState
    <2>4. sender \in [Sender -> SenderState]
      BY DEF Idle, SenderState
    <2> QED
      BY <1>1, <2>1, <2>2, <2>3, <2>4 DEF TypeOK, HandlerState, SenderState
  <1>4. PlacesInv
    BY <1>1, <1>2 DEF PlacesInv, NoRepeat, Distinct
  <1>5. CountInv
    BY <1>2, FS_EmptySet DEF CountInv
  <1>6. AttemptInv
    BY <1>2 DEF AttemptInv
  <1>7. StopInv
    BY DEF StopInv, PatientStopSettlesAll
  <1>8. \A e \in Event : HandlerInv(e)
    BY <1>1 DEF HandlerInv, Delivery
  <1>9. \A s \in Sender : SenderInv(s)
    BY <1>1 DEF SenderInv, Idle
  <1> QED
    BY <1>3, <1>4, <1>5, <1>6, <1>7, <1>8, <1>9 DEF IInv

\* A handler puts down what it held, and takes what nobody else holds.
LEMMA HandlerMoves ==
    ASSUME IInv, NEW e \in Event, NEW d, DOMAIN handler' = Event, handler'[e].cur = d,
           \A u \in Event \ {e} : handler'[u].cur = handler[u].cur,
           d \in Cur(handler) => d = handler[e].cur
    PROVE  /\ Distinct(handler')
           /\ Cur(handler') = (Cur(handler) \ {handler[e].cur}) \cup ({d} \ {NoDelivery})
  <1>1. DOMAIN handler = Event /\ Distinct(handler)
    BY DEF IInv, TypeOK, PlacesInv
  <1>2. \A u \in Event \ {e} : handler[u].cur # NoDelivery
                                 => handler[u].cur # handler[e].cur /\ handler[u].cur # d
    BY <1>1 DEF Distinct, Cur
  <1>3. Distinct(handler')
    BY <1>1, <1>2 DEF Distinct
  <1>4. ASSUME NEW x
        PROVE  x \in Cur(handler') <=> x \in (Cur(handler) \ {handler[e].cur}) \cup ({d} \ {NoDelivery})
    BY <1>1, <1>2 DEF Cur
  <1> QED
    BY <1>1, <1>3, <1>4

\* A sending goroutine does so too.
LEMMA SenderMoves ==
    ASSUME IInv, NEW s \in Sender, NEW d, DOMAIN sender' = Sender, sender'[s].cur = d,
           \A u \in Sender \ {s} : sender'[u].cur = sender[u].cur,
           d \in Cur(sender) => d = sender[s].cur
    PROVE  /\ Distinct(sender')
           /\ Cur(sender') = (Cur(sender) \ {sender[s].cur}) \cup ({d} \ {NoDelivery})
  <1>1. DOMAIN sender = Sender /\ Distinct(sender)
    BY DEF IInv, TypeOK, PlacesInv
  <1>2. \A u \in Sender \ {s} : sender[u].cur # NoDelivery
                                 => sender[u].cur # sender[s].cur /\ sender[u].cur # d
    BY <1>1 DEF Distinct, Cur
  <1>3. Distinct(sender')
    BY <1>1, <1>2 DEF Distinct
  <1>4. ASSUME NEW x
        PROVE  x \in Cur(sender') <=> x \in (Cur(sender) \ {sender[s].cur}) \cup ({d} \ {NoDelivery})
    BY <1>1, <1>2 DEF Cur
  <1> QED
    BY <1>1, <1>3, <1>4

\* The end of an open delivery takes it off the counter.
LEMMA SettleKeeps ==
    ASSUME IInv, NEW d \in Open, NEW how \in {"delivered", "dropped", "dead"}, Settle(d, how)
    PROVE  /\ Open' = Open \ {d} /\ CountInv' /\ pending' \in Nat
           /\ fate' \in [Delivery -> {"none", "open", "delivered", "dropped", "dead"}]
           /\ \A x \in Delivery : fate'[x] = "none" <=> fate[x] = "none"
  <1>1. /\ fate \in [Delivery -> {"none", "open", "delivered", "dropped", "dead"}]
        /\ fate' = [fate EXCEPT ![d] = how] /\ d \in Delivery /\ fate[d] = "open"
        /\ pending' = OneLess(pending)
    BY DEF Settle, IInv, TypeOK, Open
  <1>2. /\ Open' = Open \ {d}
        /\ fate' \in [Delivery -> {"none", "open", "delivered", "dropped", "dead"}]
        /\ \A x \in Delivery : fate'[x] = "none" <=> fate[x] = "none"
    BY <1>1 DEF Open
  <1>3. IsFiniteSet(Open) /\ pending = Cardinality(Open)
    BY DEF IInv, CountInv
  <1>4. /\ IsFiniteSet(Open \ {d}) /\ Cardinality(Open \ {d}) \in Nat
        /\ OneLess(Cardinality(Open)) = Cardinality(Open \ {d})
    BY <1>3, CounterFollows
  <1> QED
    BY <1>1, <1>2, <1>3, <1>4 DEF CountInv

\* What is not yet queued stays so for the handlers that do not move.
LEMMA HandlersKeep ==
    ASSUME IInv, NEW e \in Event, handler'[e] = handler[e],
           \A w \in Webhook : fate[<<e, w>>] = "none" => fate'[<<e, w>>] = "none"
    PROVE  HandlerInv(e)'
  <1>1. HandlerInv(e) /\ handler[e].todo \subseteq Webhook
    BY DEF IInv, TypeOK
  <1> QED
    BY <1>1 DEF HandlerInv

\* Publishing an event and reading the started flag move no delivery.
LEMMA PublishPreserves ==
    ASSUME IInv, NEW e \in Event, Publish(e) \/ DispatchBegins(e)
    PROVE  IInv'
  <1>1. /\ UNCHANGED <<queue, retryQueue, sender, ready, abandoned, attempt, deadLetters, pending, fate, late>>
        /\ UNCHANGED <<subscribed, started, stopping, canceled, stop, overran>>
    BY DEF Publish, DispatchBegins, lifecycle
  <1>2. /\ handler \in [Event -> HandlerState]
        /\ DOMAIN handler = Event /\ HandlerInv(e) /\ Matches[e] \in SUBSET Webhook
    BY WebhookAssumption DEF IInv, TypeOK, HandlerState, WebhookAssumption
  <1>3. PICK r : /\ handler' = [handler EXCEPT ![e] = r]
                 /\ r \in HandlerState
                 /\ r.cur = handler[e].cur /\ handler[e].pc \in {"unpublished", "called"}
                 /\ r.pc \in {"called", "queueing", "done"}
    <2>1. CASE Publish(e)
      <3> DEFINE r == [handler[e] EXCEPT !.pc = IF subscribed THEN "called" ELSE "done"]
      <3>1. handler' = [handler EXCEPT ![e] = r]
        BY <1>2, <2>1 DEF Publish
      <3>2. r \in HandlerState
        BY <1>2 DEF HandlerState
      <3> QED
        BY <1>2, <2>1, <3>1, <3>2 DEF Publish, HandlerState
    <2>2. CASE DispatchBegins(e)
      <3> DEFINE r == IF started /\ Matches[e] # {}
                      THEN [handler[e] EXCEPT !.pc = "queueing", !.todo = Matches[e]]
                      ELSE [handler[e] EXCEPT !.pc = "done"]
      <3>1. handler' = [handler EXCEPT ![e] = r]
        BY <1>2, <2>2 DEF DispatchBegins
      <3>2. r \in HandlerState
        BY <1>2 DEF HandlerState
      <3> QED
        BY <1>2, <2>2, <3>1, <3>2 DEF DispatchBegins, HandlerState
    <2> QED
      BY <2>1, <2>2
  <1>4. handler[e].cur = NoDelivery
    BY <1>2, <1>3 DEF HandlerInv
  <1>5. handler'[e] = r /\ \A u \in Event \ {e} : handler'[u] = handler[u]
    BY <1>2, <1>3
  <1>6. Distinct(handler') /\ Cur(handler') = Cur(handler)
    <2>1. NoDelivery \notin Cur(handler)
      BY DEF Cur
    <2>2. DOMAIN handler' = Event /\ handler'[e].cur = NoDelivery
      BY <1>2, <1>3, <1>4
    <2>3. /\ Distinct(handler')
          /\ Cur(handler') = (Cur(handler) \ {handler[e].cur}) \cup ({NoDelivery} \ {NoDelivery})
      BY <1>5, <2>1, <2>2, HandlerMoves
    <2> QED
      BY <1>4, <2>1, <2>3
  <1>7. TypeOK'
    <2>1. handler' \in [Event -> HandlerState]
      BY <1>2, <1>3
    <2> QED
      BY <1>1, <2>1 DEF IInv, TypeOK, HandlerState
  <1>8. PlacesInv' /\ CountInv' /\ AttemptInv' /\ StopInv'
    <2>1. Queued' = Queued /\ Open' = Open
      BY <1>1 DEF Queued, Open
    <2>2. PlacesInv'
      BY <1>1, <1>6, <2>1 DEF IInv, PlacesInv
    <2>3. CountInv'
      BY <1>1, <2>1 DEF IInv, CountInv
    <2>4. AttemptInv'
      BY <1>1, <1>6, <2>1 DEF IInv, AttemptInv
    <2>5. StopInv'
      BY <1>1, <2>1 DEF IInv, StopInv, PatientStopSettlesAll
    <2> QED
      BY <2>2, <2>3, <2>4, <2>5
  <1>9. ASSUME NEW u \in Event PROVE HandlerInv(u)'
    <2>1. CASE u = e
      BY <1>1, <1>2, <1>3, <1>4, <1>5, <2>1 DEF HandlerInv, HandlerState
    <2>2. CASE u # e
      BY <1>1, <1>5, <2>2, HandlersKeep
    <2> QED
      BY <2>1, <2>2
  <1>10. \A s \in Sender : SenderInv(s)'
    BY <1>1 DEF IInv, SenderInv
  <1> QED
    BY <1>7, <1>8, <1>9, <1>10 DEF IInv

\* A delivery that was not yet queued is nowhere.
LEMMA UnqueuedIsNowhere ==
    ASSUME IInv, NEW d \in Delivery, fate[d] = "none"
    PROVE  /\ d \notin Open /\ d \notin Queued /\ d \notin Cur(handler) /\ d \notin Cur(sender)
           /\ d \notin retryQueue /\ d \notin ready /\ d \notin abandoned /\ attempt[d] = 0
  <1>1. d \notin Open
    BY DEF Open
  <1> QED
    BY <1>1 DEF IInv, PlacesInv, AttemptInv

\* The first send queues a delivery or leaves it with its handler, and counts it.
LEMMA EnqueuePreserves ==
    ASSUME IInv, NEW e \in Event, Enqueue(e)
    PROVE  IInv'
  <1>1. /\ UNCHANGED <<retryQueue, sender, ready, abandoned, attempt, deadLetters>>
        /\ UNCHANGED <<subscribed, started, stopping, canceled, stop, overran>>
        /\ handler[e].pc = "queueing"
    BY DEF Enqueue, lifecycle
  <1>2. /\ handler \in [Event -> HandlerState] /\ DOMAIN handler = Event /\ HandlerInv(e)
        /\ queue \in Seq(Delivery) /\ Len(queue) <= QueueSize /\ NoRepeat(queue) /\ late \subseteq Delivery
        /\ fate \in [Delivery -> {"none", "open", "delivered", "dropped", "dead"}]
    BY DEF IInv, TypeOK, HandlerState, PlacesInv
  <1>3. PICK w \in handler[e].todo :
            /\ pending' = Counted(pending)
            /\ fate' = [fate EXCEPT ![<<e, w>>] = "open"]
            /\ late' = IF started THEN late ELSE late \cup {<<e, w>>}
            /\ IF Len(queue) < QueueSize
               THEN /\ queue' = Append(queue, <<e, w>>)
                    /\ handler' = [handler EXCEPT ![e] = HandlerAfter(e, <<e, w>>)]
               ELSE /\ handler' = [handler EXCEPT ![e].pc = "full", ![e].cur = <<e, w>>]
                    /\ UNCHANGED queue
    BY DEF Enqueue
  <1> DEFINE d == <<e, w>>
  <1>4. w \in Webhook /\ d \in Delivery /\ d # NoDelivery /\ d[1] = e /\ d[2] = w
    BY <1>2, WebhookAssumption DEF WebhookAssumption, Delivery, HandlerState
  <1>5. handler[e].cur = NoDelivery /\ fate[d] = "none"
    BY <1>1, <1>2, <1>4 DEF HandlerInv
  <1>6. /\ d \notin Open /\ d \notin Queued /\ d \notin Cur(handler) /\ d \notin Cur(sender)
        /\ d \notin retryQueue /\ d \notin ready /\ d \notin abandoned /\ attempt[d] = 0
    BY <1>4, <1>5, UnqueuedIsNowhere
  <1>7. /\ Open' = Open \cup {d}
        /\ fate' \in [Delivery -> {"none", "open", "delivered", "dropped", "dead"}]
        /\ \A x \in Delivery \ {d} : fate'[x] = fate[x]
    BY <1>2, <1>3, <1>4 DEF Open
  <1>8. ASSUME NEW x \in handler[e].todo, x # w PROVE fate'[<<e, x>>] = "none"
    <2>1. x \in Webhook
      BY <1>2 DEF HandlerState
    <2>2. <<e, x>> \in Delivery \ {d}
      BY <1>8, <2>1 DEF Delivery
    <2>3. fate[<<e, x>>] = "none"
      BY <1>2, <1>5, <2>2, WebhookAssumption DEF HandlerInv, WebhookAssumption, Delivery
    <2> QED
      BY <1>7, <2>2, <2>3
  <1>9. CountInv' /\ pending' \in Nat
    <2>1. IsFiniteSet(Open) /\ pending = Cardinality(Open)
      BY DEF IInv, CountInv
    <2>2. /\ IsFiniteSet(Open \cup {d}) /\ Counted(Cardinality(Open)) = Cardinality(Open \cup {d})
          /\ IsFiniteSet(Open \cup {d}) => Cardinality(Open \cup {d}) \in Nat
      BY <1>6, <2>1, CounterFollows, FS_CardinalityType
    <2> QED
      BY <1>3, <1>7, <2>1, <2>2 DEF CountInv
  <1>10. /\ handler' \in [Event -> HandlerState] /\ DOMAIN handler' = Event
         /\ \A u \in Event \ {e} : handler'[u] = handler[u]
         /\ queue' \in Seq(Delivery) /\ Len(queue') <= QueueSize /\ NoRepeat(queue)'
         /\ Distinct(handler')
         /\ \/ Queued' = Queued \cup {d} /\ Cur(handler') = Cur(handler)
            \/ Queued' = Queued /\ Cur(handler') = Cur(handler) \cup {d}
         /\ HandlerInv(e)'
    <2>1. CASE Len(queue) < QueueSize
      <3> DEFINE r == HandlerAfter(e, d)
      <3>1. /\ handler' = [handler EXCEPT ![e] = r] /\ queue' = Append(queue, d)
            /\ r.cur = NoDelivery /\ r.pc \in {"done", "queueing"} /\ r.todo = handler[e].todo \ {w}
            /\ r \in HandlerState
        BY <1>2, <1>3, <1>4, <2>1 DEF HandlerAfter, HandlerState
      <3>2. /\ handler' \in [Event -> HandlerState] /\ DOMAIN handler' = Event /\ handler'[e] = r
            /\ \A u \in Event \ {e} : handler'[u] = handler[u]
        BY <1>2, <3>1
      <3>3. Distinct(handler') /\ Cur(handler') = Cur(handler)
        <4>1. NoDelivery \notin Cur(handler) /\ handler'[e].cur = NoDelivery
          BY <3>1, <3>2 DEF Cur
        <4>2. /\ Distinct(handler')
              /\ Cur(handler') = (Cur(handler) \ {handler[e].cur}) \cup ({NoDelivery} \ {NoDelivery})
          BY <3>2, <4>1, HandlerMoves
        <4> QED
          BY <1>5, <4>1, <4>2
      <3>4. /\ queue' \in Seq(Delivery) /\ Len(queue') = Len(queue) + 1 /\ NoRepeat(queue')
            /\ Elements(queue') = Elements(queue) \cup {d}
        <4>1. d \notin Elements(queue)
          BY <1>6 DEF Queued, Elements
        <4> QED
          BY <1>2, <1>4, <3>1, <4>1, AppendPlace
      <3>5. Len(queue') <= QueueSize
        BY <1>2, <2>1, <3>4, LenProperties, WebhookAssumption DEF WebhookAssumption
      <3>6. HandlerInv(e)'
        <4>1. \A x \in handler'[e].todo : fate'[<<e, x>>] = "none"
          BY <1>8, <3>1, <3>2
        <4> QED
          BY <3>1, <3>2, <4>1 DEF HandlerInv
      <3> QED
        BY <3>2, <3>3, <3>4, <3>5, <3>6 DEF Queued, Elements
    <2>2. CASE ~(Len(queue) < QueueSize)
      <3>1. /\ handler' = [handler EXCEPT ![e].pc = "full", ![e].cur = d] /\ queue' = queue
        BY <1>3, <2>2
      <3>2. /\ handler' \in [Event -> HandlerState] /\ DOMAIN handler' = Event
            /\ \A u \in Event \ {e} : handler'[u] = handler[u]
            /\ handler'[e].pc = "full" /\ handler'[e].cur = d /\ handler'[e].todo = handler[e].todo
        BY <1>2, <1>4, <3>1 DEF HandlerState
      <3>3. Distinct(handler') /\ Cur(handler') = Cur(handler) \cup {d}
        <4>1. NoDelivery \notin Cur(handler)
          BY DEF Cur
        <4>2. /\ Distinct(handler')
              /\ Cur(handler') = (Cur(handler) \ {handler[e].cur}) \cup ({d} \ {NoDelivery})
          BY <1>6, <3>2, HandlerMoves
        <4> QED
          BY <1>4, <1>5, <4>1, <4>2
      <3>4. HandlerInv(e)'
        <4>1. \A x \in handler'[e].todo : x # w => fate'[<<e, x>>] = "none"
          BY <1>8, <3>2
        <4> QED
          BY <1>4, <3>2, <4>1 DEF HandlerInv
      <3>5. Queued' = Queued /\ NoRepeat(queue)' /\ queue' \in Seq(Delivery) /\ Len(queue') <= QueueSize
        BY <1>2, <3>1 DEF Queued, NoRepeat
      <3> QED
        BY <3>2, <3>3, <3>4, <3>5
    <2> QED
      BY <2>1, <2>2
  <1>11. TypeOK'
    <2>1. late' \subseteq Delivery
      BY <1>2, <1>3, <1>4
    <2> QED
      BY <1>1, <1>7, <1>9, <1>10, <2>1 DEF IInv, TypeOK, HandlerState
  <1>12. PlacesInv'
    BY <1>1, <1>6, <1>7, <1>10 DEF IInv, PlacesInv
  <1>13. AttemptInv'
    BY <1>1, <1>6, <1>7, <1>10 DEF IInv, AttemptInv
  <1>14. StopInv'
    BY <1>1, <1>3, <1>7 DEF IInv, StopInv, PatientStopSettlesAll
  <1>15. ASSUME NEW u \in Event PROVE HandlerInv(u)'
    <2>1. CASE u # e
      <3>1. \A x \in Webhook : <<u, x>> \in Delivery \ {d}
        BY <2>1 DEF Delivery
      <3>2. \A x \in Webhook : fate[<<u, x>>] = "none" => fate'[<<u, x>>] = "none"
        BY <1>7, <3>1
      <3> QED
        BY <1>10, <2>1, <3>2, HandlersKeep
    <2> QED
      BY <1>10, <2>1
  <1>16. \A s \in Sender : SenderInv(s)'
    BY <1>1 DEF IInv, SenderInv
  <1> QED
    BY <1>9, <1>11, <1>12, <1>13, <1>14, <1>15, <1>16 DEF IInv

\* The oldest delivery makes room: its end is the only change of places.
LEMMA DropOldestPreserves ==
    ASSUME IInv, NEW e \in Event, DropOldest(e)
    PROVE  IInv'
  <1>1. /\ UNCHANGED <<retryQueue, sender, ready, abandoned, attempt, deadLetters, late>>
        /\ UNCHANGED <<subscribed, started, stopping, canceled, stop, overran>>
        /\ handler[e].pc = "full" /\ handler' = [handler EXCEPT ![e].pc = "again"]
    BY DEF DropOldest, lifecycle
  <1>2. /\ handler \in [Event -> HandlerState] /\ DOMAIN handler = Event /\ HandlerInv(e)
        /\ queue \in Seq(Delivery) /\ Len(queue) <= QueueSize /\ NoRepeat(queue)
    BY DEF IInv, TypeOK, HandlerState, PlacesInv
  <1>3. /\ handler' \in [Event -> HandlerState] /\ DOMAIN handler' = Event
        /\ \A u \in Event \ {e} : handler'[u] = handler[u]
        /\ handler'[e].pc = "again" /\ handler'[e].cur = handler[e].cur
        /\ handler'[e].todo = handler[e].todo
    BY <1>1, <1>2 DEF HandlerState
  <1>4. Distinct(handler') /\ Cur(handler') = Cur(handler)
    <2>1. \A u \in Event : handler'[u].cur = handler[u].cur
      BY <1>3
    <2> QED
      BY <1>2, <1>3, <2>1 DEF IInv, PlacesInv, Distinct, Cur
  <1>5. /\ queue' \in Seq(Delivery) /\ Len(queue') <= QueueSize /\ NoRepeat(queue)'
        /\ \E gone \in SUBSET Queued : Queued' = Queued \ gone /\ Open' = Open \ gone
        /\ CountInv' /\ pending' \in Nat
        /\ fate' \in [Delivery -> {"none", "open", "delivered", "dropped", "dead"}]
        /\ \A x \in Delivery : fate'[x] = "none" <=> fate[x] = "none"
    <2>1. CASE queue = <<>>
      <3>1. queue' = queue /\ pending' = pending /\ fate' = fate
        BY <2>1 DEF DropOldest
      <3>2. Queued' = Queued /\ Open' = Open /\ NoRepeat(queue)' /\ CountInv'
        BY <1>2, <3>1 DEF Queued, Open, NoRepeat, CountInv, IInv
      <3>3. {} \in SUBSET Queued /\ Queued' = Queued \ {} /\ Open' = Open \ {}
        BY <3>2
      <3> QED
        BY <1>2, <3>1, <3>2, <3>3 DEF IInv, TypeOK
    <2>2. CASE queue # <<>>
      <3>1. queue' = Tail(queue) /\ Settle(Head(queue), "dropped")
        BY <2>2 DEF DropOldest, Settle
      <3>2. /\ queue' \in Seq(Delivery) /\ Len(queue') = Len(queue) - 1 /\ Len(queue) \in Nat /\ NoRepeat(queue')
            /\ Head(queue) \in Delivery /\ Head(queue) \in Elements(queue)
            /\ Elements(queue') = Elements(queue) \ {Head(queue)}
        BY <1>2, <2>2, <3>1, TailPlace
      <3>3. Head(queue) \in Queued /\ Queued' = Queued \ {Head(queue)} /\ Head(queue) \in Open
        BY <3>2 DEF Queued, Elements, IInv, PlacesInv
      <3>4. /\ Open' = Open \ {Head(queue)} /\ CountInv' /\ pending' \in Nat
            /\ fate' \in [Delivery -> {"none", "open", "delivered", "dropped", "dead"}]
            /\ \A x \in Delivery : fate'[x] = "none" <=> fate[x] = "none"
        BY <3>1, <3>3, SettleKeeps
      <3>5. Len(queue') <= QueueSize
        BY <1>2, <3>2, WebhookAssumption DEF WebhookAssumption
      <3> QED
        BY <3>2, <3>3, <3>4, <3>5
    <2> QED
      BY <2>1, <2>2
  <1>6. TypeOK'
    BY <1>1, <1>3, <1>5 DEF IInv, TypeOK, HandlerState
  <1>7. PlacesInv'
    BY <1>1, <1>4, <1>5 DEF IInv, PlacesInv
  <1>8. AttemptInv'
    BY <1>1, <1>4, <1>5 DEF IInv, AttemptInv
  <1>9. StopInv'
    BY <1>1, <1>5 DEF IInv, StopInv, PatientStopSettlesAll
  <1>10. \A x \in Event : \A w \in Webhook : fate[<<x, w>>] = "none" => fate'[<<x, w>>] = "none"
    BY <1>5 DEF Delivery
  <1>11. ASSUME NEW u \in Event PROVE HandlerInv(u)'
    <2>1. CASE u # e
      BY <1>3, <1>10, <2>1, HandlersKeep
    <2>2. CASE u = e
      BY <1>1, <1>2, <1>3, <1>10, <2>2 DEF HandlerInv, HandlerState
    <2> QED
      BY <2>1, <2>2
  <1>12. \A s \in Sender : SenderInv(s)'
    BY <1>1 DEF IInv, SenderInv
  <1> QED
    BY <1>5, <1>6, <1>7, <1>8, <1>9, <1>11, <1>12 DEF IInv

\* The second send queues the delivery of the handler, or drops it.
LEMMA EnqueueAgainPreserves ==
    ASSUME IInv, NEW e \in Event, EnqueueAgain(e)
    PROVE  IInv'
  <1>0. PICK d : d = handler[e].cur
    OBVIOUS
  <1> DEFINE r == HandlerAfter(e, d)
  <1>1. /\ UNCHANGED <<retryQueue, sender, ready, abandoned, attempt, deadLetters, late>>
        /\ UNCHANGED <<subscribed, started, stopping, canceled, stop, overran>>
        /\ handler[e].pc = "again" /\ handler' = [handler EXCEPT ![e] = r]
    BY <1>0 DEF EnqueueAgain, lifecycle
  <1>2. /\ handler \in [Event -> HandlerState] /\ DOMAIN handler = Event /\ HandlerInv(e)
        /\ queue \in Seq(Delivery) /\ Len(queue) <= QueueSize /\ NoRepeat(queue)
    BY DEF IInv, TypeOK, HandlerState, PlacesInv
  <1>3. d # NoDelivery /\ d \in Cur(handler) /\ d[1] = e /\ d \in Delivery /\ d = <<e, d[2]>>
    BY <1>0, <1>1, <1>2 DEF HandlerInv, Cur, HandlerState, Delivery
  <1>4. d \in Open /\ d \notin Queued
    BY <1>3 DEF IInv, PlacesInv
  <1>5. /\ r \in HandlerState /\ r.cur = NoDelivery /\ r.pc \in {"done", "queueing"}
        /\ r.todo = handler[e].todo \ {d[2]}
    BY <1>2 DEF HandlerAfter, HandlerState
  <1>6. /\ handler' \in [Event -> HandlerState] /\ DOMAIN handler' = Event /\ handler'[e] = r
        /\ \A u \in Event \ {e} : handler'[u] = handler[u]
    BY <1>1, <1>2, <1>5
  <1>7. Distinct(handler') /\ Cur(handler') = Cur(handler) \ {d}
    <2>1. NoDelivery \notin Cur(handler) /\ handler'[e].cur = NoDelivery
      BY <1>5, <1>6 DEF Cur
    <2>2. /\ Distinct(handler')
          /\ Cur(handler') = (Cur(handler) \ {handler[e].cur}) \cup ({NoDelivery} \ {NoDelivery})
      BY <1>6, <2>1, HandlerMoves
    <2> QED
      BY <1>0, <2>2
  <1>8. /\ queue' \in Seq(Delivery) /\ Len(queue') <= QueueSize /\ NoRepeat(queue)'
        /\ \/ Queued' = Queued \cup {d} /\ Open' = Open
           \/ Queued' = Queued /\ Open' = Open \ {d}
        /\ CountInv' /\ pending' \in Nat
        /\ fate' \in [Delivery -> {"none", "open", "delivered", "dropped", "dead"}]
        /\ \A x \in Delivery : fate'[x] = "none" <=> fate[x] = "none"
    <2>1. CASE Len(queue) < QueueSize
      <3>1. queue' = Append(queue, d) /\ pending' = pending /\ fate' = fate
        BY <1>0, <2>1 DEF EnqueueAgain
      <3>2. d \notin Elements(queue)
        BY <1>4 DEF Queued, Elements
      <3>3. /\ queue' \in Seq(Delivery) /\ Len(queue') = Len(queue) + 1 /\ NoRepeat(queue')
            /\ Elements(queue') = Elements(queue) \cup {d}
        BY <1>2, <1>3, <3>1, <3>2, AppendPlace
      <3>4. Len(queue') <= QueueSize
        BY <1>2, <2>1, <3>3, LenProperties, WebhookAssumption DEF WebhookAssumption
      <3>5. Queued' = Queued \cup {d} /\ Open' = Open /\ CountInv'
        BY <3>1, <3>3 DEF Queued, Elements, Open, CountInv, IInv
      <3> QED
        BY <3>1, <3>3, <3>4, <3>5 DEF IInv, TypeOK
    <2>2. CASE ~(Len(queue) < QueueSize)
      <3>1. queue' = queue /\ Settle(d, "dropped")
        BY <1>0, <2>2 DEF EnqueueAgain, Settle
      <3>2. /\ Open' = Open \ {d} /\ CountInv' /\ pending' \in Nat
            /\ fate' \in [Delivery -> {"none", "open", "delivered", "dropped", "dead"}]
            /\ \A x \in Delivery : fate'[x] = "none" <=> fate[x] = "none"
        BY <1>4, <3>1, SettleKeeps
      <3>3. Queued' = Queued /\ NoRepeat(queue)'
        BY <1>2, <3>1 DEF Queued, NoRepeat
      <3> QED
        BY <1>2, <3>1, <3>2, <3>3
    <2> QED
      BY <2>1, <2>2
  <1>9. TypeOK'
    BY <1>1, <1>6, <1>8 DEF IInv, TypeOK, HandlerState
  <1>10. PlacesInv'
    <2>1. PlacesInv /\ UNCHANGED <<retryQueue, ready, abandoned, sender>>
      BY <1>1 DEF IInv
    <2>2. /\ Open = Queued \cup Cur(handler) \cup Cur(sender) \cup retryQueue \cup ready \cup abandoned
          /\ d \notin Cur(sender) \cup retryQueue \cup ready \cup abandoned
      BY <1>3, <2>1 DEF PlacesInv
    <2>3. Open' = Queued' \cup Cur(handler') \cup Cur(sender) \cup retryQueue \cup ready \cup abandoned
      BY <1>3, <1>4, <1>7, <1>8, <2>2
    <2> QED
      BY <1>3, <1>7, <1>8, <2>1, <2>2, <2>3 DEF PlacesInv
  <1>11. AttemptInv'
    <2>1. attempt[d] = 0
      BY <1>3 DEF IInv, AttemptInv
    <2> QED
      BY <1>1, <1>7, <1>8, <2>1 DEF IInv, AttemptInv
  <1>12. StopInv'
    BY <1>1, <1>8 DEF IInv, StopInv, PatientStopSettlesAll
  <1>13. \A x \in Event : \A w \in Webhook : fate[<<x, w>>] = "none" => fate'[<<x, w>>] = "none"
    BY <1>8 DEF Delivery
  <1>14. ASSUME NEW u \in Event PROVE HandlerInv(u)'
    <2>1. CASE u # e
      BY <1>6, <1>13, <2>1, HandlersKeep
    <2>2. CASE u = e
      <3>1. ASSUME NEW x \in r.todo PROVE fate'[<<e, x>>] = "none"
        <4>1. x \in handler[e].todo /\ x # d[2] /\ x \in Webhook
          BY <1>2, <1>5, <3>1 DEF HandlerState
        <4>2. <<e, x>> # d
          BY <1>3, <4>1
        <4> QED
          BY <1>0, <1>2, <1>13, <4>1, <4>2 DEF HandlerInv
      <3> QED
        BY <1>5, <1>6, <2>2, <3>1 DEF HandlerInv
    <2> QED
      BY <2>1, <2>2
  <1>15. \A s \in Sender : SenderInv(s)'
    BY <1>1 DEF IInv, SenderInv
  <1> QED
    BY <1>8, <1>9, <1>10, <1>11, <1>12, <1>14, <1>15 DEF IInv

-----------------------------------------------------------------------------
(***************************************************************************)
(* The sending goroutines.                                                 *)
(***************************************************************************)

\* A goroutine with its hands free begins an attempt: the delivery leaves the
\* queue or the due ones, and was not attempted too often.
LEMMA AttemptBegins ==
    ASSUME IInv, NEW s \in Sender, NEW d \in Queued \cup ready, attempt[d] < MaxRetries[d[2]],
           sender[s] = Idle, sender' = [sender EXCEPT ![s] = Sending(d)],
           attempt' = [attempt EXCEPT ![d] = @ + 1],
           queue' \in Seq(Delivery), Len(queue') <= QueueSize, NoRepeat(queue'),
           Queued' = Queued \ {d}, ready' = ready \ {d},
           UNCHANGED <<handler, retryQueue, abandoned, deadLetters, pending, fate, late, lifecycle>>
    PROVE  IInv'
  <1>1. /\ UNCHANGED <<handler, retryQueue, abandoned, deadLetters, pending, fate, late>>
        /\ UNCHANGED <<subscribed, started, stopping, canceled, stop, overran>>
    BY DEF lifecycle
  <1>2. sender \in [Sender -> SenderState] /\ sender[s].cur = NoDelivery
    <2>1. sender \in [Sender -> SenderState]
      BY DEF IInv, TypeOK, SenderState
    <2> QED
      BY <2>1 DEF Idle
  <1>3. /\ d \in Delivery /\ d # NoDelivery /\ d \in Open /\ fate[d] = "open"
        /\ d \notin Cur(handler) /\ d \notin Cur(sender) /\ d \notin retryQueue /\ d \notin abandoned
    BY WebhookAssumption DEF IInv, PlacesInv, Open, WebhookAssumption, Delivery
  <1>4. /\ sender' \in [Sender -> SenderState] /\ DOMAIN sender' = Sender
        /\ sender'[s].cur = d /\ sender'[s].pc \in {"sending", "failing"}
        /\ \A u \in Sender \ {s} : sender'[u] = sender[u]
    BY <1>2, <1>3 DEF Sending, SenderState
  <1>5. Distinct(sender') /\ Cur(sender') = Cur(sender) \cup {d}
    <2>1. NoDelivery \notin Cur(sender)
      BY DEF Cur
    <2>2. /\ Distinct(sender')
          /\ Cur(sender') = (Cur(sender) \ {sender[s].cur}) \cup ({d} \ {NoDelivery})
      BY <1>3, <1>4, SenderMoves
    <2> QED
      BY <1>2, <1>3, <2>1, <2>2
  <1>6. /\ attempt \in [Delivery -> Nat] /\ attempt' \in [Delivery -> Nat]
        /\ attempt'[d] = attempt[d] + 1 /\ \A x \in Delivery \ {d} : attempt'[x] = attempt[x]
    BY <1>3 DEF IInv, AttemptInv
  <1>7. TypeOK'
    <2>1. \A x \in Delivery : attempt'[x] \in 0..MaxRetries[x[2]]
      <3>1. MaxRetries[d[2]] \in Nat
        BY <1>3, WebhookAssumption DEF WebhookAssumption, Delivery
      <3>2. attempt'[d] \in 0..MaxRetries[d[2]]
        BY <1>3, <1>6, <3>1
      <3> QED
        BY <1>6, <3>2 DEF IInv, TypeOK
    <2> QED
      <3>1. ready' \in SUBSET Delivery
        BY DEF IInv, TypeOK
      <3>2. queue' \in Seq(Delivery) /\ Len(queue') <= QueueSize
        OBVIOUS
      <3>3. TypeOK
        BY DEF IInv
      <3> QED
        BY ONLY <1>1, <1>4, <2>1, <3>1, <3>2, <3>3 DEF TypeOK, SenderState
  <1>8. Open' = Open /\ CountInv'
    BY <1>1 DEF Open, IInv, CountInv
  <1>9. PlacesInv'
    <2>1. PlacesInv /\ UNCHANGED <<handler, retryQueue, abandoned>>
      BY <1>1 DEF IInv
    <2>2. Open = Queued \cup Cur(handler) \cup Cur(sender) \cup retryQueue \cup ready \cup abandoned
      BY <2>1 DEF PlacesInv
    <2>3. Open' = Queued' \cup Cur(handler) \cup Cur(sender') \cup retryQueue \cup ready' \cup abandoned
      BY <1>5, <1>8, <2>2
    <2>4. NoRepeat(queue') /\ Queued' = Queued \ {d} /\ ready' = ready \ {d}
      OBVIOUS
    <2> QED
      BY ONLY <1>3, <1>5, <2>1, <2>3, <2>4 DEF PlacesInv
  <1>10. AttemptInv'
    BY <1>1, <1>3, <1>6 DEF IInv, AttemptInv
  <1>11. StopInv'
    BY <1>1, <1>8 DEF IInv, StopInv, PatientStopSettlesAll
  <1>12. \A e \in Event : HandlerInv(e)'
    BY <1>1, HandlersKeep
  <1>13. ASSUME NEW u \in Sender PROVE SenderInv(u)'
    <2>1. CASE u = s
      BY <1>3, <1>4, <2>1 DEF SenderInv
    <2>2. CASE u # s
      <3>1. SenderInv(u) /\ sender'[u] = sender[u] /\ sender[u].cur \in Delivery \cup {NoDelivery}
        BY <1>2, <1>4, <2>2 DEF IInv, SenderState
      <3>2. sender[u].pc = "scheduling" => sender[u].cur \in Delivery \ {d}
        BY <1>2, <1>3, <3>1 DEF SenderInv, Cur
      <3> QED
        BY <1>6, <3>1, <3>2 DEF SenderInv
    <2> QED
      BY <2>1, <2>2
  <1> QED
    BY <1>7, <1>8, <1>9, <1>10, <1>11, <1>12, <1>13 DEF IInv

\* A worker takes the oldest delivery of the queue.
LEMMA WorkerTakesPreserves ==
    ASSUME IInv, NEW s \in Sender, WorkerTakes(s)
    PROVE  IInv'
  <1>1. PICK d : d = Head(queue)
    OBVIOUS
  <1>2. /\ queue \in Seq(Delivery) /\ Len(queue) <= QueueSize /\ NoRepeat(queue) /\ queue # <<>>
        /\ queue' = Tail(queue)
    BY DEF WorkerTakes, IInv, TypeOK, PlacesInv
  <1>3. /\ queue' \in Seq(Delivery) /\ Len(queue') = Len(queue) - 1 /\ Len(queue) \in Nat /\ NoRepeat(queue')
        /\ Head(queue) \in Delivery /\ Head(queue) \in Elements(queue)
        /\ Elements(queue') = Elements(queue) \ {Head(queue)}
    BY <1>2, TailPlace
  <1>4. Len(queue') <= QueueSize
    BY <1>2, <1>3, WebhookAssumption DEF WebhookAssumption
  <1>5. d \in Queued /\ Queued' = Queued \ {d} /\ d \in Delivery
    BY <1>1, <1>3 DEF Queued, Elements
  <1>6. ready' = ready \ {d}
    BY <1>5 DEF WorkerTakes, IInv, PlacesInv
  <1>7. attempt[d] < MaxRetries[d[2]]
    <2>1. attempt[d] = 0
      BY <1>5 DEF IInv, AttemptInv
    <2>2. MaxRetries[d[2]] \in Nat \ {0}
      BY <1>5, WebhookAssumption DEF WebhookAssumption, Delivery
    <2> QED
      BY <2>1, <2>2
  <1>8. /\ sender[s] = Idle /\ sender' = [sender EXCEPT ![s] = Sending(d)]
        /\ attempt' = [attempt EXCEPT ![d] = @ + 1]
        /\ UNCHANGED <<handler, retryQueue, abandoned, deadLetters, pending, fate, late, lifecycle>>
    BY <1>1 DEF WorkerTakes
  <1> QED
    BY <1>3, <1>4, <1>5, <1>6, <1>7, <1>8, AttemptBegins

\* The retry processor sends a delivery that is due.
LEMMA SendsReadyPreserves ==
    ASSUME IInv, NEW d \in Delivery, SendsReady(d)
    PROVE  IInv'
  <1>1. /\ d \in ready /\ Processor \in Sender /\ sender[Processor] = Idle
        /\ ready' = ready \ {d} /\ attempt' = [attempt EXCEPT ![d] = @ + 1]
        /\ sender' = [sender EXCEPT ![Processor] = Sending(d)]
        /\ UNCHANGED <<handler, queue, retryQueue, abandoned, deadLetters, pending, fate, late, lifecycle>>
    BY DEF SendsReady, ElsewhereUnchanged, Sender
  <1>2. attempt[d] < MaxRetries[d[2]]
    BY <1>1 DEF IInv, AttemptInv
  <1>3. Queued' = Queued \ {d}
    BY <1>1 DEF IInv, PlacesInv, Queued
  <1>4. queue' \in Seq(Delivery) /\ Len(queue') <= QueueSize /\ NoRepeat(queue')
    BY <1>1 DEF IInv, TypeOK, PlacesInv
  <1>5. /\ d \in Queued \cup ready
        /\ UNCHANGED <<handler, retryQueue, abandoned, deadLetters, pending, fate, late, lifecycle>>
    BY <1>1
  <1> QED
    BY <1>1, <1>2, <1>3, <1>4, <1>5, AttemptBegins

\* The end of a request that is not tried again settles its delivery.
LEMMA RequestEnds ==
    ASSUME IInv, NEW s \in Sender, sender[s].pc \in {"sending", "failing"}, sender' = Done(s),
           NEW how \in {"delivered", "dropped", "dead"}, Settle(sender[s].cur, how),
           deadLetters' \in Seq(Delivery), Len(deadLetters') <= DeadLetterLimit,
           UNCHANGED <<handler, queue, retryQueue, ready, abandoned, attempt, late, lifecycle>>
    PROVE  IInv'
  <1>1. /\ UNCHANGED <<handler, queue, retryQueue, ready, abandoned, attempt, late>>
        /\ UNCHANGED <<subscribed, started, stopping, canceled, stop, overran>>
    BY DEF lifecycle
  <1>2. PICK d : d = sender[s].cur
    OBVIOUS
  <1>3. /\ sender \in [Sender -> SenderState] /\ SenderInv(s) /\ NoRepeat(queue)
        /\ d # NoDelivery /\ d \in Cur(sender) /\ d \in Delivery
    BY <1>2 DEF IInv, TypeOK, SenderState, SenderInv, Cur, PlacesInv
  <1>4. /\ d \in Open /\ d \notin Queued /\ d \notin Cur(handler)
        /\ d \notin retryQueue /\ d \notin ready /\ d \notin abandoned
    BY <1>3 DEF IInv, PlacesInv
  <1>5. /\ Open' = Open \ {d} /\ CountInv' /\ pending' \in Nat
        /\ fate' \in [Delivery -> {"none", "open", "delivered", "dropped", "dead"}]
        /\ \A x \in Delivery : fate'[x] = "none" <=> fate[x] = "none"
    BY <1>2, <1>4, SettleKeeps
  <1>6. /\ sender' \in [Sender -> SenderState] /\ DOMAIN sender' = Sender /\ sender'[s] = Idle
        /\ \A u \in Sender \ {s} : sender'[u] = sender[u]
    BY <1>3 DEF Done, Idle, SenderState
  <1>7. Distinct(sender') /\ Cur(sender') = Cur(sender) \ {d}
    <2>1. NoDelivery \notin Cur(sender) /\ sender'[s].cur = NoDelivery
      BY <1>6 DEF Cur, Idle
    <2>2. /\ Distinct(sender')
          /\ Cur(sender') = (Cur(sender) \ {sender[s].cur}) \cup ({NoDelivery} \ {NoDelivery})
      BY <1>6, <2>1, SenderMoves
    <2> QED
      BY <1>2, <2>2
  <1>8. TypeOK'
    <2>1. TypeOK /\ deadLetters' \in Seq(Delivery) /\ Len(deadLetters') <= DeadLetterLimit
      BY DEF IInv
    <2> QED
      BY ONLY <1>1, <1>5, <1>6, <2>1 DEF TypeOK, SenderState
  <1>9. Queued' = Queued
    BY <1>1 DEF Queued
  <1>10. PlacesInv'
    BY <1>1, <1>3, <1>4, <1>5, <1>7, <1>9 DEF IInv, PlacesInv
  <1>11. AttemptInv'
    BY <1>1, <1>5, <1>9 DEF IInv, AttemptInv
  <1>12. StopInv'
    BY <1>1, <1>5 DEF IInv, StopInv, PatientStopSettlesAll
  <1>13. ASSUME NEW e \in Event PROVE HandlerInv(e)'
    <2>1. \A w \in Webhook : fate[<<e, w>>] = "none" => fate'[<<e, w>>] = "none"
      BY <1>5 DEF Delivery
    <2> QED
      BY <1>1, <2>1, HandlersKeep
  <1>14. \A u \in Sender : SenderInv(u)'
    BY <1>1, <1>6 DEF IInv, SenderInv, Idle
  <1> QED
    BY <1>5, <1>8, <1>10, <1>11, <1>12, <1>13, <1>14 DEF IInv

\* A success, a client error, and an error that may not be retried.
LEMMA AnsweredPreserves ==
    ASSUME IInv, NEW s \in Sender, SendSucceeds(s) \/ SendFails(s)
    PROVE  IInv'
  <1>1. deadLetters \in Seq(Delivery) /\ Len(deadLetters) <= DeadLetterLimit
    BY DEF IInv, TypeOK
  <1>2. CASE SendSucceeds(s)
    BY <1>1, <1>2, RequestEnds DEF SendSucceeds
  <1>3. CASE SendFails(s)
    <2>1. sender[s].cur \in Delivery
      BY <1>3 DEF SendFails, IInv, TypeOK, SenderInv
    <2>2. deadLetters' \in Seq(Delivery) /\ Len(deadLetters') <= DeadLetterLimit
      BY <1>1, <1>3, <2>1, DeadLettersBounded DEF SendFails, Bury
    <2> QED
      BY <1>3, <2>2, RequestEnds DEF SendFails, Bury
  <1> QED
    BY <1>2, <1>3

\* A step that moves no delivery keeps what is said of places.
LEMMA NothingMoves ==
    ASSUME IInv, sender' \in [Sender -> SenderState],
           \A s \in Sender : sender'[s].cur = sender[s].cur /\ SenderInv(s)',
           UNCHANGED <<handler, queue, retryQueue, ready, abandoned, attempt, deadLetters, pending, fate, late>>,
           {subscribed', started', stopping', canceled', overran'} \subseteq BOOLEAN,
           stop' \in {"running", "unsubscribed", "abandoning", "burying", "drained", "canceled",
                      "broadcast", "stopped", "timed out"},
           StopInv'
    PROVE  IInv'
  <1>1. /\ DOMAIN sender = Sender /\ Queued' = Queued /\ Open' = Open
        /\ UNCHANGED <<handler, retryQueue, ready, abandoned, attempt, pending, fate>>
    <2>1. DOMAIN sender = Sender
      BY DEF IInv, TypeOK
    <2>2. UNCHANGED <<handler, queue, retryQueue, ready, abandoned, attempt, pending, fate>>
      OBVIOUS
    <2>3. Queued' = Queued /\ Open' = Open
      BY <2>2 DEF Queued, Open
    <2> QED
      BY <2>1, <2>2, <2>3
  <1>2. Cur(sender') = Cur(sender) /\ Distinct(sender')
    <2>1. Distinct(sender) /\ DOMAIN sender' = Sender
      BY DEF IInv, PlacesInv
    <2>2. DOMAIN sender = Sender /\ \A s \in Sender : sender'[s].cur = sender[s].cur
      BY <1>1
    <2> QED
      BY ONLY <2>1, <2>2 DEF Distinct, Cur
  <1>3. TypeOK'
    BY DEF IInv, TypeOK, SenderState
  <1>4. PlacesInv'
    <2>1. NoRepeat(queue)' /\ PlacesInv
      BY DEF IInv, PlacesInv, NoRepeat
    <2> QED
      BY <1>1, <1>2, <2>1 DEF PlacesInv
  <1>5. CountInv' /\ AttemptInv'
    BY <1>1 DEF IInv, CountInv, AttemptInv
  <1>6. \A e \in Event : HandlerInv(e)'
    BY <1>1, HandlersKeep
  <1> QED
    BY <1>3, <1>4, <1>5, <1>6 DEF IInv

\* The loops go on, exit or decide on a retry; a delivery to retry has attempts left.
LEMMA LoopPreserves ==
    ASSUME IInv,
           \/ FindsNothing \/ Waits \/ NoneDue \/ TimerFires \/ ProcessorExits
           \/ \E s \in Sender : WorkerExits(s) \/ RetryDecided(s)
    PROVE  IInv'
  <1>1. /\ UNCHANGED <<handler, queue, retryQueue, ready, abandoned, attempt, deadLetters, pending, fate, late>>
        /\ UNCHANGED <<subscribed, started, stopping, canceled, stop, overran>>
    BY DEF FindsNothing, Waits, NoneDue, TimerFires, ProcessorExits, WorkerExits, RetryDecided,
           ElsewhereUnchanged, lifecycle
  <1>2. /\ sender \in [Sender -> SenderState] /\ Processor \in Sender
        /\ \A s \in Sender : SenderInv(s)
    BY DEF IInv, TypeOK, SenderState, Sender
  <1>3. \E s \in Sender, pc \in {"idle", "scheduling", "deciding", "waiting", "asleep", "off"} :
            /\ sender' = [sender EXCEPT ![s].pc = pc]
            /\ pc \in {"scheduling"} <=> sender[s].cur # NoDelivery
            /\ pc = "scheduling" => attempt[sender[s].cur] < MaxRetries[sender[s].cur[2]]
    <2>1. CASE FindsNothing \/ Waits \/ NoneDue \/ TimerFires
      <3>1. sender[Processor].cur = NoDelivery
        BY <1>2, <2>1 DEF FindsNothing, Waits, NoneDue, TimerFires, AtTop, Idle, ProcessorAt, SenderInv
      <3> QED
        BY <1>2, <2>1, <3>1 DEF FindsNothing, Waits, NoneDue, TimerFires, ProcessorGoes
    <2>2. ASSUME NEW s \in Sender, sender' = [sender EXCEPT ![s] = Off], sender[s].cur = NoDelivery
          PROVE  sender' = [sender EXCEPT ![s].pc = "off"]
      BY <1>2, <2>2 DEF Off, SenderState
    <2>3. CASE ProcessorExits
      <3>1. sender[Processor].cur = NoDelivery /\ sender' = [sender EXCEPT ![Processor] = Off]
        BY <1>2, <2>3 DEF ProcessorExits, AtTop, Idle, ProcessorAt, SenderInv
      <3> QED
        BY <1>2, <2>2, <3>1
    <2>4. ASSUME NEW s \in Sender, WorkerExits(s) PROVE <1>3
      <3>1. sender[s].cur = NoDelivery /\ sender' = [sender EXCEPT ![s] = Off]
        BY <2>4 DEF WorkerExits, Idle
      <3> QED
        BY <2>2, <3>1
    <2>5. ASSUME NEW s \in Sender, RetryDecided(s) PROVE <1>3
      <3>1. /\ sender' = [sender EXCEPT ![s].pc = "scheduling"] /\ sender[s].cur # NoDelivery
            /\ attempt[sender[s].cur] < MaxRetries[sender[s].cur[2]]
        BY <1>2, <2>5 DEF RetryDecided, MayRetry, SenderInv
      <3> QED
        BY <3>1
    <2> QED
      BY <2>1, <2>3, <2>4, <2>5
  <1>4. PICK s \in Sender, pc \in {"idle", "scheduling", "deciding", "waiting", "asleep", "off"} :
            /\ sender' = [sender EXCEPT ![s].pc = pc]
            /\ pc \in {"scheduling"} <=> sender[s].cur # NoDelivery
            /\ pc = "scheduling" => attempt[sender[s].cur] < MaxRetries[sender[s].cur[2]]
    BY <1>3
  <1>5. /\ sender' \in [Sender -> SenderState] /\ sender'[s].pc = pc /\ sender'[s].cur = sender[s].cur
        /\ \A u \in Sender \ {s} : sender'[u] = sender[u]
    BY <1>2, <1>4 DEF SenderState
  <1>6. \A u \in Sender : sender'[u].cur = sender[u].cur /\ SenderInv(u)'
    BY <1>1, <1>2, <1>4, <1>5 DEF SenderInv
  <1>7. StopInv'
    BY <1>1 DEF IInv, StopInv, PatientStopSettlesAll, Open
  <1> QED
    BY <1>1, <1>5, <1>6, <1>7, NothingMoves DEF IInv, TypeOK

\* scheduleRetry moves the delivery from its goroutine to the list.
LEMMA ScheduleRetryPreserves ==
    ASSUME IInv, NEW s \in Sender, ScheduleRetry(s)
    PROVE  IInv'
  <1>1. /\ UNCHANGED <<handler, queue, ready, abandoned, attempt, deadLetters, pending, fate, late>>
        /\ UNCHANGED <<subscribed, started, stopping, canceled, stop, overran>>
    BY DEF ScheduleRetry, lifecycle
  <1>2. PICK d : d = sender[s].cur
    OBVIOUS
  <1>3. /\ sender \in [Sender -> SenderState] /\ NoRepeat(queue) /\ Processor \in Sender
        /\ \A u \in Sender : SenderInv(u)
        /\ d # NoDelivery /\ d \in Cur(sender) /\ d \in Delivery /\ retryQueue' = retryQueue \cup {d}
        /\ attempt[d] < MaxRetries[d[2]]
    BY <1>2 DEF ScheduleRetry, IInv, TypeOK, SenderState, SenderInv, Cur, PlacesInv, Sender
  <1>4. /\ d \in Open /\ d \notin Queued /\ d \notin Cur(handler)
        /\ d \notin retryQueue /\ d \notin ready /\ d \notin abandoned
    BY <1>3 DEF IInv, PlacesInv
  <1>5. /\ sender' \in [Sender -> SenderState] /\ DOMAIN sender' = Sender /\ sender'[s] = Idle
        /\ \A u \in Sender \ {s} : sender'[u] = sender[u] \/ (sender[u].pc = "waiting" /\ sender'[u] = Idle)
    <2>1. PICK f : f = Done(s)
      OBVIOUS
    <2>2. /\ f \in [Sender -> SenderState] /\ f[s] = Idle
          /\ \A u \in Sender \ {s} : f[u] = sender[u]
      BY <1>3, <2>1 DEF Done, Idle, SenderState
    <2>3. sender' = Woken(f) /\ Idle \in SenderState
      BY <2>1 DEF ScheduleRetry, Idle, SenderState
    <2> QED
      BY <1>3, <2>2, <2>3 DEF Woken
  <1>6. \A u \in Sender \ {s} : sender'[u].cur = sender[u].cur
    BY <1>3, <1>5 DEF SenderInv, Idle
  <1>7. Distinct(sender') /\ Cur(sender') = Cur(sender) \ {d}
    <2>1. NoDelivery \notin Cur(sender) /\ sender'[s].cur = NoDelivery
      BY <1>5 DEF Cur, Idle
    <2>2. /\ Distinct(sender')
          /\ Cur(sender') = (Cur(sender) \ {sender[s].cur}) \cup ({NoDelivery} \ {NoDelivery})
      BY <1>5, <1>6, <2>1, SenderMoves
    <2> QED
      BY <1>2, <2>2
  <1>8. TypeOK'
    <2>1. TypeOK /\ retryQueue' \in SUBSET Delivery
      BY <1>3 DEF IInv, TypeOK
    <2> QED
      BY ONLY <1>1, <1>5, <2>1 DEF TypeOK, SenderState
  <1>9. Queued' = Queued /\ Open' = Open
    BY <1>1 DEF Queued, Open
  <1>10. PlacesInv' /\ CountInv'
    BY <1>1, <1>3, <1>4, <1>7, <1>9 DEF IInv, PlacesInv, CountInv
  <1>11. AttemptInv'
    BY <1>1, <1>3, <1>9 DEF IInv, AttemptInv
  <1>12. StopInv'
    BY <1>1, <1>9 DEF IInv, StopInv, PatientStopSettlesAll
  <1>13. \A e \in Event : HandlerInv(e)'
    BY <1>1, HandlersKeep
  <1>14. \A u \in Sender : SenderInv(u)'
    BY <1>1, <1>3, <1>5 DEF SenderInv, Idle
  <1> QED
    BY <1>8, <1>10, <1>11, <1>12, <1>13, <1>14 DEF IInv

\* What is due changes from the list to the hands of the processor.
LEMMA TakesDuePreserves ==
    ASSUME IInv, NEW due \in SUBSET retryQueue, TakesDue(due)
    PROVE  IInv'
  <1>1. /\ UNCHANGED <<handler, queue, sender, abandoned, attempt, deadLetters, pending, fate, late>>
        /\ UNCHANGED <<subscribed, started, stopping, canceled, stop, overran>>
        /\ ready = {} /\ ready' = due /\ retryQueue' = retryQueue \ due
    BY DEF TakesDue, AtTop, Remaining, ElsewhereUnchanged, lifecycle
  <1>2. Queued' = Queued /\ Open' = Open /\ ready' \in SUBSET Delivery /\ retryQueue' \in SUBSET Delivery
    BY <1>1 DEF Queued, Open, IInv, TypeOK
  <1>3. NoRepeat(queue)' /\ retryQueue' \cup ready' = retryQueue /\ retryQueue' \cap ready' = {}
    BY <1>1 DEF NoRepeat, IInv, PlacesInv
  <1>4. TypeOK'
    BY <1>1, <1>2 DEF IInv, TypeOK
  <1>5. PlacesInv' /\ CountInv' /\ AttemptInv'
    BY <1>1, <1>2, <1>3 DEF IInv, PlacesInv, CountInv, AttemptInv
  <1>6. StopInv'
    BY <1>1, <1>2 DEF IInv, StopInv, PatientStopSettlesAll
  <1>7. (\A e \in Event : HandlerInv(e)') /\ \A s \in Sender : SenderInv(s)'
    BY <1>1, HandlersKeep DEF IInv, SenderInv
  <1> QED
    BY <1>4, <1>5, <1>6, <1>7 DEF IInv

-----------------------------------------------------------------------------
(***************************************************************************)
(* Stop.                                                                   *)
(***************************************************************************)

\* abandonPendingRetries takes the whole list.
LEMMA AbandonRetriesPreserves ==
    ASSUME IInv, AbandonRetries
    PROVE  IInv'
  <1>1. /\ UNCHANGED <<handler, queue, sender, ready, attempt, deadLetters, pending, fate, late>>
        /\ UNCHANGED <<subscribed, started, stopping, canceled, overran>>
        /\ stop = "abandoning" /\ stop' = "burying" /\ abandoned' = retryQueue /\ retryQueue' = {}
    BY DEF AbandonRetries, WorkUnchanged
  <1>2. Queued' = Queued /\ Open' = Open /\ abandoned = {}
    BY <1>1 DEF Queued, Open, IInv, StopInv
  <1>3. NoRepeat(queue)' /\ retryQueue \in SUBSET Delivery
    BY <1>1 DEF NoRepeat, IInv, TypeOK, PlacesInv
  <1>4. TypeOK'
    BY <1>1, <1>3 DEF IInv, TypeOK
  <1>5. PlacesInv' /\ CountInv' /\ AttemptInv'
    BY <1>1, <1>2, <1>3 DEF IInv, PlacesInv, CountInv, AttemptInv
  <1>6. StopInv'
    BY <1>1, <1>2 DEF IInv, StopInv, PatientStopSettlesAll
  <1>7. (\A e \in Event : HandlerInv(e)') /\ \A s \in Sender : SenderInv(s)'
    BY <1>1, HandlersKeep DEF IInv, SenderInv
  <1> QED
    BY <1>4, <1>5, <1>6, <1>7 DEF IInv

\* An abandoned retry ends as a dead letter.
LEMMA BuryAbandonedPreserves ==
    ASSUME IInv, NEW d \in Delivery, BuryAbandoned(d)
    PROVE  IInv'
  <1>1. /\ UNCHANGED <<handler, queue, retryQueue, sender, ready, attempt, late>>
        /\ UNCHANGED <<subscribed, started, stopping, canceled, stop, overran>>
        /\ stop = "burying" /\ d \in abandoned /\ abandoned' = abandoned \ {d}
        /\ deadLetters' = AddDeadLetter(deadLetters, d) /\ Settle(d, "dead")
    BY DEF BuryAbandoned, WorkUnchanged, lifecycle
  <1>2. /\ d \in Open /\ d \notin Queued /\ d \notin Cur(handler) /\ d \notin Cur(sender)
        /\ d \notin retryQueue /\ d \notin ready /\ NoRepeat(queue)
    BY <1>1 DEF IInv, PlacesInv
  <1>3. /\ Open' = Open \ {d} /\ CountInv' /\ pending' \in Nat
        /\ fate' \in [Delivery -> {"none", "open", "delivered", "dropped", "dead"}]
        /\ \A x \in Delivery : fate'[x] = "none" <=> fate[x] = "none"
    BY <1>1, <1>2, SettleKeeps
  <1>4. deadLetters' \in Seq(Delivery) /\ Len(deadLetters') <= DeadLetterLimit
    BY <1>1, DeadLettersBounded DEF IInv, TypeOK
  <1>5. TypeOK'
    BY <1>1, <1>3, <1>4 DEF IInv, TypeOK
  <1>6. Queued' = Queued
    BY <1>1 DEF Queued
  <1>7. PlacesInv'
    BY <1>1, <1>2, <1>3, <1>6 DEF IInv, PlacesInv
  <1>8. AttemptInv'
    BY <1>1, <1>3, <1>6 DEF IInv, AttemptInv
  <1>9. StopInv'
    BY <1>1, <1>3 DEF IInv, StopInv, PatientStopSettlesAll
  <1>10. ASSUME NEW e \in Event PROVE HandlerInv(e)'
    <2>1. \A w \in Webhook : fate[<<e, w>>] = "none" => fate'[<<e, w>>] = "none"
      BY <1>3 DEF Delivery
    <2> QED
      BY <1>1, <2>1, HandlersKeep
  <1>11. \A s \in Sender : SenderInv(s)'
    BY <1>1 DEF IInv, SenderInv
  <1> QED
    BY <1>3, <1>5, <1>7, <1>8, <1>9, <1>10, <1>11 DEF IInv

\* The other steps of Close and Stop.  The counter at zero is an empty manager.
LEMMA StopPreserves ==
    ASSUME IInv, Unsubscribe \/ StopBegins \/ Drained \/ Cancel \/ Broadcast \/ StopReturns
    PROVE  IInv'
  <1>1. UNCHANGED <<handler, queue, retryQueue, ready, abandoned, attempt, deadLetters, pending, fate, late>>
    BY DEF Unsubscribe, StopBegins, Drained, Cancel, Broadcast, StopReturns, WorkUnchanged
  <1>2. /\ {subscribed', started', stopping', canceled', overran'} \subseteq BOOLEAN
        /\ stop' \in {"running", "unsubscribed", "abandoning", "burying", "drained", "canceled",
                      "broadcast", "stopped", "timed out"}
    <2>1. /\ subscribed \in BOOLEAN /\ started \in BOOLEAN /\ stopping \in BOOLEAN
          /\ canceled \in BOOLEAN /\ overran \in BOOLEAN
      BY DEF IInv, TypeOK
    <2>2. ASSUME Drained PROVE overran' \in BOOLEAN
      <3>1. overran' = (pending > 0)
        BY <2>2 DEF Drained
      <3> QED
        BY ONLY <3>1, SMT
    <2>3. overran' \in BOOLEAN
      BY <2>1, <2>2 DEF Unsubscribe, StopBegins, Cancel, Broadcast, StopReturns
    <2>4. /\ subscribed' = subscribed \/ subscribed' = FALSE
          /\ started' = started \/ started' = FALSE
          /\ stopping' = stopping \/ stopping' = TRUE
          /\ canceled' = canceled \/ canceled' = TRUE
      BY DEF Unsubscribe, StopBegins, Drained, Cancel, Broadcast, StopReturns
    <2>5. stop' \in {"unsubscribed", "abandoning", "drained", "canceled", "broadcast", "stopped", "timed out"}
      BY DEF Unsubscribe, StopBegins, Drained, Cancel, Broadcast, StopReturns
    <2> QED
      BY <2>1, <2>3, <2>4, <2>5
  <1>3. /\ sender \in [Sender -> SenderState] /\ Processor \in Sender
        /\ \A s \in Sender : SenderInv(s)
    BY DEF IInv, TypeOK, SenderState, Sender
  <1>4. /\ sender' \in [Sender -> SenderState]
        /\ \A s \in Sender : sender'[s] = sender[s] \/ (sender[s].pc = "waiting" /\ sender'[s] = Idle)
    <2>1. Idle \in SenderState
      BY DEF Idle, SenderState
    <2>2. sender' = sender \/ sender' = Woken(sender)
      BY DEF Unsubscribe, StopBegins, Drained, Cancel, Broadcast, StopReturns
    <2> QED
      BY <1>3, <2>1, <2>2 DEF Woken
  <1>5. \A s \in Sender : sender'[s].cur = sender[s].cur /\ SenderInv(s)'
    BY <1>1, <1>3, <1>4 DEF SenderInv, Idle
  <1>6. StopInv'
    <2>1. Open' = Open
      BY <1>1 DEF Open
    <2>2. CASE Drained
      <3>1. pending = 0 \/ overran'
        <4>1. pending \in Nat
          BY DEF IInv, TypeOK
        <4>2. pending = 0 \/ pending > 0
          BY <4>1
        <4>3. pending > 0 => overran'
          BY <2>2, Zenon DEF Drained
        <4> QED
          BY <4>2, <4>3
      <3>2. pending = 0 => Open = {}
        BY FS_EmptySet DEF IInv, CountInv
      <3> QED
        BY <1>1, <2>1, <2>2, <3>1, <3>2 DEF Drained, IInv, StopInv, PatientStopSettlesAll
    <2>3. CASE Unsubscribe \/ StopBegins
      BY <1>1, <2>1, <2>3 DEF Unsubscribe, StopBegins, IInv, StopInv, PatientStopSettlesAll
    <2>4. CASE Cancel \/ Broadcast \/ StopReturns
      <3>1. /\ stop \in {"drained", "canceled", "broadcast"}
            /\ stop' \in {"canceled", "broadcast", "stopped", "timed out"}
        BY <2>4 DEF Cancel, Broadcast, StopReturns
      <3>2. overran' = overran /\ started' = started
        BY <2>4 DEF Cancel, Broadcast, StopReturns
      <3>3. (overran => overran') /\ (started' => started)
        BY <3>2, Zenon
      <3> QED
        BY <1>1, <2>1, <3>1, <3>3 DEF IInv, StopInv, PatientStopSettlesAll
    <2> QED
      BY <2>2, <2>3, <2>4
  <1> QED
    BY <1>1, <1>2, <1>4, <1>5, <1>6, NothingMoves

-----------------------------------------------------------------------------
(***************************************************************************)
(* The theorems.                                                           *)
(***************************************************************************)

\* Every step of the bus, the manager, its goroutines and Stop keeps the invariant.
LEMMA StepPreserves ==
    ASSUME IInv, [Next]_vars
    PROVE  IInv'
  <1>1. CASE UNCHANGED vars
    <2>1. /\ UNCHANGED <<handler, queue, retryQueue, ready, abandoned, attempt, deadLetters, pending, fate, late>>
          /\ UNCHANGED <<sender, subscribed, started, stopping, canceled, stop, overran>>
      BY <1>1 DEF vars, lifecycle
    <2>2. StopInv' /\ \A s \in Sender : SenderInv(s)'
      BY <2>1 DEF IInv, StopInv, PatientStopSettlesAll, Open, SenderInv
    <2>3. sender' \in [Sender -> SenderState]
      BY <2>1 DEF IInv, TypeOK, SenderState
    <2>4. /\ {subscribed', started', stopping', canceled', overran'} \subseteq BOOLEAN
          /\ stop' \in {"running", "unsubscribed", "abandoning", "burying", "drained", "canceled",
                        "broadcast", "stopped", "timed out"}
      BY <2>1 DEF IInv, TypeOK
    <2> QED
      BY <2>1, <2>2, <2>3, <2>4, NothingMoves
  <1>2. ASSUME NEW e \in Event, Publish(e) \/ HandlerStep(e) PROVE IInv'
    BY <1>2, PublishPreserves, EnqueuePreserves, DropOldestPreserves, EnqueueAgainPreserves DEF HandlerStep
  <1>3. ASSUME NEW s \in Sender, WorkerTakes(s) \/ WorkerExits(s) \/ Answered(s) \/ ScheduleRetry(s)
        PROVE  IInv'
    BY <1>3, WorkerTakesPreserves, LoopPreserves, AnsweredPreserves, ScheduleRetryPreserves DEF Answered
  <1>4. CASE ProcessorStep
    BY <1>4, LoopPreserves, SendsReadyPreserves DEF ProcessorStep
  <1>5. ASSUME NEW due \in SUBSET retryQueue, TakesDue(due) PROVE IInv'
    BY <1>5, TakesDuePreserves
  <1>6. CASE Unsubscribe \/ StopStep
    BY <1>6, StopPreserves, AbandonRetriesPreserves, BuryAbandonedPreserves DEF StopStep
  <1> QED
    BY <1>1, <1>2, <1>3, <1>4, <1>5, <1>6 DEF Next

\* Every reachable state satisfies the invariant.
THEOREM Invariance ==
    Spec => []IInv
  <1>1. Init => IInv
    BY Initially
  <1>2. IInv /\ [Next]_vars => IInv'
    BY StepPreserves
  <1> QED
    BY <1>1, <1>2, PTL DEF Spec

\* The queue and the dead letters keep to their limits, no delivery is attempted
\* too often, and the variables have their types.
THEOREM TypeCorrect ==
    Spec => []TypeOK
  <1>1. IInv => TypeOK
    BY DEF IInv
  <1> QED
    BY <1>1, Invariance, PTL

\* A Stop that waited to the end of pending work leaves open only what was queued
\* behind its back.
THEOREM PatientStop ==
    Spec => []PatientStopSettlesAll
  <1>1. IInv => PatientStopSettlesAll
    BY DEF IInv, StopInv
  <1> QED
    BY <1>1, Invariance, PTL

\* A set without two different elements.
LEMMA AtMostOne ==
    ASSUME NEW S, \A x, y \in S : x = y
    PROVE  /\ S = {} => Cardinality(S) = 0
           /\ S # {} => Cardinality(S) = 1
  <1>1. S = {} => Cardinality(S) = 0
    BY FS_EmptySet
  <1>2. ASSUME S # {} PROVE Cardinality(S) = 1
    <2>1. PICK x : x \in S
      BY <1>2
    <2>2. S = {x}
      BY <2>1
    <2> QED
      BY <2>2, FS_Singleton
  <1> QED
    BY <1>1, <1>2

\* The copies that Copies counts are the places of the invariant.
LEMMA OnePlace ==
    IInv => EachDeliveryIsInOnePlace
  <1> SUFFICES ASSUME IInv, NEW d \in Delivery PROVE Copies(d) = IF d \in Open THEN 1 ELSE 0
    BY DEF EachDeliveryIsInOnePlace, IInv, CountInv
  <1>1. PlacesInv /\ DOMAIN handler = Event /\ DOMAIN sender = Sender /\ d # NoDelivery
    BY WebhookAssumption DEF IInv, TypeOK, WebhookAssumption, Delivery
  <1> DEFINE Q == {i \in DOMAIN queue : queue[i] = d}
             S == {s \in Sender : sender[s].cur = d}
             H == {e \in Event : handler[e].cur = d}
             L == {p \in {"retry", "ready", "abandoned"} :
                     d \in (CASE p = "retry" -> retryQueue [] p = "ready" -> ready
                               [] p = "abandoned" -> abandoned)}
  <1>2. (\A x, y \in Q : x = y) /\ (Q = {} <=> d \notin Queued)
    BY <1>1 DEF PlacesInv, NoRepeat, Queued
  <1>3. (\A x, y \in S : x = y) /\ (S = {} <=> d \notin Cur(sender))
    BY <1>1 DEF PlacesInv, Distinct, Cur
  <1>4. (\A x, y \in H : x = y) /\ (H = {} <=> d \notin Cur(handler))
    BY <1>1 DEF PlacesInv, Distinct, Cur
  <1>5. (\A x, y \in L : x = y) /\ (L = {} <=> d \notin retryQueue \cup ready \cup abandoned)
    <2>1. /\ "retry" \in L <=> d \in retryQueue
          /\ "ready" \in L <=> d \in ready
          /\ "abandoned" \in L <=> d \in abandoned
          /\ L \subseteq {"retry", "ready", "abandoned"}
      OBVIOUS
    <2>2. /\ ~(d \in retryQueue /\ d \in ready) /\ ~(d \in retryQueue /\ d \in abandoned)
          /\ ~(d \in ready /\ d \in abandoned)
      BY <1>1 DEF PlacesInv
    <2> HIDE DEF L
    <2> QED
      BY <2>1, <2>2
  <1>6. /\ d \in Open <=> \/ d \in Queued \/ d \in Cur(sender) \/ d \in Cur(handler)
                          \/ d \in retryQueue \cup ready \cup abandoned
        /\ ~(d \in Queued /\ d \in Cur(sender)) /\ ~(d \in Queued /\ d \in Cur(handler))
        /\ ~(d \in Queued /\ d \in retryQueue \cup ready \cup abandoned)
        /\ ~(d \in Cur(sender) /\ d \in Cur(handler))
        /\ ~(d \in Cur(sender) /\ d \in retryQueue \cup ready \cup abandoned)
        /\ ~(d \in Cur(handler) /\ d \in retryQueue \cup ready \cup abandoned)
    BY <1>1 DEF PlacesInv
  <1>7. Copies(d) = Cardinality(Q) + Cardinality(S) + Cardinality(H) + Cardinality(L)
    BY DEF Copies
  <1> HIDE DEF Q, S, H, L
  <1>8. /\ Cardinality(Q) = IF d \in Queued THEN 1 ELSE 0
        /\ Cardinality(S) = IF d \in Cur(sender) THEN 1 ELSE 0
        /\ Cardinality(H) = IF d \in Cur(handler) THEN 1 ELSE 0
        /\ Cardinality(L) = IF d \in retryQueue \cup ready \cup abandoned THEN 1 ELSE 0
    BY <1>2, <1>3, <1>4, <1>5, AtMostOne
  <1> QED
    BY <1>6, <1>7, <1>8

\* A delivery that Dispatch accepted is in one place until its end, and in none
\* afterwards; the counter of Stop counts the deliveries without an end.
THEOREM NeitherLostNorDoubled ==
    Spec => []EachDeliveryIsInOnePlace
  <1> QED
    BY OnePlace, Invariance, PTL

\* What an ended delivery came to does not change, and no request is made for it again.
EndsAreFinal ==
    [][\A d \in Delivery : fate[d] \in {"delivered", "dropped", "dead"}
           => fate'[d] = fate[d] /\ attempt'[d] = attempt[d]]_vars

\* No step finds an ended delivery in its place.
LEMMA EndIsKept ==
    ASSUME IInv, [Next]_vars, NEW d \in Delivery, fate[d] \in {"delivered", "dropped", "dead"}
    PROVE  fate'[d] = fate[d] /\ attempt'[d] = attempt[d]
  <1>1. d \notin Queued /\ d \notin Cur(handler) /\ d \notin Cur(sender) /\ d \notin ready /\ d \notin abandoned
    <2>1. d \notin Open
      BY DEF Open
    <2> QED
      BY <2>1 DEF IInv, PlacesInv
  <1>2. /\ fate \in [Delivery -> {"none", "open", "delivered", "dropped", "dead"}]
        /\ attempt \in [Delivery -> Nat] /\ DOMAIN handler = Event /\ DOMAIN sender = Sender
        /\ d # NoDelivery
    BY WebhookAssumption DEF IInv, TypeOK, AttemptInv, WebhookAssumption, Delivery
  <1>3. queue # <<>> => Head(queue) # d
    <2>1. ASSUME queue # <<>> PROVE Head(queue) \in Queued
      <3>1. queue \in Seq(Delivery) /\ NoRepeat(queue)
        BY DEF IInv, TypeOK, PlacesInv
      <3>2. PICK r : r = Tail(queue)
        OBVIOUS
      <3>3. Head(queue) \in Elements(queue)
        BY <2>1, <3>1, <3>2, TailPlace
      <3> QED
        BY <3>3 DEF Queued, Elements
    <2> QED
      BY <1>1, <2>1
  <1>4. \A e \in Event : handler[e].cur # d
    BY <1>1, <1>2 DEF Cur
  <1>5. \A s \in Sender : sender[s].cur # d
    BY <1>1, <1>2 DEF Cur
  <1>6. ASSUME NEW e \in Event, Enqueue(e) PROVE fate'[d] = fate[d] /\ attempt' = attempt
    <2>1. PICK w \in handler[e].todo : fate' = [fate EXCEPT ![<<e, w>>] = "open"]
      BY <1>6 DEF Enqueue
    <2>2. fate[<<e, w>>] = "none"
      <3>1. handler[e].cur = NoDelivery /\ HandlerInv(e) /\ w \in Webhook
        BY <1>6 DEF Enqueue, IInv, TypeOK, HandlerInv
      <3>2. <<e, w>> # NoDelivery
        BY <3>1, WebhookAssumption DEF WebhookAssumption
      <3> QED
        BY <3>1, <3>2 DEF HandlerInv
    <2>3. <<e, w>> # d
      BY <2>2
    <2> QED
      BY <1>2, <1>6, <2>1, <2>3 DEF Enqueue
  <1>7. ASSUME NEW e \in Event, Publish(e) \/ HandlerStep(e)
        PROVE  fate'[d] = fate[d] /\ attempt' = attempt
    <2>1. CASE Publish(e) \/ DispatchBegins(e)
      BY <2>1 DEF Publish, DispatchBegins
    <2>2. CASE DropOldest(e)
      BY <1>2, <1>3, <2>2 DEF DropOldest
    <2>3. CASE EnqueueAgain(e)
      BY <1>2, <1>4, <2>3 DEF EnqueueAgain
    <2> QED
      BY <1>6, <1>7, <2>1, <2>2, <2>3 DEF HandlerStep
  <1>8. ASSUME NEW s \in Sender, WorkerTakes(s) \/ WorkerExits(s) \/ Answered(s) \/ ScheduleRetry(s)
        PROVE  fate'[d] = fate[d] /\ attempt'[d] = attempt[d]
    <2>1. CASE WorkerTakes(s)
      BY <1>2, <1>3, <2>1 DEF WorkerTakes
    <2>2. CASE WorkerExits(s) \/ RetryDecided(s) \/ ScheduleRetry(s)
      BY <2>2 DEF WorkerExits, RetryDecided, ScheduleRetry
    <2>3. CASE SendSucceeds(s) \/ SendFails(s)
      BY <1>2, <1>5, <2>3 DEF SendSucceeds, SendFails, Bury, Settle
    <2> QED
      BY <1>8, <2>1, <2>2, <2>3 DEF Answered
  <1>9. ASSUME NEW x \in Delivery, SendsReady(x) PROVE fate' = fate /\ attempt'[d] = attempt[d]
    BY <1>1, <1>2, <1>9 DEF SendsReady, ElsewhereUnchanged
  <1>10. ASSUME NEW x \in Delivery, BuryAbandoned(x) PROVE fate'[d] = fate[d] /\ attempt' = attempt
    BY <1>1, <1>2, <1>10 DEF BuryAbandoned, Settle, WorkUnchanged
  <1>11. CASE ProcessorStep
    BY <1>9, <1>11 DEF ProcessorStep, FindsNothing, Waits, NoneDue, TimerFires, ProcessorExits, ElsewhereUnchanged
  <1>12. ASSUME NEW due \in SUBSET retryQueue, TakesDue(due) PROVE fate' = fate /\ attempt' = attempt
    BY <1>12 DEF TakesDue, ElsewhereUnchanged
  <1>13. CASE Unsubscribe \/ StopStep
    <2>1. CASE \/ Unsubscribe \/ StopBegins \/ AbandonRetries \/ Drained \/ Cancel \/ Broadcast \/ StopReturns
      BY <2>1 DEF Unsubscribe, StopBegins, AbandonRetries, Drained, Cancel, Broadcast, StopReturns, WorkUnchanged
    <2> QED
      BY <1>10, <1>13, <2>1 DEF StopStep
  <1>14. CASE UNCHANGED vars
    BY <1>14 DEF vars
  <1> QED
    BY <1>7, <1>8, <1>11, <1>12, <1>13, <1>14 DEF Next

\* An ended delivery stays as it ended: it is not sent again, and not counted twice.
THEOREM FinalEnds ==
    Spec => EndsAreFinal
  <1>1. IInv /\ [Next]_vars
            => [\A d \in Delivery : fate[d] \in {"delivered", "dropped", "dead"}
                    => fate'[d] = fate[d] /\ attempt'[d] = attempt[d]]_vars
    BY EndIsKept
  <1> QED
    BY <1>1, Invariance, PTL DEF Spec, EndsAreFinal
================================================================================
