-------------------------- MODULE KafkaPublisher ---------------------------
(***************************************************************************)
(* The Kafka publisher (waiverdb/messaging/kafka.py) in one process: calls *)
(* of the after_commit hook, in the threads of the process or one after    *)
(* another, that share one confluent_kafka Producer and its queue.         *)
(*                                                                         *)
(* produce() puts a message in the queue; librdkafka delivers it or gives  *)
(* up in a thread of its own and leaves a report; flush(), whoever calls   *)
(* it, runs the callbacks of all reports and waits for the whole queue.    *)
(* A call that gives up waiting leaves its messages in the queue.          *)
(***************************************************************************)
EXTENDS Naturals, FiniteSets

CONSTANTS
    Call,          \* the calls of publish_new_waiver
    Size,          \* call -> how many waivers its session holds
    Unrenderable,  \* the messages json or marshal cannot make
    QueueLimit,    \* queue.buffering.max.messages of librdkafka
    Nothing

ASSUME SizeAssumption == Size \in [Call -> Nat]
ASSUME QueueLimitAssumption == QueueLimit \in Nat

Message == UNION {{<<c, i>> : i \in 1..Size[c]} : c \in Call}
BatchOf(c) == {m \in Message : m[1] = c}

(* Nothing is no batch.                                                    *)
ASSUME NothingAssumption == \A c \in Call : Nothing # BatchOf(c)

VARIABLES
    state,     \* call -> where it is
    produced,  \* call -> its messages given to the producer
    error,     \* call -> delivery_error is set
    queue,     \* messages librdkafka has not settled
    reports,   \* settled messages whose callback has not run: message, is it an error
    bus,       \* messages the broker has
    toSend,    \* messaging_tx_to_send
    sentOk,    \* messaging_tx_sent_ok
    failed     \* messaging_tx_failed

vars == <<state, produced, error, queue, reports, bus, toSend, sentOk, failed>>
counters == <<toSend, sentOk, failed>>

State == {"new", "produce", "flush", "returned", "raised"}

Init ==
    /\ state = [c \in Call |-> "new"]
    /\ produced = [c \in Call |-> {}]
    /\ error = [c \in Call |-> FALSE]
    /\ queue = {} /\ reports = {} /\ bus = {}
    /\ toSend = 0 /\ sentOk = 0 /\ failed = 0

GoTo(c, s) == state' = [state EXCEPT ![c] = s]

(* len(producer): messages whose callback has not run.                     *)
Remaining == queue \cup {report[1] : report \in reports}

Begin(c) ==
    /\ state[c] = "new"
    /\ GoTo(c, "produce")
    /\ UNCHANGED <<produced, error, queue, reports, bus, counters>>

Produce_CountsSent(c) ==
    /\ state[c] = "produce"
    /\ \E m \in BatchOf(c) \ (produced[c] \cup Unrenderable) :
         /\ Cardinality(Remaining) < QueueLimit
         /\ queue' = queue \cup {m}
         /\ produced' = [produced EXCEPT ![c] = @ \cup {m}]
    /\ toSend' = toSend + 1 /\ sentOk' = sentOk + 1
    /\ UNCHANGED <<state, error, reports, bus, failed>>

Produce(c) ==
    /\ state[c] = "produce"
    /\ \E m \in BatchOf(c) \ (produced[c] \cup Unrenderable) :
         /\ Cardinality(Remaining) < QueueLimit
         /\ queue' = queue \cup {m}
         /\ produced' = [produced EXCEPT ![c] = @ \cup {m}]
    /\ toSend' = toSend + 1
    /\ UNCHANGED <<state, error, reports, bus, sentOk, failed>>

(* Marshalling raises, or produce() raises BufferError: out of the loop,   *)
(* with the messages produced so far in the queue.                         *)
ProduceRaises(c) ==
    /\ state[c] = "produce"
    /\ \E m \in BatchOf(c) \ produced[c] :
         m \in Unrenderable \/ Cardinality(Remaining) >= QueueLimit
    /\ toSend' = toSend + 1
    /\ GoTo(c, "raised")
    /\ UNCHANGED <<produced, error, queue, reports, bus, sentOk, failed>>

Flush(c) ==
    /\ state[c] = "produce" /\ produced[c] = BatchOf(c)
    /\ GoTo(c, "flush")
    /\ UNCHANGED <<produced, error, queue, reports, bus, counters>>

(* The delivery callback of a message, run by the flush of any call.       *)
DeliveryCallback_CountsOnly(m, isError) ==
    IF isError
      THEN failed' = failed + 1 /\ UNCHANGED <<sentOk, error>>
      ELSE sentOk' = sentOk + 1 /\ UNCHANGED <<failed, error>>

DeliveryCallback_TakesBack(m, isError) ==
    /\ failed' = IF isError THEN failed + 1 ELSE failed
    /\ sentOk' = IF isError THEN sentOk - 1 ELSE sentOk + 1
    /\ error' = [error EXCEPT ![m[1]] = @ \/ isError]

DeliveryCallback(m, isError) ==
    IF isError
      THEN /\ failed' = failed + 1
           /\ error' = [error EXCEPT ![m[1]] = TRUE]
           /\ UNCHANGED sentOk
      ELSE sentOk' = sentOk + 1 /\ UNCHANGED <<failed, error>>

Serve(c) ==
    /\ state[c] = "flush"
    /\ \E report \in reports :
         /\ reports' = reports \ {report}
         /\ DeliveryCallback(report[1], report[2])
    /\ UNCHANGED <<state, produced, queue, bus, toSend>>

FlushDone_IgnoresError(c) ==
    /\ state[c] = "flush" /\ Remaining = {}
    /\ GoTo(c, "returned")
    /\ UNCHANGED <<produced, error, queue, reports, bus, counters>>

FlushDone(c) ==
    /\ state[c] = "flush" /\ Remaining = {}
    /\ GoTo(c, IF error[c] THEN "raised" ELSE "returned")
    /\ UNCHANGED <<produced, error, queue, reports, bus, counters>>

FlushTimeout_Never(c) == FALSE /\ UNCHANGED vars

FlushTimeout(c) ==
    /\ state[c] = "flush" /\ Remaining # {}
    /\ failed' = failed + 1
    /\ GoTo(c, "raised")
    /\ UNCHANGED <<produced, error, queue, reports, bus, toSend, sentOk>>

(* librdkafka: the broker acknowledges a message, or its delivery fails    *)
(* for good, when a lost acknowledgement may hide a delivery.              *)
Deliver(m) ==
    /\ m \in queue
    /\ queue' = queue \ {m}
    /\ reports' = reports \cup {<<m, FALSE>>}
    /\ bus' = bus \cup {m}
    /\ UNCHANGED <<state, produced, error, counters>>

DeliveryFails(m) ==
    /\ m \in queue
    /\ queue' = queue \ {m}
    /\ reports' = reports \cup {<<m, TRUE>>}
    /\ bus' \in {bus, bus \cup {m}}
    /\ UNCHANGED <<state, produced, error, counters>>

(* The process dies, and with it the queue; another takes its place.       *)
Crash ==
    /\ \E c \in Call : state[c] \in {"produce", "flush"}
    /\ state' = [c \in Call |-> IF state[c] \in {"produce", "flush"} THEN "raised" ELSE state[c]]
    /\ queue' = {} /\ reports' = {}
    /\ UNCHANGED <<produced, error, bus, counters>>

Step(c) ==
    Produce(c) \/ ProduceRaises(c) \/ Flush(c) \/ Serve(c) \/ FlushDone(c) \/ FlushTimeout(c)

Next ==
    \/ \E c \in Call : Begin(c) \/ Step(c)
    \/ \E m \in Message : Deliver(m) \/ DeliveryFails(m)
    \/ Crash

(* The broker owes nothing; flush() has a time limit.                      *)
Spec == Init /\ [][Next]_vars /\ \A c \in Call : WF_vars(Step(c))

----------------------------------------------------------------------------

(* Every variable holds a value of its kind.                               *)
TypeOK ==
    /\ state \in [Call -> State]
    /\ produced \in [Call -> SUBSET Message]
    /\ error \in [Call -> BOOLEAN]
    /\ queue \subseteq Message /\ bus \subseteq Message
    /\ reports \subseteq Message \X BOOLEAN
    /\ toSend \in Nat /\ sentOk \in Nat /\ failed \in Nat

Given == [c \in Call |-> IF state[c] = "new" THEN Nothing ELSE BatchOf(c)]

Outcome == [c \in Call |-> IF state[c] \in {"returned", "raised"} THEN state[c] ELSE "no"]

P == INSTANCE Publisher WITH offered <- Given, sent <- bus, dropped <- {}, ended <- Outcome

(* A call gets one batch, sends of it what it can, gives up nothing, and   *)
(* ends as the hook expects, in an exception unless all is out             *)
(* (kafka.py:60-99).                                                       *)
ImplementsPublisher == P!Spec

(* A call that returns has every message of its session on the bus, also   *)
(* when the flush of another call ran its callbacks, or left messages of   *)
(* its own behind (kafka.py:73-99).                                        *)
ReturnedIsSent == \A c \in Call : state[c] = "returned" => BatchOf(c) \subseteq bus

(* Delivered messages that are not counted yet.                            *)
Acknowledged == {m \in Message : <<m, FALSE>> \in reports}

(* messaging_tx_sent_ok never counts a message the broker does not have,   *)
(* although any flush may run any call's callback, late or after the call  *)
(* that produced the message has given up (kafka.py:63-71).                *)
SentIsDelivered == sentOk + Cardinality(Acknowledged) <= Cardinality(bus)

(* No call waits for ever, although the broker may never answer            *)
(* (kafka.py:85).                                                          *)
EveryCallEnds == \A c \in Call : state[c] = "produce" ~> state[c] \in {"returned", "raised"}

============================================================================
