------------------------ MODULE KafkaPublisherProofs ------------------------
(***************************************************************************)
(* The Kafka publisher, for every number of calls, batches of every size   *)
(* and a queue of every length: what it counts as sent is on the bus, and  *)
(* a call that returns has its whole batch there.                          *)
(***************************************************************************)
EXTENDS KafkaPublisher, FiniteSetTheorems, TLAPS

----------------------------------------------------------------------------
(* The inductive invariant.                                                *)

(* A message is produced once: what has left the queue does not enter it   *)
(* again, so no delivery is counted twice.                                 *)
ProducedOnce ==
    /\ \A m \in queue : m \in produced[m[1]] /\ m \notin bus
    /\ \A m \in bus : m \in produced[m[1]]
    /\ Acknowledged \subseteq bus /\ IsFiniteSet(bus)

(* What a running call produced is in the queue, or on the bus, or failed, *)
(* which its flag says once the callback has run.                          *)
AccountedFor(c) ==
    \A m \in produced[c] : m \in queue \cup bus \/ <<m, TRUE>> \in reports \/ error[c]

CallInStep(c) ==
    /\ produced[c] \subseteq BatchOf(c)
    /\ state[c] = "new" => produced[c] = {}
    /\ state[c] = "flush" => produced[c] = BatchOf(c)
    /\ state[c] \in {"produce", "flush"} => AccountedFor(c)

IInv == TypeOK /\ ProducedOnce /\ SentIsDelivered /\ \A c \in Call : CallInStep(c)

----------------------------------------------------------------------------

LEMMA MessageCall == \A m \in Message : m[1] \in Call /\ m \in BatchOf(m[1])
  BY DEF Message, BatchOf

LEMMA BatchType == \A c \in Call : BatchOf(c) \subseteq Message /\ \A m \in BatchOf(c) : m[1] = c
  BY DEF BatchOf

(* The callback counts and flags, whatever it is told.                     *)
LEMMA CallbackType ==
    ASSUME TypeOK, NEW m \in Message, NEW isError \in BOOLEAN, DeliveryCallback(m, isError)
    PROVE  /\ sentOk' \in Nat /\ failed' \in Nat
           /\ error' \in [Call -> BOOLEAN]
           /\ \A c \in Call : error[c] => error'[c]
           /\ isError => error'[m[1]] = TRUE /\ sentOk' = sentOk
           /\ ~isError => error' = error /\ sentOk' = sentOk + 1
  <1>1. m[1] \in Call
    BY MessageCall
  <1>2. CASE isError
    <2>1. error' = [error EXCEPT ![m[1]] = TRUE] /\ failed' = failed + 1 /\ sentOk' = sentOk
      BY <1>2 DEF DeliveryCallback
    <2>2. \A c \in Call : error'[c] = IF c = m[1] THEN TRUE ELSE error[c]
      BY <2>1 DEF TypeOK
    <2>3. error' \in [Call -> BOOLEAN]
      BY <2>1 DEF TypeOK
    <2> QED
      BY <1>1, <1>2, <2>1, <2>2, <2>3 DEF TypeOK
  <1>3. CASE ~isError
    BY <1>1, <1>3 DEF DeliveryCallback, TypeOK
  <1> QED
    BY <1>2, <1>3

(* The report that a flush serves.                                         *)
LEMMA ServeIs ==
    ASSUME TypeOK, NEW c \in Call, Serve(c)
    PROVE  \E m \in Message, isError \in BOOLEAN :
             /\ <<m, isError>> \in reports /\ reports' = reports \ {<<m, isError>>}
             /\ DeliveryCallback(m, isError)
             /\ UNCHANGED <<state, produced, queue, bus, toSend>>
  <1>1. PICK report \in reports :
          reports' = reports \ {report} /\ DeliveryCallback(report[1], report[2])
    BY DEF Serve
  <1>2. PICK m \in Message, isError \in BOOLEAN : report = <<m, isError>>
    BY DEF TypeOK
  <1>3. report[1] = m /\ report[2] = isError
    BY <1>2
  <1> QED
    BY <1>1, <1>2, <1>3 DEF Serve

----------------------------------------------------------------------------
(* Types.                                                                  *)

LEMMA InitType == Init => TypeOK
  BY DEF Init, TypeOK, State

LEMMA NextType == TypeOK /\ [Next]_vars => TypeOK'
  <1> SUFFICES ASSUME TypeOK, [Next]_vars PROVE TypeOK'
    OBVIOUS
  <1> USE DEF TypeOK, counters, GoTo, State
  <1>1. ASSUME NEW c \in Call, Begin(c) PROVE TypeOK'
    BY <1>1 DEF Begin
  <1>2. ASSUME NEW c \in Call, Produce(c) PROVE TypeOK'
    BY <1>2, BatchType DEF Produce
  <1>3. ASSUME NEW c \in Call, ProduceRaises(c) PROVE TypeOK'
    BY <1>3 DEF ProduceRaises
  <1>4. ASSUME NEW c \in Call, Flush(c) PROVE TypeOK'
    BY <1>4 DEF Flush
  <1>5. ASSUME NEW c \in Call, Serve(c) PROVE TypeOK'
    <2>1. PICK m \in Message, isError \in BOOLEAN :
            /\ reports' = reports \ {<<m, isError>>}
            /\ DeliveryCallback(m, isError)
            /\ UNCHANGED <<state, produced, queue, bus, toSend>>
      BY <1>5, ServeIs
    <2>2. sentOk' \in Nat /\ failed' \in Nat /\ error' \in [Call -> BOOLEAN]
      BY <2>1, CallbackType
    <2> QED
      BY <2>1, <2>2
  <1>6. ASSUME NEW c \in Call, FlushDone(c) PROVE TypeOK'
    BY <1>6 DEF FlushDone
  <1>7. ASSUME NEW c \in Call, FlushTimeout(c) PROVE TypeOK'
    BY <1>7 DEF FlushTimeout
  <1>8. ASSUME NEW m \in Message, Deliver(m) \/ DeliveryFails(m) PROVE TypeOK'
    <2>1. queue' \subseteq Message /\ bus' \subseteq Message
      BY <1>8 DEF Deliver, DeliveryFails
    <2>2. reports' \subseteq Message \X BOOLEAN
      <3>1. PICK isError \in BOOLEAN : reports' = reports \cup {<<m, isError>>}
        BY <1>8 DEF Deliver, DeliveryFails
      <3>2. <<m, isError>> \in Message \X BOOLEAN
        OBVIOUS
      <3> QED
        BY <3>1, <3>2
    <2> QED
      BY <1>8, <2>1, <2>2 DEF Deliver, DeliveryFails
  <1>9. CASE Crash
    BY <1>9 DEF Crash
  <1>10. CASE UNCHANGED vars
    BY <1>10 DEF vars
  <1> QED
    BY <1>1, <1>2, <1>3, <1>4, <1>5, <1>6, <1>7, <1>8, <1>9, <1>10 DEF Next, Step

(* Every variable holds a value of its kind.                               *)
THEOREM TypeCorrectness == Spec => []TypeOK
  BY InitType, NextType, PTL DEF Spec

----------------------------------------------------------------------------
(* The counter of sent messages.                                           *)

(* The steps of a call leave what is settled alone, unless they run a      *)
(* callback.                                                               *)
LEMMA CountUnchanged ==
    ASSUME SentIsDelivered, UNCHANGED <<sentOk, reports, bus>>
    PROVE  SentIsDelivered'
  BY DEF SentIsDelivered, Acknowledged

LEMMA ServeCounts ==
    ASSUME TypeOK, ProducedOnce, SentIsDelivered, NEW c \in Call, Serve(c)
    PROVE  ProducedOnce' /\ SentIsDelivered'
  <1>1. PICK m \in Message, isError \in BOOLEAN :
          /\ <<m, isError>> \in reports /\ reports' = reports \ {<<m, isError>>}
          /\ DeliveryCallback(m, isError)
          /\ UNCHANGED <<state, produced, queue, bus, toSend>>
    BY ServeIs
  <1>2. IsFiniteSet(Acknowledged) /\ Cardinality(Acknowledged) \in Nat
    BY FS_Subset, FS_CardinalityType DEF ProducedOnce
  <1>3. ProducedOnce'
    BY <1>1 DEF ProducedOnce, Acknowledged
  <1>4. CASE isError
    <2>1. Acknowledged' = Acknowledged
      BY <1>1, <1>4 DEF Acknowledged
    <2> QED
      BY <1>1, <1>3, <1>4, <2>1, CallbackType DEF SentIsDelivered
  <1>5. CASE ~isError
    <2>1. m \in Acknowledged /\ Acknowledged' = Acknowledged \ {m}
      BY <1>1, <1>5 DEF Acknowledged
    <2>2. Cardinality(Acknowledged') = Cardinality(Acknowledged) - 1
      BY <1>2, <2>1, FS_RemoveElement
    <2>3. sentOk \in Nat /\ sentOk' = sentOk + 1
      BY <1>1, <1>5, CallbackType DEF TypeOK
    <2>4. Cardinality(bus) \in Nat
      BY FS_CardinalityType DEF ProducedOnce
    <2> QED
      BY <1>1, <1>2, <1>3, <2>2, <2>3, <2>4 DEF SentIsDelivered
  <1> QED
    BY <1>4, <1>5

LEMMA DeliverCounts ==
    ASSUME TypeOK, ProducedOnce, SentIsDelivered, NEW m \in Message, Deliver(m)
    PROVE  ProducedOnce' /\ SentIsDelivered'
  <1>1. /\ m \in queue /\ m \notin bus /\ m \notin Acknowledged
        /\ queue' = queue \ {m} /\ bus' = bus \cup {m}
        /\ reports' = reports \cup {<<m, FALSE>>}
        /\ UNCHANGED <<produced, sentOk>>
    BY DEF Deliver, ProducedOnce, counters
  <1>2. Acknowledged' = Acknowledged \cup {m}
    BY <1>1 DEF Acknowledged
  <1>3. /\ IsFiniteSet(bus') /\ Cardinality(bus') = Cardinality(bus) + 1
        /\ Cardinality(bus) \in Nat
    BY <1>1, FS_AddElement, FS_CardinalityType DEF ProducedOnce
  <1>4. /\ Cardinality(Acknowledged') = Cardinality(Acknowledged) + 1
        /\ Cardinality(Acknowledged) \in Nat
    <2>1. IsFiniteSet(Acknowledged)
      BY FS_Subset DEF ProducedOnce
    <2> QED
      BY <1>1, <1>2, <2>1, FS_AddElement, FS_CardinalityType
  <1>5. ProducedOnce'
    BY <1>1, <1>2, <1>3 DEF ProducedOnce
  <1>6. SentIsDelivered'
    BY <1>1, <1>3, <1>4 DEF SentIsDelivered, TypeOK
  <1> QED
    BY <1>5, <1>6

LEMMA FailureCounts ==
    ASSUME TypeOK, ProducedOnce, SentIsDelivered, NEW m \in Message, DeliveryFails(m)
    PROVE  ProducedOnce' /\ SentIsDelivered'
  <1>1. /\ m \in queue
        /\ queue' = queue \ {m} /\ bus' \in {bus, bus \cup {m}}
        /\ reports' = reports \cup {<<m, TRUE>>}
        /\ UNCHANGED <<produced, sentOk>>
    BY DEF DeliveryFails, counters
  <1>2. Acknowledged' = Acknowledged
    BY <1>1 DEF Acknowledged
  <1>3. /\ IsFiniteSet(bus') /\ Cardinality(bus) <= Cardinality(bus')
        /\ Cardinality(bus) \in Nat /\ Cardinality(bus') \in Nat
    <2>1. IsFiniteSet(bus) /\ Cardinality(bus) \in Nat
      BY FS_CardinalityType DEF ProducedOnce
    <2>2. IsFiniteSet(bus \cup {m}) /\ Cardinality(bus \cup {m}) \in {Cardinality(bus), Cardinality(bus) + 1}
      BY <2>1, FS_AddElement
    <2>3. CASE bus' = bus
      BY <2>1, <2>3
    <2>4. CASE bus' = bus \cup {m}
      <3>1. Cardinality(bus') = Cardinality(bus \cup {m}) /\ IsFiniteSet(bus')
        BY <2>2, <2>4
      <3> QED
        BY <2>1, <2>2, <3>1
    <2> QED
      BY <1>1, <2>3, <2>4
  <1>4. Cardinality(Acknowledged) \in Nat
    BY FS_Subset, FS_CardinalityType DEF ProducedOnce
  <1>5. ProducedOnce'
    BY <1>1, <1>2, <1>3 DEF ProducedOnce
  <1>6. SentIsDelivered'
    BY <1>1, <1>2, <1>3, <1>4 DEF SentIsDelivered, TypeOK
  <1> QED
    BY <1>5, <1>6

LEMMA CrashCounts ==
    ASSUME TypeOK, ProducedOnce, SentIsDelivered, Crash
    PROVE  ProducedOnce' /\ SentIsDelivered'
  <1>1. queue' = {} /\ reports' = {} /\ UNCHANGED <<produced, bus, sentOk>>
    BY DEF Crash, counters
  <1>2. Acknowledged' = {} /\ Cardinality(Acknowledged') = 0
    BY <1>1, FS_EmptySet DEF Acknowledged
  <1>3. Cardinality(Acknowledged) \in Nat /\ Cardinality(bus) \in Nat
    BY FS_Subset, FS_CardinalityType DEF ProducedOnce
  <1>4. ProducedOnce'
    BY <1>1, <1>2 DEF ProducedOnce
  <1>5. SentIsDelivered'
    BY <1>1, <1>2, <1>3 DEF SentIsDelivered, TypeOK
  <1> QED
    BY <1>4, <1>5

LEMMA ProduceCounts ==
    ASSUME TypeOK, ProducedOnce, NEW c \in Call, Produce(c)
    PROVE  ProducedOnce'
  <1>1. PICK m \in BatchOf(c) \ (produced[c] \cup Unrenderable) :
          queue' = queue \cup {m} /\ produced' = [produced EXCEPT ![c] = @ \cup {m}]
    BY DEF Produce
  <1>2. m[1] = c /\ m \notin bus
    BY BatchType DEF ProducedOnce
  <1>3. \A d \in Call : produced[d] \subseteq produced'[d] /\ m \in produced'[c]
    BY <1>1 DEF TypeOK
  <1>4. UNCHANGED <<reports, bus>>
    BY DEF Produce
  <1>5. \A n \in queue \cup bus : n[1] \in Call
    BY MessageCall DEF TypeOK
  <1> QED
    BY <1>1, <1>2, <1>3, <1>4, <1>5 DEF ProducedOnce, Acknowledged

LEMMA NextCounts ==
    ASSUME IInv, [Next]_vars
    PROVE  ProducedOnce' /\ SentIsDelivered'
  <1>1. TypeOK /\ ProducedOnce /\ SentIsDelivered
    BY DEF IInv
  <1>2. ASSUME UNCHANGED <<queue, reports, bus, produced, sentOk>>
        PROVE  ProducedOnce' /\ SentIsDelivered'
    BY <1>1, <1>2, CountUnchanged DEF ProducedOnce, Acknowledged
  <1>3. ASSUME NEW c \in Call, Begin(c) \/ Flush(c) \/ FlushDone(c)
        PROVE  ProducedOnce' /\ SentIsDelivered'
    BY <1>2, <1>3 DEF Begin, Flush, FlushDone, counters
  <1>4. ASSUME NEW c \in Call, ProduceRaises(c) \/ FlushTimeout(c)
        PROVE  ProducedOnce' /\ SentIsDelivered'
    BY <1>2, <1>4 DEF ProduceRaises, FlushTimeout
  <1>5. ASSUME NEW c \in Call, Produce(c) PROVE ProducedOnce' /\ SentIsDelivered'
    BY <1>1, <1>5, ProduceCounts, CountUnchanged DEF Produce
  <1>6. ASSUME NEW c \in Call, Serve(c) PROVE ProducedOnce' /\ SentIsDelivered'
    BY <1>1, <1>6, ServeCounts
  <1>7. ASSUME NEW m \in Message, Deliver(m) \/ DeliveryFails(m)
        PROVE  ProducedOnce' /\ SentIsDelivered'
    BY <1>1, <1>7, DeliverCounts, FailureCounts
  <1>8. CASE Crash
    BY <1>1, <1>8, CrashCounts
  <1>9. CASE UNCHANGED vars
    BY <1>2, <1>9 DEF vars, counters
  <1> QED
    BY <1>3, <1>4, <1>5, <1>6, <1>7, <1>8, <1>9 DEF Next, Step

----------------------------------------------------------------------------
(* The account of each call.                                               *)

(* A call keeps its account as long as it stays where it is, or gives up,  *)
(* its flag is not taken back, and no message of its own gets lost.        *)
LEMMA AccountKept ==
    ASSUME NEW c \in Call, CallInStep(c),
           produced'[c] = produced[c],
           state'[c] = state[c] \/ state'[c] \in {"returned", "raised"},
           error[c] => error'[c],
           state'[c] \in {"produce", "flush"} => \A m \in produced[c] :
              /\ m \in queue \cup bus => m \in queue' \cup bus' \/ <<m, TRUE>> \in reports'
              /\ <<m, TRUE>> \in reports => <<m, TRUE>> \in reports' \/ error'[c]
    PROVE  CallInStep(c)'
  <1>1. CASE state'[c] \in {"returned", "raised"}
    BY <1>1 DEF CallInStep, BatchOf
  <1>2. CASE state'[c] = state[c]
    <2>1. state[c] \in {"produce", "flush"} => AccountedFor(c)'
      BY <1>2 DEF CallInStep, AccountedFor
    <2> QED
      BY <1>2, <2>1 DEF CallInStep, BatchOf
  <1> QED
    BY <1>1, <1>2

(* A step that only moves one call.                                        *)
LEMMA OthersKept ==
    ASSUME IInv, NEW c \in Call, NEW s \in State, state' = [state EXCEPT ![c] = s],
           UNCHANGED <<produced, error, queue, reports, bus>>, CallInStep(c)'
    PROVE  \A d \in Call : CallInStep(d)'
  <1> SUFFICES ASSUME NEW d \in Call, d # c PROVE CallInStep(d)'
    OBVIOUS
  <1>1. state'[d] = state[d] /\ CallInStep(d)
    BY DEF IInv, TypeOK
  <1> QED
    BY <1>1, AccountKept

LEMMA NextAccounts ==
    ASSUME IInv, [Next]_vars
    PROVE  \A d \in Call : CallInStep(d)'
  <1>1. TypeOK /\ ProducedOnce /\ \A d \in Call : CallInStep(d)
    BY DEF IInv
  <1> USE DEF counters
  <1>2. ASSUME NEW c \in Call, Begin(c) PROVE \A d \in Call : CallInStep(d)'
    <2>1. /\ state' = [state EXCEPT ![c] = "produce"] /\ state'[c] = "produce"
          /\ UNCHANGED <<produced, error, queue, reports, bus>>
          /\ produced[c] = {}
      BY <1>1, <1>2 DEF Begin, GoTo, CallInStep, TypeOK
    <2>2. CallInStep(c)'
      BY <2>1 DEF CallInStep, AccountedFor
    <2> QED
      BY <2>1, <2>2, OthersKept DEF State
  <1>3. ASSUME NEW c \in Call, Produce(c) PROVE \A d \in Call : CallInStep(d)'
    <2>1. PICK m \in BatchOf(c) \ (produced[c] \cup Unrenderable) :
            queue' = queue \cup {m} /\ produced' = [produced EXCEPT ![c] = @ \cup {m}]
      BY <1>3 DEF Produce
    <2>2. state[c] = "produce" /\ UNCHANGED <<state, error, reports, bus>>
      BY <1>3 DEF Produce
    <2>3. \A d \in Call : produced'[d] = IF d = c THEN produced[c] \cup {m} ELSE produced[d]
      BY <1>1, <2>1 DEF TypeOK
    <2>4. CallInStep(c)'
      <3>1. AccountedFor(c)
        BY <1>1, <2>2 DEF CallInStep
      <3>2. AccountedFor(c)'
        <4>1. ASSUME NEW n \in produced[c] \cup {m}
              PROVE  n \in queue' \cup bus' \/ <<n, TRUE>> \in reports' \/ error'[c]
          BY <2>1, <2>2, <3>1 DEF AccountedFor
        <4>2. produced'[c] = produced[c] \cup {m}
          BY <2>3
        <4> QED
          BY <4>1, <4>2 DEF AccountedFor
      <3>3. produced'[c] \subseteq BatchOf(c)
        BY <1>1, <2>1, <2>3 DEF CallInStep
      <3> QED
        BY <2>2, <3>2, <3>3 DEF CallInStep, BatchOf
    <2>5. ASSUME NEW d \in Call, d # c PROVE CallInStep(d)'
      BY <1>1, <2>1, <2>2, <2>3, <2>5, AccountKept
    <2> QED
      BY <2>4, <2>5
  <1>4. ASSUME NEW c \in Call, Flush(c) PROVE \A d \in Call : CallInStep(d)'
    <2>1. /\ state' = [state EXCEPT ![c] = "flush"] /\ state'[c] = "flush"
          /\ UNCHANGED <<produced, error, queue, reports, bus>>
          /\ produced[c] = BatchOf(c) /\ AccountedFor(c)
      BY <1>1, <1>4 DEF Flush, GoTo, CallInStep, TypeOK
    <2>2. AccountedFor(c)'
      BY <2>1 DEF AccountedFor
    <2>3. CallInStep(c)'
      BY <2>1, <2>2 DEF CallInStep, BatchOf
    <2> QED
      BY <2>1, <2>3, OthersKept DEF State
  <1>5. ASSUME NEW c \in Call, NEW s \in {"returned", "raised"},
               state' = [state EXCEPT ![c] = s],
               UNCHANGED <<produced, error, queue, reports, bus>>
        PROVE  \A d \in Call : CallInStep(d)'
    <2>1. CallInStep(c)'
      BY <1>1, <1>5 DEF CallInStep, TypeOK
    <2> QED
      BY <1>5, <2>1, OthersKept DEF State
  <1>6. ASSUME NEW c \in Call, ProduceRaises(c) \/ FlushDone(c) \/ FlushTimeout(c)
        PROVE  \A d \in Call : CallInStep(d)'
    BY <1>5, <1>6 DEF ProduceRaises, FlushDone, FlushTimeout, GoTo
  <1>7. ASSUME NEW c \in Call, Serve(c) PROVE \A d \in Call : CallInStep(d)'
    <2>1. PICK m \in Message, isError \in BOOLEAN :
            /\ <<m, isError>> \in reports /\ reports' = reports \ {<<m, isError>>}
            /\ DeliveryCallback(m, isError)
            /\ UNCHANGED <<state, produced, queue, bus, toSend>>
      BY <1>1, <1>7, ServeIs
    <2>2. /\ \A d \in Call : error[d] => error'[d]
          /\ isError => error'[m[1]]
      BY <1>1, <2>1, CallbackType
    <2>3. ASSUME NEW d \in Call, NEW n \in produced[d], state[d] \in {"produce", "flush"},
                 <<n, TRUE>> \in reports
          PROVE  <<n, TRUE>> \in reports' \/ error'[d]
      <3>1. n = m /\ isError => error'[n[1]]
        BY <2>2
      <3>2. <<n, TRUE>> \in reports' \/ (n = m /\ isError)
        BY <2>1, <2>3
      <3>3. n[1] = d
        BY <1>1, <2>3 DEF CallInStep, BatchOf
      <3> QED
        BY <2>3, <3>1, <3>2, <3>3
    <2> QED
      BY <1>1, <2>1, <2>2, <2>3, AccountKept
  <1>8. ASSUME NEW m \in Message, Deliver(m) \/ DeliveryFails(m)
        PROVE  \A d \in Call : CallInStep(d)'
    <2>1. /\ UNCHANGED <<state, produced, error>> /\ queue' = queue \ {m}
          /\ bus \subseteq bus' /\ reports \subseteq reports'
          /\ m \in bus' \/ <<m, TRUE>> \in reports'
      BY <1>8 DEF Deliver, DeliveryFails
    <2> QED
      BY <1>1, <2>1, AccountKept
  <1>9. CASE Crash
    <2>1. ASSUME NEW d \in Call
          PROVE  /\ state'[d] \notin {"produce", "flush"}
                 /\ state'[d] = state[d] \/ state'[d] = "raised"
      BY <1>9 DEF Crash
    <2> QED
      BY <1>1, <1>9, <2>1, AccountKept DEF Crash
  <1>10. CASE UNCHANGED vars
    BY <1>1, <1>10, AccountKept DEF vars
  <1> QED
    BY <1>2, <1>3, <1>4, <1>6, <1>7, <1>8, <1>9, <1>10 DEF Next, Step

LEMMA InitInv == Init => IInv
  <1> SUFFICES ASSUME Init PROVE IInv
    OBVIOUS
  <1>1. Acknowledged = {} /\ Cardinality(Acknowledged) = 0 /\ Cardinality(bus) = 0
    BY FS_EmptySet DEF Init, Acknowledged
  <1>2. ProducedOnce /\ SentIsDelivered
    BY <1>1, FS_EmptySet DEF Init, ProducedOnce, SentIsDelivered
  <1>3. \A c \in Call : CallInStep(c)
    BY DEF Init, CallInStep
  <1> QED
    BY <1>2, <1>3, InitType DEF IInv

LEMMA NextInv == IInv /\ [Next]_vars => IInv'
  BY NextType, NextCounts, NextAccounts DEF IInv

LEMMA Invariance == Spec => []IInv
  BY InitInv, NextInv, PTL DEF Spec

(* messaging_tx_sent_ok never runs ahead of the bus, whichever flush runs  *)
(* which call's callbacks (kafka.py:63-71).                                *)
THEOREM SentWasDelivered == Spec => []SentIsDelivered
  <1>1. IInv => SentIsDelivered
    BY DEF IInv
  <1> QED
    BY <1>1, Invariance, PTL

----------------------------------------------------------------------------
(* The refinement of Publisher.                                            *)

LEMMA InitPublisher == Init => P!Init
  BY DEF Init, P!Init, Given, Outcome

(* What is on the bus, or may get there, was offered.                      *)
LEMMA OfferedIs ==
    ASSUME IInv, NEW c \in Call, NEW m \in produced[c]
    PROVE  m \in P!Offered
  <1>1. state[c] # "new" /\ m \in BatchOf(c)
    BY DEF IInv, CallInStep
  <1>2. Given[c] = BatchOf(c) /\ Given[c] # Nothing
    BY <1>1, NothingAssumption DEF Given
  <1> QED
    BY <1>1, <1>2 DEF P!Offered

LEMMA BeginStep ==
    ASSUME IInv, NEW c \in Call, Begin(c)
    PROVE  P!Begin(c)
  <1>1. state[c] = "new" /\ \A d \in Call : state'[d] = IF d = c THEN "produce" ELSE state[d]
    BY DEF Begin, GoTo, IInv, TypeOK
  <1>2. \A d \in Call : Given'[d] = IF d = c THEN BatchOf(c) ELSE Given[d]
    BY <1>1 DEF Given, BatchOf
  <1>3. Given' = [Given EXCEPT ![c] = Given'[c]]
    BY <1>2 DEF Given
  <1>4. Given[c] = Nothing /\ Given'[c] # Nothing
    BY <1>1, <1>2, NothingAssumption DEF Given
  <1>5. Outcome' = Outcome
    BY <1>1 DEF Outcome
  <1>6. Given'[c] \cap P!Offered = {}
    <2>1. \A d \in Call : Given[d] # Nothing => Given[d] = BatchOf(d) /\ d # c
      BY <1>4 DEF Given
    <2> QED
      BY <1>2, <2>1, BatchType DEF P!Offered
  <1> QED
    BY <1>3, <1>4, <1>5, <1>6 DEF Begin, P!Begin

(* A step that leaves every call where it is.                              *)
LEMMA MoveStep ==
    ASSUME IInv, UNCHANGED state, bus \subseteq bus', bus' \subseteq bus \cup queue
    PROVE  P!Move
  <1>1. \A m \in bus \cup queue : m \in P!Offered
    <2>1. \A m \in bus \cup queue : m[1] \in Call /\ m \in produced[m[1]]
      BY MessageCall DEF IInv, TypeOK, ProducedOnce
    <2> QED
      BY <2>1, OfferedIs
  <1>2. Given' = Given /\ Outcome' = Outcome
    BY DEF Given, Outcome, BatchOf
  <1> QED
    BY <1>1, <1>2 DEF P!Move

(* Steps that end calls in an exception.                                   *)
LEMMA RaiseStep ==
    ASSUME IInv, NEW calls \in SUBSET Call, UNCHANGED bus,
           \A c \in calls : state[c] \in {"produce", "flush"},
           state' = [c \in Call |-> IF c \in calls THEN "raised" ELSE state[c]]
    PROVE  P!Raise(calls)
  <1>1. \A c \in calls : Given[c] # Nothing /\ Outcome[c] = "no"
    BY NothingAssumption DEF Given, Outcome
  <1>2. Outcome' = [c \in Call |-> IF c \in calls THEN "raised" ELSE Outcome[c]]
    BY DEF Outcome
  <1>3. Given' = Given
    BY DEF Given, BatchOf
  <1> QED
    BY <1>1, <1>2, <1>3 DEF P!Raise

(* The exception of one call.                                              *)
LEMMA RaiseOne ==
    ASSUME IInv, NEW c \in Call, UNCHANGED bus, state[c] \in {"produce", "flush"},
           state' = [state EXCEPT ![c] = "raised"]
    PROVE  P!Next
  <1>1. state' = [d \in Call |-> IF d \in {c} THEN "raised" ELSE state[d]]
    BY DEF IInv, TypeOK
  <1>2. P!Raise({c})
    BY <1>1, RaiseStep
  <1> QED
    BY <1>2 DEF P!Next

(* An empty queue without reports, and no failure: all is on the bus.      *)
LEMMA ReturnStep ==
    ASSUME IInv, NEW c \in Call, FlushDone(c), ~error[c]
    PROVE  P!Return(c)
  <1>1. /\ state[c] = "flush" /\ queue = {} /\ UNCHANGED bus
        /\ state' = [state EXCEPT ![c] = "returned"]
        /\ \A m : <<m, TRUE>> \notin reports
    <2>1. Remaining = {}
      BY DEF FlushDone
    <2>2. ASSUME NEW m PROVE <<m, TRUE>> \notin reports
      BY <2>1 DEF Remaining
    <2> QED
      BY <2>1, <2>2 DEF FlushDone, Remaining, GoTo
  <1>2. \A d \in Call : state'[d] = IF d = c THEN "returned" ELSE state[d]
    BY <1>1 DEF IInv, TypeOK
  <1>3. BatchOf(c) \subseteq bus
    BY <1>1 DEF IInv, CallInStep, AccountedFor
  <1>4. Given[c] = BatchOf(c) /\ Given[c] # Nothing /\ Outcome[c] = "no"
    BY <1>1, NothingAssumption DEF Given, Outcome
  <1>5. Outcome' = [Outcome EXCEPT ![c] = "returned"]
    BY <1>2 DEF Outcome
  <1>6. Given' = Given
    BY <1>1, <1>2 DEF Given, BatchOf
  <1> QED
    BY <1>1, <1>3, <1>4, <1>5, <1>6 DEF P!Return

LEMMA NextPublisher == IInv /\ [Next]_vars => [P!Next]_(P!vars)
  <1> SUFFICES ASSUME IInv, [Next]_vars PROVE [P!Next]_(P!vars)
    OBVIOUS
  <1>1. ASSUME NEW c \in Call, Begin(c) PROVE P!Next
    BY <1>1, BeginStep DEF P!Next
  <1>2. ASSUME UNCHANGED <<state, bus>> PROVE P!Next
    BY <1>2, MoveStep DEF P!Next
  <1>3. ASSUME NEW c \in Call, Produce(c) \/ Serve(c) PROVE P!Next
    BY <1>2, <1>3 DEF Produce, Serve
  <1>4. ASSUME NEW c \in Call, Flush(c) PROVE UNCHANGED P!vars
    <2>1. \A d \in Call : state'[d] = IF d = c THEN "flush" ELSE state[d]
      BY <1>4 DEF Flush, GoTo, IInv, TypeOK
    <2>2. Given' = Given /\ Outcome' = Outcome
      BY <1>4, <2>1 DEF Given, Outcome, BatchOf, Flush
    <2> QED
      BY <1>4, <2>2 DEF P!vars, Flush
  <1>5. ASSUME NEW c \in Call, ProduceRaises(c) \/ FlushTimeout(c) PROVE P!Next
    BY <1>5, RaiseOne DEF ProduceRaises, FlushTimeout, GoTo
  <1>6. ASSUME NEW c \in Call, FlushDone(c) PROVE P!Next
    <2>1. CASE error[c]
      BY <1>6, <2>1, RaiseOne DEF FlushDone, GoTo
    <2>2. CASE ~error[c]
      BY <1>6, <2>2, ReturnStep DEF P!Next
    <2> QED
      BY <2>1, <2>2
  <1>7. ASSUME NEW m \in Message, Deliver(m) \/ DeliveryFails(m) PROVE P!Next
    BY <1>7, MoveStep DEF Deliver, DeliveryFails, P!Next
  <1>8. CASE Crash
    <2> DEFINE calls == {c \in Call : state[c] \in {"produce", "flush"}}
    <2>1. state' = [c \in Call |-> IF c \in calls THEN "raised" ELSE state[c]]
      BY <1>8 DEF Crash
    <2>2. P!Raise(calls)
      BY <1>8, <2>1, RaiseStep DEF Crash
    <2> QED
      BY <2>2 DEF P!Next
  <1>9. CASE UNCHANGED vars
    BY <1>2, <1>9 DEF vars
  <1> QED
    BY <1>1, <1>3, <1>4, <1>5, <1>6, <1>7, <1>8, <1>9 DEF Next, Step

(* The Kafka publisher keeps the hook's promise: a call that returns has   *)
(* its whole batch on the bus, and drops nothing (kafka.py:73-99).         *)
THEOREM KafkaImplementsPublisher == Spec => ImplementsPublisher
  BY InitPublisher, NextPublisher, Invariance, PTL DEF Spec, ImplementsPublisher, P!Spec

(* A call that returns has every message on the bus: what the contract     *)
(* promises of any publisher, of one that gives up nothing                 *)
(* (kafka.py:73-99).                                                       *)
THEOREM ReturnedWasSent == Spec => []ReturnedIsSent
  <1>1. P!Spec => []P!Promise
    BY P!PromiseKept
  <1>2. P!Promise => ReturnedIsSent
    BY NothingAssumption DEF P!Promise, ReturnedIsSent, Given, Outcome
  <1> QED
    BY <1>1, <1>2, KafkaImplementsPublisher, PTL DEF ImplementsPublisher

============================================================================
