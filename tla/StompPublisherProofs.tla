------------------------ MODULE StompPublisherProofs ------------------------
(***************************************************************************)
(* The STOMP publisher, for every number of calls, batches of every size   *)
(* and any limit of tries: no waiver is on the bus more often than it was  *)
(* tried, a call that returns has sent its batch or spent its tries, and   *)
(* the counters account for every message.                                 *)
(***************************************************************************)
EXTENDS StompPublisher, FiniteSetTheorems, TLAPS

----------------------------------------------------------------------------
(* The inductive invariant.                                                *)

(* A message that this try has yet to send is on the bus once for each     *)
(* try before it at most; the others were sent, and when the connection    *)
(* closes without an exception there are no others.                        *)
CallInStep(c) ==
    /\ todo[c] \subseteq BatchOf(c)
    /\ state[c] = "new" => tries[c] = 0
    /\ state[c] \in {"connect", "send", "sending"} => \A m \in todo[c] : copies[m] < tries[c]
    /\ state[c] = "connect" => todo[c] = BatchOf(c)
    /\ state[c] \in {"send", "sending"} => \A m \in BatchOf(c) \ todo[c] : copies[m] > 0
    /\ state[c] = "disconnect" /\ raising[c] = "no" => \A m \in BatchOf(c) : copies[m] > 0

(* The counters are compared with finite sets, of whatever size.           *)
Counted == IsFiniteSet(Copies) /\ IsFiniteSet(Uncounted) /\ SendsAreCounted

IInv == TypeOK /\ OncePerTry /\ (\A c \in Call : CallInStep(c)) /\ Counted

----------------------------------------------------------------------------

LEMMA MessageCall == \A m \in Message : m[1] \in Call /\ m \in BatchOf(m[1])
  BY DEF Message, BatchOf

LEMMA BatchType == \A c \in Call : BatchOf(c) \subseteq Message /\ \A m \in BatchOf(c) : m[1] = c
  BY DEF BatchOf

LEMMA CaughtIs ==
    /\ Caught("no") = "returned"
    /\ Caught("StompException") = "loop"
    /\ Caught("Exception") = "raised"
  BY DEF Caught

(* Where a call is after an exception, or none, reaches the loop.          *)
LEMMA CaughtType == \A e \in {"no"} \cup Exception : Caught(e) \in {"loop", "returned", "raised"}
  BY CaughtIs DEF Exception

----------------------------------------------------------------------------
(* Types.                                                                  *)

LEMMA InitType == Init => TypeOK
  BY RetryAssumption DEF Init, TypeOK, Running, Ended

LEMMA NextType == TypeOK /\ [Next]_vars => TypeOK'
  <1> SUFFICES ASSUME TypeOK, [Next]_vars PROVE TypeOK'
    OBVIOUS
  <1> USE DEF TypeOK, counters, GoTo, Running, Ended
  <1>1. ASSUME NEW c \in Call, Begin(c) PROVE TypeOK'
    BY <1>1 DEF Begin
  <1>2. ASSUME NEW c \in Call, Try(c) PROVE TypeOK'
    <2>1. tries[c] + 1 \in 0..MAX_STOMP_RETRY
      BY <1>2, RetryAssumption DEF Try
    <2>2. tries' \in [Call -> 0..MAX_STOMP_RETRY]
      BY <1>2, <2>1 DEF Try
    <2>3. todo' \in [Call -> SUBSET Message] /\ raising' \in [Call -> {"no"} \cup Exception]
      BY <1>2, BatchType DEF Try
    <2>4. state' \in [Call -> {"new"} \cup Running \cup Ended]
      BY <1>2 DEF Try
    <2> QED
      BY <1>2, <2>2, <2>3, <2>4 DEF Try
  <1>3. ASSUME NEW c \in Call, GiveUp(c) PROVE TypeOK'
    BY <1>3 DEF GiveUp
  <1>4. ASSUME NEW c \in Call, Connect(c) PROVE TypeOK'
    BY <1>4 DEF Connect
  <1>5. ASSUME NEW c \in Call, ConnectRaises(c) \/ DisconnectRaises(c) PROVE TypeOK'
    BY <1>5, CaughtType DEF ConnectRaises, DisconnectRaises
  <1>6. ASSUME NEW c \in Call, Send(c) PROVE TypeOK'
    <2>1. PICK m \in todo[c] \ Unrenderable :
            todo' = [todo EXCEPT ![c] = @ \ {m}] /\ copies' = [copies EXCEPT ![m] = @ + 1]
      BY <1>6 DEF Send
    <2>2. m \in Message /\ copies' \in [Message -> Nat]
      BY <2>1
    <2>3. todo' \in [Call -> SUBSET Message]
      BY <2>1
    <2> QED
      BY <1>6, <2>2, <2>3 DEF Send
  <1>7. ASSUME NEW c \in Call, NEW e \in {"no"} \cup Exception, Leave(c, e)
        PROVE  /\ state' \in [Call -> {"new"} \cup Running \cup Ended]
               /\ raising' \in [Call -> {"no"} \cup Exception]
    BY <1>7 DEF Leave
  <1>8. ASSUME NEW c \in Call, SendRaises(c) PROVE TypeOK'
    <2>1. PICK e \in Exception : Leave(c, e)
      BY <1>8 DEF SendRaises
    <2>2. /\ toSend' \in Nat /\ failed' \in Nat
          /\ UNCHANGED <<tries, todo, copies, sentOk>>
      BY <1>8 DEF SendRaises
    <2>3. /\ state' \in [Call -> {"new"} \cup Running \cup Ended]
          /\ raising' \in [Call -> {"no"} \cup Exception]
      BY <1>7, <2>1
    <2> QED
      BY <2>2, <2>3
  <1>9. ASSUME NEW c \in Call, RenderRaises(c) \/ AllSent(c) PROVE TypeOK'
    BY <1>7, <1>9 DEF RenderRaises, AllSent, Exception
  <1>10. ASSUME NEW c \in Call, Disconnect(c) PROVE TypeOK'
    BY <1>10, CaughtType DEF Disconnect
  <1>11. CASE Crash
    BY <1>11 DEF Crash
  <1>12. CASE UNCHANGED vars
    BY <1>12 DEF vars
  <1>13. ASSUME NEW c \in Call, SendReturns(c) PROVE TypeOK'
    BY <1>13 DEF SendReturns
  <1> QED
    BY <1>1, <1>2, <1>3, <1>4, <1>5, <1>6, <1>8, <1>9, <1>10, <1>11, <1>12, <1>13 DEF Next, Step

(* Every variable holds a value of its kind; a call begins no try beyond   *)
(* its last.                                                               *)
THEOREM TypeCorrectness == Spec => []TypeOK
  BY InitType, NextType, PTL DEF Spec

----------------------------------------------------------------------------
(* It is preserved by every step.                                          *)

(* A step that moves one call, and sends nothing.                          *)
LEMMA Moved ==
    ASSUME IInv, NEW c \in Call, NEW s, state' = [state EXCEPT ![c] = s],
           UNCHANGED <<tries, todo, copies>>,
           \A d \in Call : d # c => raising'[d] = raising[d],
           CallInStep(c)'
    PROVE  OncePerTry' /\ \A d \in Call : CallInStep(d)'
  <1>1. \A d \in Call : d # c => state'[d] = state[d]
    BY DEF IInv, TypeOK
  <1>2. ASSUME NEW d \in Call, d # c PROVE CallInStep(d)'
    BY <1>1, <1>2 DEF IInv, CallInStep, BatchOf
  <1>3. OncePerTry'
    BY DEF IInv, OncePerTry
  <1> QED
    BY <1>2, <1>3

(* Out of the tries, a call owes nothing to the invariant.                 *)
LEMMA Released ==
    ASSUME IInv, NEW c \in Call, NEW s \in {"loop", "returned", "raised"},
           state' = [state EXCEPT ![c] = s], UNCHANGED <<tries, todo, copies, raising>>
    PROVE  OncePerTry' /\ \A d \in Call : CallInStep(d)'
  <1>1. state'[c] = s
    BY DEF IInv, TypeOK
  <1>2. CallInStep(c)'
    BY <1>1 DEF IInv, CallInStep, BatchOf
  <1> QED
    BY <1>2, Moved

LEMMA TryInv ==
    ASSUME IInv, NEW c \in Call, Try(c)
    PROVE  OncePerTry' /\ \A d \in Call : CallInStep(d)'
  <1>1. TypeOK /\ OncePerTry /\ \A d \in Call : CallInStep(d)
    BY DEF IInv
  <1>2. /\ \A d \in Call : tries'[d] = IF d = c THEN tries[c] + 1 ELSE tries[d]
        /\ \A d \in Call : todo'[d] = IF d = c THEN BatchOf(c) ELSE todo[d]
        /\ \A d \in Call : raising'[d] = IF d = c THEN "no" ELSE raising[d]
        /\ \A d \in Call : state'[d] = IF d = c THEN "connect" ELSE state[d]
        /\ UNCHANGED copies
        /\ tries[c] \in Nat
    BY <1>1 DEF Try, GoTo, TypeOK
  <1>3. OncePerTry'
    <2> SUFFICES ASSUME NEW m \in Message PROVE copies[m] <= tries'[m[1]]
      BY <1>2 DEF OncePerTry
    <2>1. copies[m] \in Nat /\ copies[m] <= tries[m[1]] /\ m[1] \in Call
      BY <1>1, MessageCall DEF OncePerTry, TypeOK
    <2> QED
      BY <1>2, <2>1
  <1>4. CallInStep(c)'
    <2>1. ASSUME NEW m \in BatchOf(c) PROVE copies[m] < tries'[c]
      <3>1. m \in Message /\ m[1] = c /\ copies[m] \in Nat /\ copies[m] <= tries[c]
        BY <1>1, BatchType DEF OncePerTry, TypeOK
      <3> QED
        BY <1>2, <3>1
    <2> QED
      BY <1>2, <2>1 DEF CallInStep, BatchOf
  <1>5. ASSUME NEW d \in Call, d # c PROVE CallInStep(d)'
    <2>1. /\ tries'[d] = tries[d] /\ todo'[d] = todo[d] /\ raising'[d] = raising[d]
          /\ state'[d] = state[d] /\ copies' = copies
      BY <1>2, <1>5
    <2>2. CallInStep(d)
      BY <1>1
    <2> QED
      BY <2>1, <2>2 DEF CallInStep, BatchOf
  <1> QED
    BY <1>3, <1>4, <1>5

(* One more copy of a message that is still to send.                       *)
LEMMA CopyInv ==
    ASSUME IInv, NEW c \in Call, NEW m \in todo[c], state[c] = "send",
           copies' = [copies EXCEPT ![m] = @ + 1], UNCHANGED tries,
           todo' = [todo EXCEPT ![c] = @ \ {m}],
           \A d \in Call : d # c => state'[d] = state[d] /\ raising'[d] = raising[d]
    PROVE  /\ OncePerTry'
           /\ \A d \in Call : d # c => CallInStep(d)'
           /\ copies'[m] > 0
           /\ \A n \in Message \ {m} : copies'[n] = copies[n]
           /\ todo'[c] \subseteq BatchOf(c)
  <1>1. TypeOK /\ OncePerTry /\ \A d \in Call : CallInStep(d)
    BY DEF IInv
  <1>2. m \in Message /\ m[1] = c /\ copies[m] \in Nat /\ copies[m] < tries[c] /\ tries[c] \in Nat
    BY <1>1, BatchType DEF CallInStep, TypeOK
  <1>3. /\ copies'[m] = copies[m] + 1
        /\ \A n \in Message \ {m} : copies'[n] = copies[n]
    BY <1>1, <1>2 DEF TypeOK
  <1>4. OncePerTry'
    BY <1>1, <1>2, <1>3 DEF OncePerTry
  <1>5. \A d \in Call : d # c => todo'[d] = todo[d]
    BY <1>1 DEF TypeOK
  <1>6. ASSUME NEW d \in Call, d # c PROVE CallInStep(d)'
    <2>1. \A n \in BatchOf(d) : copies'[n] = copies[n]
      BY <1>2, <1>3, <1>6, BatchType
    <2> QED
      BY <1>1, <1>5, <1>6, <2>1 DEF CallInStep, BatchOf
  <1>7. todo'[c] \subseteq BatchOf(c)
    BY <1>1 DEF CallInStep, TypeOK
  <1> QED
    BY <1>2, <1>3, <1>4, <1>6, <1>7

LEMMA SendInv ==
    ASSUME IInv, NEW c \in Call, Send(c)
    PROVE  OncePerTry' /\ \A d \in Call : CallInStep(d)'
  <1>1. TypeOK /\ \A d \in Call : CallInStep(d)
    BY DEF IInv
  <1>2. PICK m \in todo[c] \ Unrenderable :
          todo' = [todo EXCEPT ![c] = @ \ {m}] /\ copies' = [copies EXCEPT ![m] = @ + 1]
    BY DEF Send
  <1>3. /\ state[c] = "send" /\ state'[c] = "sending" /\ UNCHANGED <<tries, raising>>
        /\ \A d \in Call : d # c => state'[d] = state[d]
    BY <1>1 DEF Send, GoTo, TypeOK
  <1>4. /\ OncePerTry'
        /\ \A d \in Call : d # c => CallInStep(d)'
        /\ copies'[m] > 0
        /\ \A n \in Message \ {m} : copies'[n] = copies[n]
        /\ todo'[c] \subseteq BatchOf(c)
    BY <1>2, <1>3, CopyInv
  <1>5. todo'[c] = todo[c] \ {m}
    BY <1>1, <1>2 DEF TypeOK
  <1>6. CallInStep(c)'
    <2>1. \A n \in todo'[c] : n \in Message /\ copies'[n] < tries'[c]
      BY <1>1, <1>3, <1>4, <1>5, BatchType DEF CallInStep
    <2>2. \A n \in BatchOf(c) \ todo'[c] : copies'[n] > 0
      BY <1>1, <1>3, <1>4, <1>5, BatchType DEF CallInStep
    <2> QED
      BY <1>1, <1>3, <1>4, <2>1, <2>2 DEF CallInStep, BatchOf
  <1> QED
    BY <1>4, <1>6

LEMMA SendRaisesInv ==
    ASSUME IInv, NEW c \in Call, SendRaises(c)
    PROVE  OncePerTry' /\ \A d \in Call : CallInStep(d)'
  <1>1. TypeOK /\ \A d \in Call : CallInStep(d)
    BY DEF IInv
  <1>2. /\ state' = [state EXCEPT ![c] = "disconnect"]
        /\ UNCHANGED <<tries, todo, copies>>
        /\ \E e \in Exception : raising' = [raising EXCEPT ![c] = e]
    BY DEF SendRaises, Leave, GoTo
  <1>3. /\ state'[c] = "disconnect" /\ raising'[c] # "no"
        /\ \A d \in Call : d # c => raising'[d] = raising[d]
    BY <1>1, <1>2 DEF TypeOK, Exception
  <1>4. CallInStep(c)'
    BY <1>1, <1>2, <1>3 DEF CallInStep, BatchOf
  <1> QED
    BY <1>2, <1>3, <1>4, Moved

LEMMA InitInv == Init => IInv
  <1> SUFFICES ASSUME Init PROVE IInv
    OBVIOUS
  <1>1. OncePerTry
    BY MessageCall DEF Init, OncePerTry
  <1>2. \A c \in Call : CallInStep(c)
    BY DEF Init, CallInStep
  <1>3. Copies = {}
    BY DEF Init, Copies
  <1>4. Uncounted = {}
    BY DEF Init, Uncounted
  <1>5. Counted
    BY <1>3, <1>4, FS_EmptySet DEF Init, Counted, SendsAreCounted
  <1> QED
    BY <1>1, <1>2, <1>5, InitType DEF IInv

LEMMA NextCalls ==
    ASSUME IInv, [Next]_vars
    PROVE  OncePerTry' /\ \A d \in Call : CallInStep(d)'
  <1>1. TypeOK /\ OncePerTry /\ \A d \in Call : CallInStep(d)
    BY DEF IInv
  <1> USE DEF GoTo
  <1>2. ASSUME NEW c \in Call, Begin(c) \/ GiveUp(c)
        PROVE  OncePerTry' /\ \A d \in Call : CallInStep(d)'
    BY <1>2, Released DEF Begin, GiveUp
  <1>3. ASSUME NEW c \in Call, ConnectRaises(c) \/ DisconnectRaises(c) \/ Disconnect(c)
        PROVE  OncePerTry' /\ \A d \in Call : CallInStep(d)'
    <2>1. PICK e \in {"no"} \cup Exception : state' = [state EXCEPT ![c] = Caught(e)]
      BY <1>1, <1>3 DEF ConnectRaises, DisconnectRaises, Disconnect, TypeOK
    <2>2. UNCHANGED <<tries, todo, copies, raising>>
      BY <1>3 DEF ConnectRaises, DisconnectRaises, Disconnect
    <2> QED
      BY <2>1, <2>2, CaughtType, Released
  <1>4. ASSUME NEW c \in Call, Connect(c) \/ SendReturns(c)
        PROVE  OncePerTry' /\ \A d \in Call : CallInStep(d)'
    <2>1. /\ state[c] \in {"connect", "sending"} /\ state'[c] = "send"
          /\ state' = [state EXCEPT ![c] = "send"]
          /\ UNCHANGED <<tries, todo, copies, raising>>
      BY <1>1, <1>4 DEF Connect, SendReturns, TypeOK
    <2>2. CallInStep(c)'
      BY <1>1, <2>1 DEF CallInStep, BatchOf
    <2> QED
      BY <2>1, <2>2, Moved
  <1>5. ASSUME NEW c \in Call, RenderRaises(c) \/ AllSent(c)
        PROVE  OncePerTry' /\ \A d \in Call : CallInStep(d)'
    <2>1. PICK e \in {"no", "Exception"} :
            /\ state' = [state EXCEPT ![c] = "disconnect"]
            /\ raising' = [raising EXCEPT ![c] = e]
            /\ e = "no" => todo[c] = {}
            /\ state[c] = "send" /\ UNCHANGED <<tries, todo, copies>>
      BY <1>5 DEF RenderRaises, AllSent, Leave
    <2>2. /\ state'[c] = "disconnect" /\ raising'[c] = e
          /\ \A d \in Call : d # c => raising'[d] = raising[d]
      BY <1>1, <2>1 DEF TypeOK, Exception
    <2>3. CallInStep(c)'
      BY <1>1, <2>1, <2>2 DEF CallInStep, BatchOf
    <2> QED
      BY <2>1, <2>2, <2>3, Moved
  <1>6. CASE Crash
    <2>1. UNCHANGED <<tries, todo, copies, raising>>
      BY <1>6 DEF Crash
    <2>2. ASSUME NEW d \in Call PROVE CallInStep(d)'
      <3>1. state'[d] \in {"raised", "uncounted"} \/ state'[d] = state[d]
        BY <1>6 DEF Crash
      <3> QED
        BY <1>1, <2>1, <3>1 DEF CallInStep, BatchOf
    <2> QED
      BY <1>1, <2>1, <2>2 DEF OncePerTry
  <1>7. CASE UNCHANGED vars
    BY <1>1, <1>7 DEF vars, OncePerTry, CallInStep, BatchOf
  <1> QED
    BY <1>2, <1>3, <1>4, <1>5, <1>6, <1>7, TryInv, SendInv, SendRaisesInv DEF Next, Step

----------------------------------------------------------------------------
(* What the counters are compared with.                                    *)

(* One more copy is one more element of Copies.                            *)
LEMMA CopyCounts ==
    ASSUME TypeOK, IsFiniteSet(Copies), NEW m \in Message,
           copies' = [copies EXCEPT ![m] = @ + 1]
    PROVE  IsFiniteSet(Copies') /\ Cardinality(Copies') = Cardinality(Copies) + 1
  <1>1. copies[m] \in Nat /\ \A n \in Message : copies'[n] = IF n = m THEN copies[m] + 1 ELSE copies[n]
    BY DEF TypeOK
  <1>2. 1..(copies[m] + 1) = (1..copies[m]) \cup {copies[m] + 1} /\ copies[m] + 1 \notin 1..copies[m]
    BY <1>1
  <1> DEFINE copy == <<m, copies[m] + 1>>
  <1>3. \A n, k : <<n, k>> \in Copies <=> n \in Message /\ k \in 1..copies[n]
    BY DEF Copies
  <1>4. \A n, k : <<n, k>> \in Copies' <=> n \in Message /\ k \in 1..copies'[n]
    BY DEF Copies
  <1>5. /\ \A x \in Copies : x = <<x[1], x[2]>>
        /\ \A x \in Copies' : x = <<x[1], x[2]>>
    BY DEF Copies
  <1>6. copy \notin Copies
    BY <1>2, <1>3
  <1>7. \A n, k : <<n, k>> \in Copies' <=> <<n, k>> \in Copies \/ <<n, k>> = copy
    BY <1>1, <1>2, <1>3, <1>4
  <1>8. Copies' = Copies \cup {copy}
    BY <1>5, <1>7
  <1> QED
    BY <1>6, <1>8, FS_AddElement

(* One call moves.                                                         *)
LEMMA UncountedIs ==
    ASSUME TypeOK, NEW c \in Call, NEW s, state' = [state EXCEPT ![c] = s]
    PROVE  Uncounted' = IF s \in {"sending", "uncounted"}
                          THEN Uncounted \cup {c} ELSE Uncounted \ {c}
  BY DEF TypeOK, Uncounted

(* A call that counts its send makes up for leaving Uncounted.             *)
LEMMA OneCounted ==
    \A n, u, v, i, j, k, l \in Nat :
        n <= i + j + u /\ k + l = i + j + 1 /\ v \in {u, u - 1} => n <= k + l + v
  OBVIOUS

LEMMA NextCounted ==
    ASSUME IInv, [Next]_vars
    PROVE  Counted'
  <1>1. /\ TypeOK /\ IsFiniteSet(Copies) /\ IsFiniteSet(Uncounted)
        /\ Cardinality(Copies) <= sentOk + failed + Cardinality(Uncounted)
        /\ Cardinality(Copies) \in Nat /\ Cardinality(Uncounted) \in Nat
        /\ sentOk \in Nat /\ failed \in Nat
    BY FS_CardinalityType DEF IInv, Counted, SendsAreCounted, TypeOK
  <1>2. ASSUME UNCHANGED <<copies, sentOk, failed>>, Uncounted' = Uncounted PROVE Counted'
    BY <1>1, <1>2 DEF Counted, SendsAreCounted, Copies
  <1>3. ASSUME NEW c \in Call, c \notin Uncounted, NEW s, s \notin {"sending", "uncounted"},
               GoTo(c, s)
        PROVE  Uncounted' = Uncounted
    <2>1. state' = [state EXCEPT ![c] = s]
      BY <1>3 DEF GoTo
    <2>2. Uncounted' = Uncounted \ {c}
      BY <1>1, <1>3, <2>1 DEF TypeOK, Uncounted
    <2> QED
      BY <1>3, <2>2
  <1>4. \A c \in Call : state[c] \notin {"sending", "uncounted"} => c \notin Uncounted
    BY DEF Uncounted
  <1>5. ASSUME NEW c \in Call, Begin(c) \/ Try(c) \/ GiveUp(c) \/ Connect(c) PROVE Counted'
    <2>1. UNCHANGED <<copies, sentOk, failed>> /\ state[c] \in {"new", "loop", "connect"}
      BY <1>5 DEF Begin, Try, GiveUp, Connect, counters
    <2>2. \E s \in {"loop", "connect", "returned", "send"} : GoTo(c, s)
      BY <1>5 DEF Begin, Try, GiveUp, Connect
    <2> QED
      BY <1>2, <1>3, <1>4, <2>1, <2>2
  <1>6. ASSUME NEW c \in Call, ConnectRaises(c) \/ DisconnectRaises(c) \/ Disconnect(c)
        PROVE  Counted'
    <2>1. UNCHANGED <<copies, sentOk, failed>> /\ state[c] \in {"connect", "disconnect"}
      BY <1>6 DEF ConnectRaises, DisconnectRaises, Disconnect, counters
    <2>2. \E s \in {"loop", "returned", "raised"} : GoTo(c, s)
      BY <1>1, <1>6, CaughtType DEF ConnectRaises, DisconnectRaises, Disconnect, TypeOK
    <2> QED
      BY <1>2, <1>3, <1>4, <2>1, <2>2
  <1>7. ASSUME NEW c \in Call, RenderRaises(c) \/ AllSent(c) PROVE Counted'
    <2>1. /\ UNCHANGED <<copies, sentOk, failed>> /\ state[c] = "send"
          /\ GoTo(c, "disconnect")
      BY <1>7 DEF RenderRaises, AllSent, Leave, counters
    <2> QED
      BY <1>2, <1>3, <1>4, <2>1
  <1>8. ASSUME NEW c \in Call, Send(c) PROVE Counted'
    <2>1. PICK m \in todo[c] : copies' = [copies EXCEPT ![m] = @ + 1]
      BY <1>8 DEF Send
    <2>2. m \in Message
      BY <1>1 DEF TypeOK
    <2>3. IsFiniteSet(Copies') /\ Cardinality(Copies') = Cardinality(Copies) + 1
      BY <1>1, <2>1, <2>2, CopyCounts
    <2>4. c \notin Uncounted /\ Uncounted' = Uncounted \cup {c} /\ UNCHANGED <<sentOk, failed>>
      BY <1>1, <1>4, <1>8, UncountedIs DEF Send, GoTo
    <2>5. IsFiniteSet(Uncounted') /\ Cardinality(Uncounted') = Cardinality(Uncounted) + 1
      BY <1>1, <2>4, FS_AddElement
    <2> QED
      BY <1>1, <2>3, <2>4, <2>5 DEF Counted, SendsAreCounted
  <1>9. ASSUME NEW c \in Call, SendReturns(c) \/ SendRaises(c) PROVE Counted'
    <2>1. /\ Uncounted' = Uncounted \ {c} /\ UNCHANGED copies
          /\ sentOk' + failed' = sentOk + failed + 1
      <3>1. GoTo(c, "send") \/ GoTo(c, "disconnect")
        BY <1>9 DEF SendReturns, SendRaises, Leave
      <3>2. UNCHANGED copies /\ sentOk' + failed' = sentOk + failed + 1
        BY <1>1, <1>9 DEF SendReturns, SendRaises
      <3> QED
        BY <1>1, <3>1, <3>2, UncountedIs DEF GoTo
    <2>2. Copies' = Copies
      BY <2>1 DEF Copies
    <2>3. /\ IsFiniteSet(Uncounted')
          /\ Cardinality(Uncounted') \in {Cardinality(Uncounted), Cardinality(Uncounted) - 1}
      <3>1. /\ IsFiniteSet(Uncounted \ {c})
            /\ Cardinality(Uncounted \ {c}) = IF c \in Uncounted THEN Cardinality(Uncounted) - 1
                                                                ELSE Cardinality(Uncounted)
        BY <1>1, FS_RemoveElement
      <3> QED
        BY <2>1, <3>1
    <2>4. sentOk' \in Nat /\ failed' \in Nat
      BY <1>1, <1>9 DEF SendReturns, SendRaises
    <2>5. Cardinality(Uncounted') \in Nat
      BY <2>3, FS_CardinalityType
    <2>6. Cardinality(Copies) <= sentOk' + failed' + Cardinality(Uncounted')
      BY <1>1, <2>1, <2>3, <2>4, <2>5, OneCounted
    <2>7. SendsAreCounted'
      BY <2>2, <2>6 DEF SendsAreCounted
    <2> QED
      BY <1>1, <2>2, <2>3, <2>7 DEF Counted
  <1>10. CASE Crash
    <2>1. \A c \in Call : state'[c] \in {"sending", "uncounted"}
                            <=> state[c] \in {"sending", "uncounted"}
      BY <1>1, <1>10 DEF Crash, Running, TypeOK
    <2>2. Uncounted' = Uncounted
      BY <2>1 DEF Uncounted
    <2> QED
      BY <1>2, <1>10, <2>2 DEF Crash, counters
  <1>11. CASE UNCHANGED vars
    BY <1>2, <1>11 DEF vars, counters, Uncounted
  <1> QED
    BY <1>5, <1>6, <1>7, <1>8, <1>9, <1>10, <1>11 DEF Next, Step

LEMMA NextInv == IInv /\ [Next]_vars => IInv'
  BY NextType, NextCalls, NextCounted DEF IInv

LEMMA Invariance == Spec => []IInv
  BY InitInv, NextInv, PTL DEF Spec

(* A waiver is on the bus at most once for each try, whatever was raised   *)
(* while it was on its way (stomp.py:73-104).                              *)
THEOREM SentOncePerTry == Spec => []OncePerTry
  <1>1. IInv => OncePerTry
    BY DEF IInv
  <1> QED
    BY <1>1, Invariance, PTL

(* Sent and failed messages together account for every message on the bus, *)
(* but for one of each call that died behind a send (stomp.py:98-104).     *)
THEOREM SendsWereCounted == Spec => []SendsAreCounted
  <1>1. IInv => SendsAreCounted
    BY DEF IInv, Counted
  <1> QED
    BY <1>1, Invariance, PTL

----------------------------------------------------------------------------
(* The refinement of Publisher.                                            *)

LEMMA InitPublisher == Init => P!Init
  <1> SUFFICES ASSUME Init PROVE P!Init
    OBVIOUS
  <1>1. Sent = {} /\ Dropped = {}
    BY MessageCall DEF Init, Sent, Dropped
  <1>2. Given = [c \in Call |-> Nothing] /\ Outcome = [c \in Call |-> "no"]
    BY DEF Init, Given, Outcome, Ended
  <1> QED
    BY <1>1, <1>2 DEF P!Init

(* What is on the bus is of a call that has begun, and so is what a call   *)
(* drops: it makes at least one try.                                       *)
LEMMA OfferedIs == IInv => Sent \subseteq P!Offered /\ Dropped \subseteq P!Offered
  <1> SUFFICES ASSUME IInv PROVE Sent \subseteq P!Offered /\ Dropped \subseteq P!Offered
    OBVIOUS
  <1>1. ASSUME NEW m \in Message, state[m[1]] # "new" PROVE m \in P!Offered
    <2>1. m[1] \in Call /\ m \in BatchOf(m[1])
      BY MessageCall
    <2>2. Given[m[1]] = BatchOf(m[1]) /\ Given[m[1]] # Nothing
      BY <1>1, <2>1, NothingAssumption DEF Given
    <2> QED
      BY <2>1, <2>2 DEF P!Offered
  <1>2. ASSUME NEW m \in Sent PROVE state[m[1]] # "new"
    <2>1. m \in Message /\ m[1] \in Call /\ copies[m] > 0
      BY MessageCall DEF Sent
    <2>2. copies[m] <= tries[m[1]] /\ copies[m] \in Nat
      BY <2>1 DEF IInv, OncePerTry, TypeOK
    <2>3. tries[m[1]] # 0
      BY <2>1, <2>2
    <2> QED
      BY <2>1, <2>3 DEF IInv, CallInStep
  <1> QED
    BY <1>1, <1>2 DEF Sent, Dropped

LEMMA OfferedNext == IInv' => (Sent \subseteq P!Offered /\ Dropped \subseteq P!Offered)'
  BY OfferedIs, PTL

(* Where the calls are says what they are given and how they ended.        *)
LEMMA CallsMove ==
    ASSUME \A d \in Call : /\ state'[d] = "new" <=> state[d] = "new"
                           /\ state[d] \in Ended \/ state'[d] \in Ended => state'[d] = state[d]
    PROVE  Given' = Given /\ Outcome' = Outcome
  <1>1. Given' = Given
    BY DEF Given, BatchOf
  <1>2. \A d \in Call : Outcome'[d] = Outcome[d]
    BY DEF Outcome, Ended
  <1>3. Outcome' = Outcome
    BY <1>2 DEF Outcome
  <1> QED
    BY <1>1, <1>3

(* A step that sends, or drops the batch of a call whose tries are spent.  *)
LEMMA MoveStep ==
    ASSUME IInv, IInv', Sent \subseteq Sent', Dropped \subseteq Dropped',
           Given' = Given, Outcome' = Outcome
    PROVE  P!Move
  <1>1. Sent' \subseteq P!Offered' /\ Dropped' \subseteq P!Offered'
    BY OfferedNext
  <1>2. P!Offered' = P!Offered
    BY DEF P!Offered
  <1> QED
    BY <1>1, <1>2 DEF P!Move

(* A message is dropped when its call is out of tries with nothing sent.   *)
LEMMA DroppedBy ==
    ASSUME NEW c \in Call, UNCHANGED <<tries, copies>>,
           \A d \in Call : d # c => state'[d] = state[d]
    PROVE  /\ Sent' = Sent
           /\ \A m \in Message \ BatchOf(c) : m \in Dropped' <=> m \in Dropped
           /\ \A m \in BatchOf(c) : m \in Dropped' <=>
                 /\ copies[m] = 0 /\ tries[c] = MAX_STOMP_RETRY
                 /\ state'[c] \in {"loop", "returned"}
  <1>1. \A m \in Message \ BatchOf(c) : m[1] \in Call /\ m[1] # c
    BY MessageCall DEF BatchOf
  <1> QED
    BY <1>1, BatchType DEF Sent, Dropped

LEMMA BeginStep ==
    ASSUME IInv, NEW c \in Call, Begin(c)
    PROVE  P!Begin(c)
  <1>1. /\ state[c] = "new" /\ tries[c] = 0 /\ UNCHANGED <<tries, copies>>
        /\ \A d \in Call : state'[d] = IF d = c THEN "loop" ELSE state[d]
    BY DEF Begin, GoTo, IInv, TypeOK, CallInStep
  <1>2. \A d \in Call : Given'[d] = IF d = c THEN BatchOf(c) ELSE Given[d]
    BY <1>1 DEF Given, BatchOf
  <1>3. Given' = [Given EXCEPT ![c] = Given'[c]]
    BY <1>2 DEF Given
  <1>4. Given[c] = Nothing /\ Given'[c] # Nothing
    BY <1>1, <1>2, NothingAssumption DEF Given
  <1>5. Outcome' = Outcome
    BY <1>1 DEF Outcome, Ended
  <1>6. Sent' = Sent /\ Dropped \subseteq Dropped' /\ Dropped' \subseteq Dropped \cup Given'[c]
    <2>1. Dropped \subseteq Message /\ Dropped' \subseteq Message
      BY DEF Dropped
    <2>2. \A m \in BatchOf(c) : m \in Message /\ m[1] = c /\ m \notin Dropped
      BY <1>1, BatchType DEF Dropped
    <2> QED
      BY <1>1, <1>2, <2>1, <2>2, DroppedBy
  <1>7. Given'[c] \cap P!Offered = {}
    <2>1. \A d \in Call : Given[d] # Nothing => Given[d] = BatchOf(d) /\ d # c
      BY <1>4 DEF Given
    <2> QED
      BY <1>2, <2>1, BatchType DEF P!Offered
  <1> QED
    BY <1>3, <1>4, <1>5, <1>6, <1>7 DEF P!Begin

(* An exception that is not a StompException's ends the call.              *)
LEMMA RaiseStep ==
    ASSUME IInv, NEW calls \in SUBSET Call, UNCHANGED <<tries, copies>>,
           \A c \in calls : state[c] \in Running,
           \A c \in calls : state'[c] \in {"raised", "uncounted"},
           \A c \in Call \ calls : state'[c] = state[c]
    PROVE  P!Raise(calls)
  <1>1. \A c \in calls : Given[c] = BatchOf(c) /\ Given[c] # Nothing /\ Outcome[c] = "no"
    BY NothingAssumption DEF Given, Outcome, Running, Ended
  <1>2. Outcome' = [c \in Call |-> IF c \in calls THEN "raised" ELSE Outcome[c]]
    <2>1. \A c \in Call : Outcome'[c] = IF c \in calls THEN "raised" ELSE Outcome[c]
      BY DEF Outcome, Ended
    <2> QED
      BY <2>1 DEF Outcome
  <1>3. Given' = Given
    BY DEF Given, BatchOf, Running
  <1>4. Dropped' = Dropped \ UNION {Given[c] : c \in calls}
    <2>1. ASSUME NEW m \in Message
          PROVE  m \in UNION {Given[c] : c \in calls} <=> m[1] \in calls
      BY <1>1, MessageCall, BatchType
    <2>2. ASSUME NEW m \in Message
          PROVE  m \in Dropped' <=> m \in Dropped /\ m[1] \notin calls
      <3>1. m[1] \in Call
        BY MessageCall
      <3> QED
        BY <3>1 DEF Dropped
    <2>3. Dropped \subseteq Message /\ Dropped' \subseteq Message
      BY DEF Dropped, Message
    <2> QED
      BY <2>1, <2>2, <2>3
  <1>5. Sent' = Sent
    BY DEF Sent
  <1> QED
    BY <1>1, <1>2, <1>3, <1>4, <1>5 DEF P!Raise

(* What a call does with the outcome of a try: it returns, when the whole  *)
(* batch is out; it raises; or it is back in the loop.                     *)
LEMMA CaughtStep ==
    ASSUME IInv, IInv', NEW c \in Call, state[c] \in {"connect", "disconnect"},
           NEW e \in {"no"} \cup Exception, state' = [state EXCEPT ![c] = Caught(e)],
           UNCHANGED <<tries, copies>>,
           e = "no" => \A m \in BatchOf(c) : copies[m] > 0
    PROVE  P!Next
  <1>1. \A d \in Call : state'[d] = IF d = c THEN Caught(e) ELSE state[d]
    BY DEF IInv, TypeOK
  <1>2. Sent' = Sent /\ Dropped \subseteq Dropped'
    <2>1. \A m \in BatchOf(c) : m \in Message /\ m[1] = c
      BY BatchType
    <2>2. Dropped \subseteq Message /\ \A m \in BatchOf(c) : m \notin Dropped
      BY <2>1 DEF Dropped
    <2> QED
      BY <1>1, <2>2, DroppedBy
  <1>3. CASE e = "no"
    <2>1. state'[c] = "returned" /\ \A m \in BatchOf(c) : m \in Message /\ copies[m] > 0
      BY <1>1, <1>3, CaughtIs, BatchType
    <2>2. Dropped' = Dropped
      <3>1. \A m \in BatchOf(c) : copies[m] # 0
        BY <2>1 DEF IInv, TypeOK
      <3>2. \A m \in BatchOf(c) : m \notin Dropped'
        BY <1>1, <3>1, DroppedBy
      <3>3. Dropped \subseteq Message /\ Dropped' \subseteq Message
        BY DEF Dropped, Message
      <3> QED
        BY <1>1, <1>2, <3>2, <3>3, DroppedBy
    <2>3. Given' = Given
      BY <1>1, <2>1 DEF Given, BatchOf
    <2>4. Outcome' = [Outcome EXCEPT ![c] = "returned"]
      BY <1>1, <2>1 DEF Outcome, Ended
    <2>5. Given[c] = BatchOf(c) /\ Given[c] # Nothing /\ Outcome[c] = "no"
      BY NothingAssumption DEF Given, Outcome, Ended
    <2>6. BatchOf(c) \subseteq Sent
      BY <2>1 DEF Sent
    <2>7. P!Return(c)
      BY <1>2, <2>2, <2>3, <2>4, <2>5, <2>6 DEF P!Return
    <2> QED
      BY <2>7 DEF P!Next
  <1>4. CASE e = "StompException"
    <2>1. Given' = Given /\ Outcome' = Outcome
      BY <1>1, <1>4, CaughtIs, CallsMove DEF Ended
    <2> QED
      BY <1>2, <2>1, MoveStep DEF P!Next
  <1>5. CASE e = "Exception"
    <2>1. state'[c] = "raised" /\ \A d \in Call \ {c} : state'[d] = state[d]
      BY <1>1, <1>5, CaughtIs
    <2>2. P!Raise({c})
      BY <2>1, RaiseStep DEF Running
    <2> QED
      BY <2>2 DEF P!Next
  <1> QED
    BY <1>3, <1>4, <1>5 DEF Exception

(* The tries are spent: what was not sent is dropped already.              *)
LEMMA GiveUpStep ==
    ASSUME IInv, NEW c \in Call, GiveUp(c)
    PROVE  P!Return(c)
  <1>1. /\ state[c] = "loop" /\ tries[c] = MAX_STOMP_RETRY /\ UNCHANGED <<tries, copies>>
        /\ \A d \in Call : state'[d] = IF d = c THEN "returned" ELSE state[d]
    BY DEF GiveUp, GoTo, IInv, TypeOK
  <1>2. Sent' = Sent /\ Dropped' = Dropped
    BY <1>1, MessageCall DEF Sent, Dropped
  <1>3. BatchOf(c) \subseteq Sent \cup Dropped
    <2>1. \A m \in BatchOf(c) : m \in Message /\ m[1] = c /\ copies[m] \in Nat
      BY BatchType DEF IInv, TypeOK
    <2> QED
      BY <1>1, <2>1 DEF Sent, Dropped
  <1>4. Given[c] = BatchOf(c) /\ Given[c] # Nothing /\ Outcome[c] = "no"
    BY <1>1, NothingAssumption DEF Given, Outcome, Ended
  <1>5. Given' = Given
    BY <1>1 DEF Given, BatchOf
  <1>6. Outcome' = [Outcome EXCEPT ![c] = "returned"]
    BY <1>1 DEF Outcome, Ended
  <1> QED
    BY <1>2, <1>3, <1>4, <1>5, <1>6 DEF P!Return

(* A step within a try.                                                    *)
LEMMA WithinTry ==
    ASSUME IInv, IInv', NEW c \in Call, NEW s \in Running \ {"loop"},
           state[c] \in {"connect", "send", "sending"}, state' = [state EXCEPT ![c] = s],
           UNCHANGED tries, \A m \in Message : copies[m] <= copies'[m],
           \A m \in Message \ BatchOf(c) : copies'[m] = copies[m]
    PROVE  P!Next
  <1>1. \A d \in Call : state'[d] = IF d = c THEN s ELSE state[d]
    BY DEF IInv, TypeOK
  <1>2. Given' = Given /\ Outcome' = Outcome
    BY <1>1, CallsMove DEF Running, Ended
  <1>3. Sent \subseteq Sent'
    BY DEF Sent, IInv, TypeOK
  <1>4. Dropped \subseteq Dropped'
    <2> SUFFICES ASSUME NEW m \in Dropped PROVE m \in Dropped'
      OBVIOUS
    <2>1. m \in Message /\ m[1] \in Call /\ m[1] # c /\ m \notin BatchOf(c)
      BY MessageCall, BatchType DEF Dropped
    <2> QED
      BY <1>1, <2>1 DEF Dropped
  <1> QED
    BY <1>2, <1>3, <1>4, MoveStep DEF P!Next

LEMMA TryStep ==
    ASSUME IInv, NEW c \in Call, Try(c)
    PROVE  UNCHANGED P!vars
  <1>1. /\ state[c] = "loop" /\ tries[c] # MAX_STOMP_RETRY /\ UNCHANGED copies
        /\ \A d \in Call : state'[d] = IF d = c THEN "connect" ELSE state[d]
        /\ \A d \in Call : d # c => tries'[d] = tries[d]
    BY RetryAssumption DEF Try, GoTo, IInv, TypeOK
  <1>2. Given' = Given /\ Outcome' = Outcome
    BY <1>1, CallsMove DEF Ended
  <1>3. Sent' = Sent
    BY <1>1 DEF Sent
  <1>4. ASSUME NEW m \in Message PROVE m \in Dropped' <=> m \in Dropped
    <2>1. m[1] \in Call
      BY MessageCall
    <2> QED
      BY <1>1, <2>1 DEF Dropped
  <1>5. Dropped' = Dropped
    BY <1>4 DEF Dropped
  <1> QED
    BY <1>2, <1>3, <1>5 DEF P!vars

LEMMA CrashStep ==
    ASSUME IInv, Crash
    PROVE  P!Next
  <1> DEFINE calls == {c \in Call : state[c] \in Running}
  <1>1. /\ \A c \in calls : state'[c] \in {"raised", "uncounted"}
        /\ \A c \in Call \ calls : state'[c] = state[c]
    BY DEF Crash, Running
  <1>2. P!Raise(calls)
    BY <1>1, RaiseStep DEF Crash
  <1> QED
    BY <1>2 DEF P!Next

LEMMA StillStep ==
    ASSUME UNCHANGED vars
    PROVE  UNCHANGED P!vars
  <1>1. Given' = Given /\ Outcome' = Outcome /\ Sent' = Sent /\ Dropped' = Dropped
    BY DEF vars, Given, Outcome, Sent, Dropped, BatchOf
  <1> QED
    BY <1>1 DEF P!vars

LEMMA NextPublisher == IInv /\ IInv' /\ [Next]_vars => [P!Next]_(P!vars)
  <1> SUFFICES ASSUME IInv, IInv', [Next]_vars PROVE [P!Next]_(P!vars)
    OBVIOUS
  <1>1. TypeOK /\ \A d \in Call : CallInStep(d)
    BY DEF IInv
  <1> USE DEF GoTo
  <1>2. ASSUME NEW c \in Call, Begin(c) PROVE P!Next
    BY <1>2, BeginStep DEF P!Next
  <1>3. ASSUME NEW c \in Call, GiveUp(c) PROVE P!Next
    BY <1>3, GiveUpStep DEF P!Next
  <1>4. ASSUME NEW c \in Call, Connect(c) \/ SendReturns(c) PROVE P!Next
    <2>1. UNCHANGED <<tries, copies>> /\ \A m \in Message : copies[m] <= copies'[m]
      BY <1>1, <1>4 DEF Connect, SendReturns, TypeOK
    <2>2. state[c] \in {"connect", "sending"} /\ state' = [state EXCEPT ![c] = "send"]
      BY <1>4 DEF Connect, SendReturns
    <2> QED
      BY <2>1, <2>2, WithinTry DEF Running
  <1>5. ASSUME NEW c \in Call, ConnectRaises(c) \/ DisconnectRaises(c) PROVE P!Next
    <2>1. PICK e \in Exception : state' = [state EXCEPT ![c] = Caught(e)]
      BY <1>5 DEF ConnectRaises, DisconnectRaises
    <2>2. state[c] \in {"connect", "disconnect"} /\ UNCHANGED <<tries, copies>> /\ e # "no"
      BY <1>5 DEF ConnectRaises, DisconnectRaises, Exception
    <2> QED
      BY <2>1, <2>2, CaughtStep
  <1>6. ASSUME NEW c \in Call, Disconnect(c) PROVE P!Next
    <2>1. /\ raising[c] \in {"no"} \cup Exception
          /\ raising[c] = "no" => \A m \in BatchOf(c) : copies[m] > 0
      BY <1>1, <1>6 DEF Disconnect, CallInStep, TypeOK
    <2>2. /\ state[c] = "disconnect" /\ state' = [state EXCEPT ![c] = Caught(raising[c])]
          /\ UNCHANGED <<tries, copies>>
      BY <1>6 DEF Disconnect
    <2> QED
      BY <2>1, <2>2, CaughtStep
  <1>7. ASSUME NEW c \in Call, Send(c) PROVE P!Next
    <2>1. PICK m \in todo[c] : copies' = [copies EXCEPT ![m] = @ + 1]
      BY <1>7 DEF Send
    <2>2. state[c] = "send" /\ state' = [state EXCEPT ![c] = "sending"] /\ UNCHANGED tries
      BY <1>7 DEF Send
    <2>3. m \in Message /\ m \in BatchOf(c)
      BY <1>1, BatchType DEF CallInStep
    <2>4. /\ \A n \in Message : copies[n] <= copies'[n]
          /\ \A n \in Message \ BatchOf(c) : copies'[n] = copies[n]
      BY <1>1, <2>1, <2>3 DEF TypeOK
    <2> QED
      BY <2>2, <2>4, WithinTry DEF Running
  <1>8. ASSUME NEW c \in Call, SendRaises(c) \/ RenderRaises(c) \/ AllSent(c) PROVE P!Next
    <2>1. UNCHANGED <<tries, copies>> /\ \A m \in Message : copies[m] <= copies'[m]
      BY <1>1, <1>8 DEF SendRaises, RenderRaises, AllSent, TypeOK, counters
    <2>2. state[c] \in {"send", "sending"} /\ state' = [state EXCEPT ![c] = "disconnect"]
      BY <1>8 DEF SendRaises, RenderRaises, AllSent, Leave
    <2> QED
      BY <2>1, <2>2, WithinTry DEF Running
  <1> QED
    BY <1>2, <1>3, <1>4, <1>5, <1>6, <1>7, <1>8, TryStep, CrashStep, StillStep DEF Next, Step

(* The STOMP publisher keeps the hook's promise: a call that returns has   *)
(* sent its batch, in one try or over several, or has spent its tries      *)
(* (stomp.py:73-83).                                                       *)
THEOREM StompImplementsPublisher == Spec => ImplementsPublisher
  BY InitPublisher, NextPublisher, Invariance, PTL DEF Spec, ImplementsPublisher, P!Spec

(* A call that returns has sent its batch, in one try or over several, or  *)
(* spent its tries (stomp.py:73-83): the contract's promise, where giving  *)
(* up takes all tries.                                                     *)
THEOREM ReturnedWasSentOrGivenUp == Spec => []ReturnedIsSentOrGivenUp
  <1>1. P!Spec => []P!Promise
    BY P!PromiseKept
  <1>2. P!Promise => ReturnedIsSentOrGivenUp
    <2> SUFFICES ASSUME P!Promise, NEW c \in Call, state[c] = "returned",
                        NEW m \in BatchOf(c), m \notin Sent
                 PROVE  tries[c] = MAX_STOMP_RETRY
      BY DEF ReturnedIsSentOrGivenUp
    <2>1. BatchOf(c) \subseteq Sent \cup Dropped
      BY DEF P!Promise, Given, Outcome
    <2> QED
      BY <2>1, BatchType DEF Dropped
  <1> QED
    BY <1>1, <1>2, StompImplementsPublisher, PTL DEF ImplementsPublisher

============================================================================
