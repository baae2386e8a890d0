-------------------------- MODULE StompPublisher ---------------------------
(***************************************************************************)
(* The STOMP publisher (waiverdb/messaging/stomp.py).  A call opens a      *)
(* connection, sends a message for each waiver of the session and          *)
(* disconnects.  A StompException at any of these, the disconnection too,  *)
(* starts the whole of it again, up to MAX_STOMP_RETRY times; then the     *)
(* call returns as if all was well.  Any other exception ends the call.    *)
(*                                                                         *)
(* A message is "on the bus" once it is written to the connection: no      *)
(* receipt is asked for.                                                   *)
(***************************************************************************)
EXTENDS Naturals, FiniteSets

CONSTANTS
    Call,             \* the calls of publish_new_waiver
    Size,             \* call -> how many waivers its session holds
    Unrenderable,     \* the messages json or marshal cannot make
    MAX_STOMP_RETRY,
    Nothing

ASSUME SizeAssumption == Size \in [Call -> Nat]
ASSUME RetryAssumption == MAX_STOMP_RETRY \in Nat

Message == UNION {{<<c, i>> : i \in 1..Size[c]} : c \in Call}
BatchOf(c) == {m \in Message : m[1] = c}

(* Nothing is no batch.                                                    *)
ASSUME NothingAssumption == \A c \in Call : Nothing # BatchOf(c)

VARIABLES
    state,   \* call -> where it is
    tries,   \* call -> how many tries it began
    todo,    \* call -> rows this try has not sent
    raising, \* call -> the exception that leaves the connection's block
    copies,  \* message -> how many times it is on the bus
    toSend,  \* messaging_tx_to_send
    sentOk,  \* messaging_tx_sent_ok
    failed   \* messaging_tx_failed

counters == <<toSend, sentOk, failed>>
vars == <<state, tries, todo, raising, copies, counters>>

Exception == {"StompException", "Exception"}
Running == {"loop", "connect", "send", "sending", "disconnect"}

(* "uncounted" is a call that died behind a send, before it was counted.   *)
Ended == {"returned", "raised", "uncounted"}

Init ==
    /\ state = [c \in Call |-> "new"]
    /\ tries = [c \in Call |-> 0]
    /\ todo = [c \in Call |-> {}]
    /\ raising = [c \in Call |-> "no"]
    /\ copies = [m \in Message |-> 0]
    /\ toSend = 0 /\ sentOk = 0 /\ failed = 0

GoTo(c, s) == state' = [state EXCEPT ![c] = s]

(* What publish_new_waiver does with the outcome of _send.                 *)
Caught(outcome) ==
    CASE outcome = "no" -> "returned"
      [] outcome = "StompException" -> "loop"
      [] outcome = "Exception" -> "raised"

Begin(c) ==
    /\ state[c] = "new"
    /\ GoTo(c, "loop")
    /\ UNCHANGED <<tries, todo, raising, copies, counters>>

Try_OnceMore(c) ==
    /\ state[c] = "loop" /\ tries[c] <= MAX_STOMP_RETRY
    /\ tries' = [tries EXCEPT ![c] = @ + 1]
    /\ todo' = [todo EXCEPT ![c] = BatchOf(c)]
    /\ raising' = [raising EXCEPT ![c] = "no"]
    /\ GoTo(c, "connect")
    /\ UNCHANGED <<copies, counters>>

Try(c) ==
    /\ state[c] = "loop" /\ tries[c] < MAX_STOMP_RETRY
    /\ tries' = [tries EXCEPT ![c] = @ + 1]
    /\ todo' = [todo EXCEPT ![c] = BatchOf(c)]
    /\ raising' = [raising EXCEPT ![c] = "no"]
    /\ GoTo(c, "connect")
    /\ UNCHANGED <<copies, counters>>

GiveUp_OffByOne(c) ==
    /\ state[c] = "loop" /\ tries[c] > MAX_STOMP_RETRY
    /\ GoTo(c, "returned")
    /\ UNCHANGED <<tries, todo, raising, copies, counters>>

GiveUp(c) ==
    /\ state[c] = "loop" /\ tries[c] = MAX_STOMP_RETRY
    /\ GoTo(c, "returned")
    /\ UNCHANGED <<tries, todo, raising, copies, counters>>

(* conn.connect(wait=True), which has no time limit.                       *)
Connect(c) ==
    /\ state[c] = "connect"
    /\ GoTo(c, "send")
    /\ UNCHANGED <<tries, todo, raising, copies, counters>>

ConnectRaises(c) ==
    /\ state[c] = "connect"
    /\ \E e \in Exception : GoTo(c, Caught(e))
    /\ UNCHANGED <<tries, todo, raising, copies, counters>>

Send_KeepsRow(c) ==
    /\ state[c] = "send"
    /\ \E m \in todo[c] \ Unrenderable :
         copies' = [copies EXCEPT ![m] = @ + 1]
    /\ toSend' = toSend + 1
    /\ GoTo(c, "sending")
    /\ UNCHANGED <<tries, todo, raising, sentOk, failed>>

(* conn.send writes a message.                                             *)
Send(c) ==
    /\ state[c] = "send"
    /\ \E m \in todo[c] \ Unrenderable :
         /\ todo' = [todo EXCEPT ![c] = @ \ {m}]
         /\ copies' = [copies EXCEPT ![m] = @ + 1]
    /\ toSend' = toSend + 1
    /\ GoTo(c, "sending")
    /\ UNCHANGED <<tries, raising, sentOk, failed>>

SendReturns(c) ==
    /\ state[c] = "sending"
    /\ sentOk' = sentOk + 1
    /\ GoTo(c, "send")
    /\ UNCHANGED <<tries, todo, raising, copies, toSend, failed>>

Leave(c, e) == GoTo(c, "disconnect") /\ raising' = [raising EXCEPT ![c] = e]

SendRaises_CountsBugs(c) ==
    /\ \/ /\ state[c] = "send" /\ todo[c] \ Unrenderable # {}
          /\ toSend' = toSend + 1
       \/ state[c] = "sending" /\ UNCHANGED toSend
    /\ \E e \in Exception :
         Leave(c, e) /\ failed' = IF e = "Exception" THEN failed + 1 ELSE failed
    /\ UNCHANGED <<tries, todo, copies, sentOk>>

SendRaises_Logged(c) ==
    /\ \/ /\ state[c] = "send"
          /\ \E m \in todo[c] \ Unrenderable : todo' = [todo EXCEPT ![c] = @ \ {m}]
          /\ toSend' = toSend + 1
       \/ state[c] = "sending" /\ UNCHANGED <<todo, toSend>>
    /\ GoTo(c, "send")
    /\ failed' = failed + 1
    /\ UNCHANGED <<tries, raising, copies, sentOk>>

(* conn.send raises, before or behind the writing.                         *)
SendRaises(c) ==
    /\ \/ /\ state[c] = "send" /\ todo[c] \ Unrenderable # {}
          /\ toSend' = toSend + 1
       \/ state[c] = "sending" /\ UNCHANGED toSend
    /\ \E e \in Exception : Leave(c, e)
    /\ failed' = failed + 1
    /\ UNCHANGED <<tries, todo, copies, sentOk>>

RenderRaises(c) ==
    /\ state[c] = "send"
    /\ todo[c] \cap Unrenderable # {}
    /\ Leave(c, "Exception")
    /\ toSend' = toSend + 1
    /\ UNCHANGED <<tries, todo, copies, sentOk, failed>>

AllSent(c) ==
    /\ state[c] = "send" /\ todo[c] = {}
    /\ Leave(c, "no")
    /\ UNCHANGED <<tries, todo, copies, counters>>

(* The finally clause: what disconnect() raises takes the place of the     *)
(* exception on its way out.                                               *)
Disconnect_Swallows(c) ==
    /\ state[c] = "disconnect"
    /\ GoTo(c, Caught("no"))
    /\ UNCHANGED <<tries, todo, raising, copies, counters>>

Disconnect(c) ==
    /\ state[c] = "disconnect"
    /\ GoTo(c, Caught(raising[c]))
    /\ UNCHANGED <<tries, todo, raising, copies, counters>>

DisconnectRaises(c) ==
    /\ state[c] = "disconnect"
    /\ \E e \in Exception : GoTo(c, Caught(e))
    /\ UNCHANGED <<tries, todo, raising, copies, counters>>

(* The process dies.                                                       *)
Crash ==
    /\ \E c \in Call : state[c] \in Running
    /\ state' = [c \in Call |-> CASE state[c] = "sending" -> "uncounted"
                                [] state[c] \in Running \ {"sending"} -> "raised"
                                [] OTHER -> state[c]]
    /\ UNCHANGED <<tries, todo, raising, copies, counters>>

Step(c) ==
    \/ Try(c) \/ GiveUp(c) \/ Send(c) \/ SendReturns(c) \/ SendRaises(c)
    \/ RenderRaises(c) \/ AllSent(c) \/ Disconnect(c) \/ DisconnectRaises(c)

Next ==
    \/ \E c \in Call : Begin(c) \/ Connect(c) \/ ConnectRaises(c) \/ Step(c)
    \/ Crash

(* A broker that never answers CONNECT holds the call for ever.            *)
Spec == Init /\ [][Next]_vars /\ \A c \in Call : WF_vars(Step(c))

----------------------------------------------------------------------------

(* Every variable holds a value of its kind.                               *)
TypeOK ==
    /\ state \in [Call -> {"new"} \cup Running \cup Ended]
    /\ tries \in [Call -> 0..MAX_STOMP_RETRY]
    /\ todo \in [Call -> SUBSET Message]
    /\ raising \in [Call -> {"no"} \cup Exception]
    /\ copies \in [Message -> Nat]
    /\ toSend \in Nat /\ sentOk \in Nat /\ failed \in Nat

Given == [c \in Call |-> IF state[c] = "new" THEN Nothing ELSE BatchOf(c)]

Sent == {m \in Message : copies[m] > 0}

Dropped == {m \in Message : /\ copies[m] = 0
                            /\ tries[m[1]] = MAX_STOMP_RETRY
                            /\ state[m[1]] \in {"loop", "returned"}}

Outcome == [c \in Call |-> CASE state[c] = "returned" -> "returned"
                             [] state[c] \in Ended \ {"returned"} -> "raised"
                             [] OTHER -> "no"]

P == INSTANCE Publisher WITH
    offered <- Given, sent <- Sent, dropped <- Dropped, ended <- Outcome

(* A call gets one batch, gives up of it only what it could not send, and  *)
(* ends as the hook expects (stomp.py:73-83).                              *)
ImplementsPublisher == P!Spec

(* A call that returns has sent every row of its session, in one try or    *)
(* over several, or has spent all its tries (stomp.py:73-83).              *)
ReturnedIsSentOrGivenUp ==
    \A c \in Call :
        state[c] = "returned" => BatchOf(c) \subseteq Sent \/ tries[c] = MAX_STOMP_RETRY

(* Consumers see a waiver at most once for each try, whatever failed       *)
(* (stomp.py:73-104).                                                      *)
OncePerTry == \A m \in Message : copies[m] <= tries[m[1]]

Copies == UNION {{m} \X (1..copies[m]) : m \in Message}

Uncounted == {c \in Call : state[c] \in {"sending", "uncounted"}}

(* The counters of sent and failed messages together account for every     *)
(* message on the bus, those whose sending failed included; a call that    *)
(* dies can leave one uncounted (stomp.py:98-104).                         *)
SendsAreCounted == Cardinality(Copies) <= sentOk + failed + Cardinality(Uncounted)

(* A call ends, unless it waits in connect() for ever (stomp.py:41,73-83). *)
EveryCallEnds ==
    \A c \in Call :
        \/ state[c] = "loop" ~> state[c] \in Ended
        \/ <>[](state[c] = "connect")

============================================================================
