----------------------------- MODULE Publisher -----------------------------
(***************************************************************************)
(* What the after_commit hook promises (waiverdb/events.py), whichever     *)
(* publisher is configured.  A call of the hook gets the rows of one       *)
(* transaction and ends in one of two ways:                                *)
(*                                                                         *)
(* - it returns: every row was handed over, or dropped on purpose after    *)
(*   the publisher's own way of giving up;                                 *)
(* - it raises: of each row the message may or may not be out, now or      *)
(*   later, and the client of the transaction is told 500.                 *)
(*                                                                         *)
(* In neither case is a message invented: what is on the bus was offered   *)
(* by a call.                                                              *)
(***************************************************************************)
EXTENDS TLAPS

CONSTANTS Call, Nothing

VARIABLES
    offered,  \* call -> the rows it was given, Nothing before it begins
    sent,     \* the rows with a message on the bus
    dropped,  \* the rows a publisher gave up
    ended     \* call -> "no", "returned" or "raised"

vars == <<offered, sent, dropped, ended>>

Offered == UNION {offered[c] : c \in {d \in Call : offered[d] # Nothing}}

Init ==
    /\ offered = [c \in Call |-> Nothing]
    /\ sent = {} /\ dropped = {}
    /\ ended = [c \in Call |-> "no"]

(* A row belongs to one transaction.  A publisher may be set up to give up *)
(* all it gets.                                                            *)
Begin(c) ==
    /\ offered[c] = Nothing
    /\ offered'[c] # Nothing /\ offered'[c] \cap Offered = {}
    /\ offered' = [offered EXCEPT ![c] = offered'[c]]
    /\ dropped \subseteq dropped' /\ dropped' \subseteq dropped \cup offered'[c]
    /\ UNCHANGED <<sent, ended>>

(* Messages move at any time, also after the call that produced them.      *)
Move ==
    /\ sent \subseteq sent' /\ sent' \subseteq Offered
    /\ dropped \subseteq dropped' /\ dropped' \subseteq Offered
    /\ UNCHANGED <<offered, ended>>

Return(c) ==
    /\ offered[c] # Nothing /\ ended[c] = "no"
    /\ offered[c] \subseteq sent \cup dropped
    /\ ended' = [ended EXCEPT ![c] = "returned"]
    /\ UNCHANGED <<offered, sent, dropped>>

(* The death of the process ends several calls at once, one that has just  *)
(* given up among them.                                                    *)
Raise(calls) ==
    /\ \A c \in calls : offered[c] # Nothing /\ ended[c] = "no"
    /\ ended' = [c \in Call |-> IF c \in calls THEN "raised" ELSE ended[c]]
    /\ dropped' = dropped \ UNION {offered[c] : c \in calls}
    /\ UNCHANGED <<offered, sent>>

Next ==
    \/ Move
    \/ \E c \in Call : Begin(c) \/ Return(c)
    \/ \E calls \in SUBSET Call : Raise(calls)

Spec == Init /\ [][Next]_vars

----------------------------------------------------------------------------

(* What a call was given is out or given up once it has returned, also     *)
(* after the process has died around it, and nothing else is: a message    *)
(* on the bus was offered (events.py:16-37).                               *)
Promise ==
    /\ \A c \in Call : ended[c] = "returned" => offered[c] \subseteq sent \cup dropped
    /\ sent \cup dropped \subseteq Offered

(* A call that ended had begun, and no two calls are given the same row:   *)
(* a call that raises takes back nothing a call that returned gave up.     *)
IInv ==
    /\ Promise
    /\ offered = [c \in Call |-> offered[c]]
    /\ ended \in [Call -> {"no", "returned", "raised"}]
    /\ \A c \in Call : ended[c] # "no" => offered[c] # Nothing
    /\ \A c, d \in Call :
          c # d /\ offered[c] # Nothing /\ offered[d] # Nothing
              => offered[c] \cap offered[d] = {}

LEMMA InitInv == Init => IInv
  BY DEF Init, IInv, Promise, Offered

LEMMA BeginInv ==
    ASSUME IInv, NEW c \in Call, Begin(c)
    PROVE  IInv'
  <1> DEFINE rows == offered'[c]
  <1>1. /\ offered[c] = Nothing /\ rows # Nothing /\ rows \cap Offered = {}
        /\ dropped \subseteq dropped' /\ dropped' \subseteq dropped \cup rows
        /\ sent' = sent /\ ended' = ended
    BY DEF Begin
  <1>2. offered' = [d \in Call |-> IF d = c THEN rows ELSE offered[d]]
    BY DEF Begin, IInv
  <1> HIDE DEF rows
  <1>3. \A d \in Call : offered'[d] = IF d = c THEN rows ELSE offered[d]
    BY <1>2
  <1>4. Offered' = Offered \cup rows
    BY <1>1, <1>3 DEF Offered
  <1>5. Promise'
    BY <1>1, <1>3, <1>4 DEF IInv, Promise
  <1>6. \A d \in Call : d # c /\ offered[d] # Nothing => rows \cap offered[d] = {}
    BY <1>1 DEF Offered
  <1> QED
    BY <1>1, <1>2, <1>3, <1>5, <1>6 DEF IInv

LEMMA NextInv == IInv /\ [Next]_vars => IInv'
  <1> SUFFICES ASSUME IInv, [Next]_vars PROVE IInv'
    OBVIOUS
  <1>1. CASE Move
    BY <1>1 DEF Move, IInv, Promise, Offered
  <1>2. ASSUME NEW c \in Call, Return(c) PROVE IInv'
    <2>1. Promise' /\ UNCHANGED offered
      BY <1>2 DEF Return, IInv, Promise, Offered
    <2> QED
      BY <1>2, <2>1 DEF Return, IInv
  <1>3. ASSUME NEW calls \in SUBSET Call, Raise(calls) PROVE IInv'
    <2>1. /\ \A c \in calls : offered[c] # Nothing
          /\ \A c \in Call : ended'[c] = IF c \in calls THEN "raised" ELSE ended[c]
          /\ dropped' = dropped \ UNION {offered[c] : c \in calls}
          /\ UNCHANGED <<offered, sent>>
      BY <1>3 DEF Raise
    <2>2. ASSUME NEW c \in Call, ended'[c] = "returned"
          PROVE  offered'[c] \subseteq sent' \cup dropped'
      <3>1. c \notin calls /\ ended[c] = "returned"
        BY <2>1, <2>2
      <3>2. offered[c] \subseteq sent \cup dropped /\ offered[c] # Nothing
        BY <3>1 DEF IInv, Promise
      <3>3. \A d \in calls : offered[c] \cap offered[d] = {}
        BY <2>1, <3>1, <3>2 DEF IInv
      <3> QED
        BY <2>1, <3>2, <3>3
    <2>3. Promise'
      BY <2>1, <2>2 DEF IInv, Promise, Offered
    <2>4. ended' \in [Call -> {"no", "returned", "raised"}]
      BY <1>3 DEF Raise, IInv
    <2> QED
      BY <2>1, <2>3, <2>4 DEF IInv
  <1>4. CASE UNCHANGED vars
    BY <1>4 DEF vars, IInv, Promise, Offered
  <1> QED
    BY <1>1, <1>2, <1>3, <1>4, BeginInv DEF Next

(* Whatever publisher implements the contract, rows are not lost behind a  *)
(* call that returned, unless given up on purpose (events.py:16-37).       *)
THEOREM PromiseKept == Spec => []Promise
  <1>1. IInv => Promise
    BY DEF IInv
  <1> QED
    BY <1>1, InitInv, NextInv, PTL DEF Spec

============================================================================
