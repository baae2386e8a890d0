----------------------------- MODULE WaiverLog -----------------------------
(***************************************************************************)
(* What WaiverDB promises to those who submit waivers, without a word on   *)
(* how: an append-only collection of waivers to which a submission adds    *)
(* its whole batch in one step or nothing at all.                          *)
(*                                                                         *)
(* - A submission answered "created" has all its waivers in the            *)
(*   collection; one answered "refused" has none and never will; of one    *)
(*   answered "unknown" (the server failed, or never answered) either may  *)
(*   be the case, and whichever it is no longer changes.                   *)
(* - A waiver supersedes every waiver that was acknowledged before its     *)
(*   own submission began: its id is larger.                               *)
(***************************************************************************)
EXTENDS Integers

CONSTANTS None, Request

VARIABLES
    waivers,  \* the waivers there are, ever
    asked,    \* request -> how many waivers it asks for, None before it begins
    before,   \* request -> the ids acknowledged when it began
    answer    \* request -> None, "created", "refused" or "unknown"

vars == <<waivers, asked, before, answer>>

Acknowledged == {w.id : w \in {v \in waivers : answer[v.request] = "created"}}

ItemsOf(r) == {w.item : w \in {v \in waivers : v.request = r}}

Init ==
    /\ waivers = {}
    /\ asked = [r \in Request |-> None]
    /\ before = [r \in Request |-> {}]
    /\ answer = [r \in Request |-> None]

Begin(r) ==
    /\ asked[r] = None
    /\ asked'[r] \in Nat
    /\ asked' = [asked EXCEPT ![r] = asked'[r]]
    /\ before' = [before EXCEPT ![r] = Acknowledged]
    /\ UNCHANGED <<waivers, answer>>

(* The batch is whatever the new waivers are: all of one request, one for  *)
(* each position, later positions superseding earlier ones, and all of     *)
(* them superseding what was acknowledged before.                          *)
Append(r) ==
    /\ asked[r] # None /\ answer[r] = None /\ ItemsOf(r) = {}
    /\ waivers \subseteq waivers'
    /\ LET batch == waivers' \ waivers
       IN /\ {w.item : w \in batch} = 1..asked[r]
          /\ \A w \in batch :
               /\ w.request = r
               /\ \A id \in before[r] : w.id > id
               /\ \A v \in waivers : w.id # v.id
               /\ \A v \in batch : w.item > v.item => w.id > v.id
    /\ UNCHANGED <<asked, before, answer>>

Answer(r, a) ==
    /\ answer[r] = None
    /\ asked[r] # None
    /\ a = "created" => ItemsOf(r) = 1..asked[r]
    /\ a = "refused" => ItemsOf(r) = {}
    /\ answer' = [answer EXCEPT ![r] = a]
    /\ UNCHANGED <<waivers, asked, before>>

Next ==
    \E r \in Request :
        \/ Begin(r)
        \/ Append(r)
        \/ \E a \in {"created", "refused", "unknown"} : Answer(r, a)

Spec == Init /\ [][Next]_vars

============================================================================
