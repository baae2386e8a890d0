-------------------------- MODULE MCStompPublisher --------------------------
(***************************************************************************)
(* A call of two waivers and one whose only waiver cannot be rendered.     *)
(***************************************************************************)
EXTENDS StompPublisher, TLC

CONSTANTS pair, bad

MCCall == {pair, bad}
MCSize == pair :> 2 @@ bad :> 1
MCUnrenderable == {<<bad, 1>>}

=============================================================================
