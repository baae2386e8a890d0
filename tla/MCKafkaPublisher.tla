-------------------------- MODULE MCKafkaPublisher --------------------------
(***************************************************************************)
(* Calls of the Kafka publisher in a process whose producer holds two      *)
(* messages: a call of one waiver, one of two, and one of two whose second *)
(* cannot be rendered.                                                     *)
(***************************************************************************)
EXTENDS KafkaPublisher, TLC

CONSTANTS single, pair, bad

MCCall == {single, pair, bad}
MCSize == single :> 1 @@ pair :> 2 @@ bad :> 2
MCUnrenderable == {<<bad, 2>>}

=============================================================================
