--------------------------- MODULE MCZenResponses ---------------------------
(* An answer of a message that may decline, without empty refusal deltas. *)
EXTENDS ZenResponses

Decline ==
  [type |-> "message", injected |-> FALSE,
   size |-> [thinking |-> 0, text |-> 1, refusal |-> 1, args |-> 0]]

OneAnswer == {<<Decline>>}

Next == ResponsesNext /\ zup'.refusing = {}

Spec == ResponsesInit /\ [][Next]_zrVars
=============================================================================
