--------------------------- MODULE MessageStream ---------------------------
(***************************************************************************)
(* What the gateway promises a client that streams a message, whichever    *)
(* upstream the answer comes from: the message begins once; its blocks are *)
(* opened one after the other, each after the one before was closed; text  *)
(* goes to the open block only, and only text of its kind; a tool block    *)
(* holds the arguments of one call; the stop reason comes once, after the  *)
(* last block was closed, and says tool_use only of a message that has a   *)
(* tool block; an error ends the message and nothing follows it.           *)
(***************************************************************************)
EXTENDS Naturals, Sequences, SequencesExt

VARIABLES
  phase,  \* "none", "open", "told" (the stop reason), "done", "failed"
  blocks, \* content blocks: kind, text (the pieces received) and open
  stop    \* stop reason, "none" before it is told

msVars == <<phase, blocks, stop>>

\* A piece of text names the item of the answer it belongs to and its part; a
\* "blank" one is a delta without text.
Fits(piece, kind) ==
  CASE kind = "thinking" -> piece.part \in {"thinking", "gap", "blank", "signature"}
    [] kind = "text" -> piece.part \in {"text", "refusal"}
    [] kind = "tool" -> piece.part = "args"
    [] OTHER -> FALSE

WellFormed(b) ==
  /\ \A n \in DOMAIN b.text : Fits(b.text[n], b.kind)
  /\ b.kind = "tool" => \A n, m \in DOMAIN b.text : b.text[n].item = b.text[m].item
  /\ \A n \in DOMAIN b.text : b.text[n].part = "signature" => n = Len(b.text)

AllClosed == \A i \in DOMAIN blocks : ~blocks[i].open
LastOpen == blocks # <<>> /\ blocks[Len(blocks)].open

MSInit == phase = "none" /\ blocks = <<>> /\ stop = "none"

Begin == phase = "none" /\ phase' = "open" /\ UNCHANGED <<blocks, stop>>

OpenBlock ==
  /\ phase = "open" /\ AllClosed
  /\ \E kind \in {"thinking", "text", "tool", "image"} :
       blocks' = Append(blocks, [kind |-> kind, text |-> <<>>, open |-> TRUE])
  /\ UNCHANGED <<phase, stop>>

Extend ==
  LET last == Len(blocks) IN
  /\ phase = "open" /\ LastOpen
  /\ Len(blocks') = last
  /\ IsStrictPrefix(blocks[last].text, blocks'[last].text)
  /\ WellFormed(blocks'[last])
  /\ blocks' = [blocks EXCEPT ![last].text = blocks'[last].text]
  /\ UNCHANGED <<phase, stop>>

\* A text block never stays empty, and a thinking block never without a delta.
CloseBlock ==
  LET last == Len(blocks) IN
  /\ phase = "open" /\ LastOpen
  /\ blocks[last].kind \in {"text", "thinking"} => blocks[last].text # <<>>
  /\ blocks' = [blocks EXCEPT ![last].open = FALSE]
  /\ UNCHANGED <<phase, stop>>

Finish ==
  /\ phase = "open" /\ AllClosed /\ phase' = "told"
  /\ stop' \in {"end_turn", "tool_use", "max_tokens", "refusal"}
  /\ stop' = "tool_use" => \E i \in DOMAIN blocks : blocks[i].kind = "tool"
  /\ UNCHANGED blocks

End == phase = "told" /\ phase' = "done" /\ UNCHANGED <<blocks, stop>>

Fail == phase \in {"none", "open"} /\ phase' = "failed" /\ UNCHANGED <<blocks, stop>>

MSNext == Begin \/ OpenBlock \/ Extend \/ CloseBlock \/ Finish \/ End \/ Fail

MSSpec == MSInit /\ [][MSNext]_msVars
=============================================================================
