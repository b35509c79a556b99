------------------------------ MODULE ZenChat ------------------------------
(***************************************************************************)
(* A Zen model's answer on the Chat Completions wire, translated into      *)
(* Anthropic events (streamChatToAnthropic in internal/zen/chatwire.go),   *)
(* and folded into one message for a client that does not stream           *)
(* (aggregateChatStream, ChatResponseToAnthropic).                         *)
(*                                                                         *)
(* A chunk may carry reasoning, content, fragments of calls and a finish   *)
(* reason, each or none.  Items of the answer: 0 for reasoning and         *)
(* content, and the index of a call.                                       *)
(***************************************************************************)
EXTENDS EventWire, FiniteSets, SequencesExt

CONSTANTS
  Calls,     \* indexes of tool calls
  GateSets,  \* the sets of calls whose tools the client never declared
  MaxPieces, \* pieces of an answer
  MaxChunk   \* the parts and fragments a chunk may carry

ASSUME ZenChatAssumption ==
  /\ Calls \subseteq Nat \ {0} /\ GateSets \subseteq SUBSET Calls
  /\ MaxPieces \in Nat /\ MaxChunk \in Nat

VARIABLES
  cs,    \* the chatStream
  gate,  \* the calls with injected tools
  cup    \* what upstream has sent: pieces, calls named, finish reason, end

chatVars == <<wire, message, cs, gate, cup>>

ChatParts == {"thinking", "text"}

ChatInit ==
  /\ WireInit
  /\ gate \in GateSets
  /\ cs = [block |-> [c \in Calls |-> 0], dropped |-> {},
            started |-> FALSE, failed |-> FALSE, current |-> 0, kind |-> "none",
            next |-> 1, stop |-> "none", out |-> <<>>]
  /\ cup = [said |-> [p \in ChatParts |-> 0], args |-> [c \in Calls |-> 0], pieces |-> 0,
            named |-> {}, finish |-> "none", over |-> FALSE]

ChatText(p, n) == [item |-> 0, part |-> p, n |-> n]
Argument(c, n) == [item |-> c, part |-> "args", n |-> n]

\* The fragments of one chunk: a call is named once, with or without its first
\* arguments, and its arguments follow.
Fragments == [call : Calls, args : BOOLEAN]

FinishReasons == {"none", "stop", "length", "tool_calls", "content_filter"}

ChatListening == wire = <<>> /\ ~cup.over

-----------------------------------------------------------------------------
\* handle: reasoning, content and calls of one chunk, in this order.
WritePart(s, p, said) ==
  LET o == IF s.kind = p THEN s ELSE OpenNext(s, p)
  IN IF p \in said THEN Write(o, <<ChatText(p, cup.said[p] + 1)>>) ELSE s

OpenChatCall(s, c) ==
  IF s.block[c] # 0 \/ c \in s.dropped THEN s
  ELSE IF c \in gate THEN [s EXCEPT !.dropped = @ \cup {c}]
  ELSE LET b == OpenNext(s, "tool") IN [b EXCEPT !.block[c] = b.current]

\* A fragment of an earlier call, whose block was closed, is dropped.
WriteFragment(s, f) ==
  LET o == OpenChatCall(s, f.call)
  IN IF f.args /\ f.call \notin o.dropped /\ o.block[f.call] = o.current
     THEN Write(o, <<Argument(f.call, cup.args[f.call] + 1)>>) ELSE o

\* mapFinishReason
FinishReason(reason) ==
  CASE reason = "length" -> "max_tokens"
    [] reason = "tool_calls" -> "tool_use"
    [] reason = "content_filter" -> "refusal"
    [] OTHER -> "end_turn"

ChatGoes(s) == cs' = [s EXCEPT !.out = <<>>] /\ Send(s.out) /\ UNCHANGED gate

\* One chunk: said is what it has of reasoning ("thinking") and of content.
Chunk(said, fragments, finish) ==
  LET s == WritePart(WritePart(StartMessage(cs), "thinking", said), "text", said)
      done == FoldLeft(WriteFragment, s, fragments)
      argued == {fragments[i].call : i \in {j \in DOMAIN fragments : fragments[j].args}}
  IN
  /\ ChatListening
  /\ cup.pieces + Cardinality(said) + Cardinality(argued) <= MaxPieces
  /\ \A i \in DOMAIN fragments : fragments[i].args \/ fragments[i].call \notin cup.named
  /\ ChatGoes(IF finish = "none" THEN done ELSE [done EXCEPT !.stop = FinishReason(finish)])
  /\ cup' = [cup EXCEPT !.said = [p \in ChatParts |-> IF p \in said THEN @[p] + 1 ELSE @[p]],
                        !.args = [c \in Calls |-> IF c \in argued THEN @[c] + 1 ELSE @[c]],
                        !.pieces = @ + Cardinality(said) + Cardinality(argued),
                        !.named = @ \cup {fragments[i].call : i \in DOMAIN fragments},
                        !.finish = IF finish = "none" THEN @ ELSE finish]

ChatError ==
  /\ ChatListening
  /\ cup' = [cup EXCEPT !.over = TRUE]
  /\ ChatGoes(EmitError(StartMessage(cs)))

\* finish: what is told of the stop.
ChatStopReason(s) ==
  LET called == \E c \in Calls : s.block[c] # 0
  IN IF s.stop \in {"none", "end_turn", "tool_use"} THEN (IF called THEN "tool_use" ELSE "end_turn")
     ELSE s.stop

ChatEnds(how) ==
  /\ ChatListening
  /\ cup' = [cup EXCEPT !.over = TRUE]
  /\ ChatGoes(IF how = "error" \/ (how = "eof" /\ cs.stop = "none") THEN EmitError(cs)
              ELSE Conclude(cs, ChatStopReason(cs)))

OneEach(fragments) == \A i, j \in DOMAIN fragments : fragments[i].call = fragments[j].call => i = j

ChatNext ==
  \/ Take /\ UNCHANGED <<cs, gate, cup>>
  \/ /\ ChatListening
     /\ \E said \in SUBSET ChatParts, fragments \in BoundedSeq(Fragments, MaxChunk) :
          /\ OneEach(fragments) /\ Cardinality(said) + Len(fragments) <= MaxChunk
          /\ \E finish \in IF cup.finish = "none" THEN FinishReasons ELSE {"none"} :
               Chunk(said, fragments, finish)
  \/ ChatError
  \/ \E how \in {"[DONE]", "eof", "error"} : ChatEnds(how)

-----------------------------------------------------------------------------
ChatConcluded == cup.over /\ wire = <<>> /\ message.phase = "done"

\* Reasoning and content reach the client once and in order, however chunks mix
\* them with calls.
ChatExact ==
  ChatConcluded =>
    \A p \in {"thinking", "text"} :
      Received(message, 0, {p}) = [n \in 1..cup.said[p] |-> ChatText(p, n)]

\* Every call the client's tools were named in has one block, with arguments
\* of its own in order; they are whole, which the fold for a client that does
\* not stream always has (aggregateChatStream), unless another block was opened
\* before they were (handle 1164-1176).
ChatCallsWhole ==
  ChatConcluded =>
    \A c \in Calls :
      LET b == cs.block[c]
          got == Received(message, c, {"args"})
          full == [n \in 1..cup.args[c] |-> Argument(c, n)]
      IN /\ (b # 0) = (c \in cup.named \ gate)
         /\ b = 0 => got = <<>>
         /\ b # 0 => /\ message.blocks[b].kind = "tool" /\ message.blocks[b].text = got
                     /\ IsPrefix(got, full) /\ (got = full \/ b < Len(message.blocks))

\* The client is told to run tools exactly if it has some and the turn was
\* neither cut short nor declined, whatever finish reason the backend gives;
\* the client that does not stream is told the same (ChatResponseToAnthropic).
ChatStop ==
  ChatConcluded =>
    message.stop = CASE cup.finish = "length" -> "max_tokens"
                     [] cup.finish = "content_filter" -> "refusal"
                     [] OTHER -> IF cup.named \ gate # {} THEN "tool_use" ELSE "end_turn"
=============================================================================
