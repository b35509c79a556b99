---------------------------- MODULE ZenResponses ----------------------------
(***************************************************************************)
(* A Zen model's answer on the Responses wire, translated into Anthropic   *)
(* events (streamResponsesToAnthropic in internal/zen/responsesstream.go), *)
(* and folded into one message for a client that does not stream           *)
(* (aggregateResponsesStream, ResponsesResponseToAnthropic).               *)
(*                                                                         *)
(* Upstream has an answer of a few output items in mind; it may send an    *)
(* item by deltas, whole when it is done, whole with response.completed,   *)
(* or in several of these ways, and interleave the items it has begun.     *)
(* Text is a sequence of pieces; the text of one item never is a prefix    *)
(* of another's.                                                           *)
(***************************************************************************)
EXTENDS EventWire, FiniteSets, SequencesExt

CONSTANTS
  Answers  \* upstream's answers: a sequence of items, each its type, whether
           \* its tool is one the client never declared, and its pieces by part

ItemParts == {"thinking", "text", "refusal", "args"}
Reasons == {"none", "content_filter", "max_output_tokens"}

\* An item has pieces of the parts its type has.
OwnParts ==
  [reasoning |-> {"thinking"}, message |-> {"text", "refusal"}, function_call |-> {"args"}]

ASSUME ZenResponsesAssumption ==
  \A a \in Answers :
    /\ a \in Seq([type : DOMAIN OwnParts, injected : BOOLEAN, size : [ItemParts -> Nat]])
    /\ \A i \in DOMAIN a, p \in ItemParts : a[i].size[p] > 0 => p \in OwnParts[a[i].type]

VARIABLES
  zr,     \* the responsesStream
  answer, \* what upstream means to say
  tagged, \* its reasoning deltas carry a summary_index
  zup     \* what upstream has sent: pieces by deltas, items with an empty
          \* refusal delta, announced and done, the end of the response

zrVars == <<wire, message, zr, answer, tagged, zup>>

NewResponsesStream(a) ==
  [block |-> [i \in DOMAIN a |-> 0], sent |-> [i \in DOMAIN a |-> [p \in ItemParts |-> <<>>]],
   dropped |-> {}, toolItems |-> 0, settled |-> FALSE,
   started |-> FALSE, failed |-> FALSE, current |-> 0, kind |-> "none",
   next |-> 1, stop |-> "none", out |-> <<>>]

NothingSent(a) ==
  [deltas |-> [i \in DOMAIN a |-> [p \in ItemParts |-> 0]], refusing |-> {}, added |-> {},
   done |-> {}, restated |-> FALSE, reason |-> "none", over |-> FALSE]

ResponsesInit ==
  /\ WireInit
  /\ answer \in Answers /\ tagged \in BOOLEAN
  /\ zr = NewResponsesStream(answer) /\ zup = NothingSent(answer)

-----------------------------------------------------------------------------
(* What upstream says *)

Piece(i, p, n) == [item |-> i, part |-> p, n |-> n]
Gap(i) == [item |-> i, part |-> "gap", n |-> 0]

Pieces(i, p, k) == [n \in 1..k |-> Piece(i, p, n)]
Whole(i, p) == Pieces(i, p, answer[i].size[p])

\* Summary parts joined with a blank line, one piece each.
Joined(i, k) ==
  [n \in 1..(IF k = 0 THEN 0 ELSE 2 * k - 1) |->
     IF n % 2 = 1 THEN Piece(i, "thinking", (n + 1) \div 2) ELSE Gap(i)]

Items == DOMAIN answer
Begun(i) == i \in zup.added \cup zup.done \cup zup.refusing \/ \E p \in ItemParts : zup.deltas[i][p] > 0
MayBegin(i) == i \in Items /\ \A j \in 1..(i - 1) : Begun(j)
Listening == wire = <<>> /\ ~zup.over /\ ~zr.settled

-----------------------------------------------------------------------------
(* The emitter's helpers.  s is the stream's record. *)

\* writeText and writeThinking.
WriteKind(s, i, kind, text) ==
  LET o == IF s.kind = kind THEN s
           ELSE LET b == OpenNext(s, kind) IN [b EXCEPT !.block[i] = b.current]
  IN Write(o, text)

Record(s, i, p, text) == [s EXCEPT !.sent[i][p] = @ \o text]

\* (wrong variant: all of it again when anything is missing)
MissingAll(s, i, p, full) ==
  IF IsStrictPrefix(s.sent[i][p], full) THEN full ELSE <<>>

\* missing: what the client has not received of the full text.
Missing(s, i, p, full) ==
  IF IsStrictPrefix(s.sent[i][p], full)
  THEN SubSeq(full, Len(s.sent[i][p]) + 1, Len(full)) ELSE <<>>

OpenCall(s, i) ==
  IF i \in s.dropped THEN s
  ELSE IF answer[i].injected THEN [s EXCEPT !.dropped = @ \cup {i}]
  ELSE LET b == OpenNext(s, "tool")
       IN [b EXCEPT !.block[i] = b.current, !.toolItems = @ + 1]

CompleteCall(s, i) ==
  LET rest == Missing(s, i, "args", Whole(i, "args")) IN
  IF i \in s.dropped \/ rest = <<>> \/ s.block[i] # s.current \/ s.kind # "tool" THEN s
  ELSE Write(Record(s, i, "args", rest), rest)

CompletePart(s, i, p, kind, full) ==
  LET rest == Missing(s, i, p, full)
  IN IF rest = <<>> THEN s ELSE WriteKind(Record(s, i, p, rest), i, kind, rest)

CompleteMessage(s, i) ==
  LET refused == Missing(s, i, "refusal", Whole(i, "refusal")) # <<>>
      r == CompletePart(IF refused THEN [s EXCEPT !.stop = "refusal"] ELSE s,
                        i, "refusal", "text", Whole(i, "refusal"))
  IN CompletePart(r, i, "text", "text", Whole(i, "text"))

CompleteReasoning(s, i) ==
  LET joined == Joined(i, answer[i].size["thinking"])
  IN CompletePart(s, i, "thinking", "thinking",
                  IF Missing(s, i, "thinking", joined) # <<>> THEN joined ELSE Whole(i, "thinking"))

CompleteItem(s, i) ==
  CASE answer[i].type = "function_call" ->
         CompleteCall(IF s.block[i] = 0 THEN OpenCall(s, i) ELSE s, i)
    [] answer[i].type = "message" -> CompleteMessage(s, i)
    [] answer[i].type = "reasoning" -> CompleteReasoning(s, i)

Goes(s) == zr' = [s EXCEPT !.out = <<>>] /\ Send(s.out) /\ UNCHANGED <<answer, tagged>>

-----------------------------------------------------------------------------
(* handle, one action for each event type *)

\* response.output_item.added
ItemAdded(i) ==
  LET s == StartMessage(zr) IN
  /\ Listening /\ MayBegin(i) /\ ~Begun(i)
  /\ zup' = [zup EXCEPT !.added = @ \cup {i}]
  /\ Goes(IF answer[i].type = "function_call" THEN OpenCall(s, i) ELSE s)

\* A fragment of a call whose block is not open is dropped.
WriteArgs(s, i, text) ==
  IF i \in s.dropped \/ s.block[i] = 0 \/ s.block[i] # s.current THEN s
  ELSE Write(Record(s, i, "args", text), text)

\* A delta of reasoning that opens a new summary part, which a tagged one tells.
WriteSummary(s, i, n) ==
  LET text == IF tagged /\ n > 1 /\ s.sent[i]["thinking"] # <<>>
              THEN <<Gap(i), Piece(i, "thinking", n)>> ELSE <<Piece(i, "thinking", n)>>
  IN WriteKind(Record(s, i, "thinking", text), i, "thinking", text)

\* The delta events of the four parts.
ItemDelta(i, p) ==
  LET n == zup.deltas[i][p] + 1
      text == <<Piece(i, p, n)>>
      s == StartMessage(zr)
  IN
  /\ Listening /\ MayBegin(i) /\ i \notin zup.done /\ n <= answer[i].size[p]
  /\ zup' = [zup EXCEPT !.deltas[i][p] = n]
  /\ CASE p = "thinking" -> Goes(WriteSummary(s, i, n))
       [] p = "args" -> Goes(WriteArgs(s, i, text))
       [] p = "text" -> Goes(WriteKind(Record(s, i, p, text), i, "text", text))
       [] p = "refusal" -> Goes(WriteKind(Record([s EXCEPT !.stop = "refusal"], i, p, text), i, "text", text))

\* A refusal delta without text stops the turn as one with text does; empty deltas
\* of other parts start the message at most, as the announcement of one does.
EmptyRefusal(i) ==
  /\ Listening /\ MayBegin(i) /\ i \notin zup.done \cup zup.refusing /\ answer[i].type = "message"
  /\ zup' = [zup EXCEPT !.refusing = @ \cup {i}]
  /\ Goes([StartMessage(zr) EXCEPT !.stop = "refusal"])

\* response.output_item.done
ItemDone(i) ==
  /\ Listening /\ MayBegin(i) /\ i \notin zup.done
  /\ zup' = [zup EXCEPT !.done = @ \cup {i}]
  /\ Goes(CompleteItem(StartMessage(zr), i))

\* (wrong variant: the output cap outranks the refusal)
ReasonCapped(s, reason) ==
  CASE reason = "content_filter" -> [s EXCEPT !.stop = "refusal"]
    [] reason = "max_output_tokens" -> [s EXCEPT !.stop = "max_tokens"]
    [] OTHER -> s

\* incomplete_details
Reason(s, reason) ==
  CASE reason = "content_filter" -> [s EXCEPT !.stop = "refusal"]
    [] reason = "max_output_tokens" /\ s.stop # "refusal" -> [s EXCEPT !.stop = "max_tokens"]
    [] OTHER -> s

\* response.completed or response.incomplete, with all items or with none.
Completed(restated, reason) ==
  LET s == Reason([StartMessage(zr) EXCEPT !.settled = TRUE], reason)
  IN
  /\ Listening /\ \A i \in Items : restated \/ Begun(i)
  /\ zup' = [zup EXCEPT !.restated = restated, !.reason = reason]
  /\ Goes(IF restated THEN FoldLeft(CompleteItem, s, [i \in Items |-> i]) ELSE s)

\* response.failed, response.error or error.
ResponseFailed ==
  /\ Listening
  /\ zup' = [zup EXCEPT !.over = TRUE]
  /\ Goes(EmitError([StartMessage(zr) EXCEPT !.settled = TRUE]))

Stop(s) ==
  CASE s.stop # "none" -> s.stop
    [] s.stop = "none" /\ s.toolItems > 0 -> "tool_use"
    [] OTHER -> "end_turn"

\* The stream ends: with [DONE], without it, or with a read error.
StreamEnds(how) ==
  /\ wire = <<>> /\ ~zup.over
  /\ zup' = [zup EXCEPT !.over = TRUE]
  /\ Goes(IF how = "error" \/ (how = "eof" /\ ~zr.settled) THEN EmitError(zr)
          ELSE Conclude(zr, Stop(zr)))

ResponsesNext ==
  \/ Take /\ UNCHANGED <<zr, answer, tagged, zup>>
  \/ \E i \in Items : ItemAdded(i) \/ ItemDone(i) \/ EmptyRefusal(i) \/ \E p \in ItemParts : ItemDelta(i, p)
  \/ \E restated \in BOOLEAN, reason \in Reasons : Completed(restated, reason)
  \/ ResponseFailed
  \/ \E how \in {"[DONE]", "eof", "error"} : StreamEnds(how)

-----------------------------------------------------------------------------
(* The client that does not stream *)

\* The item the aggregator has: an envelope with the item's content or without
\* (output_item.added carries none), the one of the completed response where
\* there was no envelope, or no envelope at all.
Envelope(i) ==
  CASE i \in zup.done \/ (zup.restated /\ i \notin zup.added) -> "full"
    [] i \in zup.added \ zup.done -> "empty"
    [] OTHER -> "none"

\* What aggregateResponsesStream makes of the text and of the arguments of an
\* item: deltas win over the envelope for text, the envelope for arguments.
\* Without an envelope a refusal hides the text and a call is lost.
Aggregated(i, p) ==
  LET heard == Pieces(i, p, zup.deltas[i][p]) IN
  CASE p = "args" -> IF Envelope(i) = "full" THEN Whole(i, p)
                     ELSE IF Envelope(i) = "empty" THEN heard ELSE <<>>
    [] p = "text" /\ Envelope(i) = "none" /\ zup.deltas[i]["refusal"] > 0 -> <<>>
    [] OTHER -> IF heard = <<>> /\ Envelope(i) = "full" THEN Whole(i, p) ELSE heard

\* responsesStopReason
AggregatedStop ==
  LET calls == {i \in Items : /\ answer[i].type = "function_call" /\ ~answer[i].injected
                              /\ Envelope(i) # "none"}
      declined == (\E i \in Items : Aggregated(i, "refusal") # <<>>) \/ zup.reason = "content_filter"
  IN CASE declined -> "refusal"
       [] ~declined /\ zup.reason = "max_output_tokens" -> "max_tokens"
       [] OTHER -> IF calls # {} THEN "tool_use" ELSE "end_turn"

-----------------------------------------------------------------------------
Concluded == zup.over /\ wire = <<>> /\ message.phase = "done"

\* What upstream has said of a part: all of it once the item was restated.
Said(i, p) ==
  IF i \in zup.done \/ zup.restated THEN Whole(i, p) ELSE Pieces(i, p, zup.deltas[i][p])

\* Text, refusals and reasoning reach the client exactly once and in order,
\* whichever mix of deltas, done items and the completed response brings them
\* (missing and record, responsesstream.go:499-521), and summary parts whose
\* boundary upstream tells are never fused (summaryBoundary, 487-496).
ResponsesExact ==
  Concluded =>
    \A i \in Items :
      /\ \A p \in {"thinking", "text", "refusal"} : Received(message, i, {p}) = Said(i, p)
      /\ tagged => Received(message, i, {"thinking", "gap"}) = Joined(i, Len(Said(i, "thinking")))

\* A call upstream announced has one block, unless its tool was injected, when
\* it has none; and its arguments are whole, unless another block was opened
\* before they were (completeCall 526-547, the dropped fragments 705-710).
ResponsesCallsWhole ==
  Concluded =>
    \A i \in Items :
      LET b == zr.block[i]
          got == Received(message, i, {"args"})
      IN answer[i].type = "function_call" =>
           /\ (b # 0) = (/\ ~answer[i].injected
                         /\ i \in zup.added \cup zup.done \/ zup.restated)
           /\ b = 0 => got = <<>>
           /\ b # 0 => /\ message.blocks[b].kind = "tool" /\ message.blocks[b].text = got
                       /\ got = Said(i, "args") \/ b < Len(message.blocks)

\* A declined turn says refusal and a turn cut short max_tokens, whatever else
\* the turn holds, and a client is told to run tools exactly if it has some:
\* nothing of the order of the events changes this (handle 716-757, finish).
ResponsesStop ==
  Concluded =>
    LET declined == \/ \E i \in Items : Said(i, "refusal") # <<>>
                    \/ zup.refusing # {} \/ zup.reason = "content_filter"
    IN message.stop = CASE declined -> "refusal"
                        [] ~declined /\ zup.reason = "max_output_tokens" -> "max_tokens"
                        [] OTHER -> IF ToolShown(message) THEN "tool_use" ELSE "end_turn"

\* The two clients are told the same stop reason ("Both directions translate the
\* same upstream events, so they must agree on why the turn stopped",
\* responseswire_test.go 2132).  They are not: a refusal that only the completed
\* response has of an announced message is told by the stream (597-616), and not
\* by the aggregator, which keeps the envelope it has (164-167).
StopsAgree == Concluded => message.stop = AggregatedStop
=============================================================================
