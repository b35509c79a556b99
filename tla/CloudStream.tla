---------------------------- MODULE CloudStream ----------------------------
(***************************************************************************)
(* A Cloud Code answer translated into Anthropic events: StreamConverter   *)
(* in internal/format/stream.go, as streamMessage in                       *)
(* internal/api/server.go drives it.  A data frame carries parts: thoughts *)
(* (with a signature, without, or without text), text, calls, inline       *)
(* images, and parts that show nothing; the last frames carry a finish     *)
(* reason.                                                                 *)
(***************************************************************************)
EXTENDS EventWire, FiniteSets, SequencesExt

CONSTANTS
  MaxParts,  \* parts of an answer
  MaxFrame   \* parts of a frame

\* "signed" is a thought with a signature, "blank" a thought with no text, which
\* has a delta all the same, "empty" a text part without text, which has none.
CloudKinds == {"thought", "signed", "blank", "text", "empty", "call", "image"}

ASSUME CloudStreamAssumption == MaxParts \in Nat /\ MaxFrame \in Nat

VARIABLES
  conv,   \* the StreamConverter
  parts,  \* history: the parts received
  cutoff, \* history: the first finish reason received
  ended   \* the call to upstream has returned

cloudVars == <<wire, message, conv, parts, cutoff, ended>>

CloudInit ==
  /\ WireInit
  /\ conv = [started |-> FALSE, index |-> 1, current |-> "none", signature |-> 0,
             stop |-> "none", out |-> <<>>]
  /\ parts = <<>> /\ cutoff = "none" /\ ended = FALSE

-----------------------------------------------------------------------------
Adds(s, events) == [s EXCEPT !.out = @ \o events]
Signature(n) == [item |-> 0, part |-> "signature", n |-> n]
Shows(kind, n) ==
  [item |-> IF kind = "call" THEN n ELSE 0,
   part |-> CASE kind = "call" -> "args" [] kind \in {"text", "blank"} -> kind [] OTHER -> "thinking",
   n |-> n]

\* closeCurrent: a thinking block ends with the last signature it was given.
CloseCloud(s) ==
  IF s.current = "none" THEN s
  ELSE LET signed == s.current = "thinking" /\ s.signature # 0
       IN [Adds(s, (IF signed THEN <<BlockDelta(s.index, <<Signature(s.signature)>>)>> ELSE <<>>)
                   \o <<BlockStop(s.index)>>)
             EXCEPT !.index = @ + 1, !.current = "none",
                    !.signature = IF signed THEN 0 ELSE @]

OpenCloud(s, kind) ==
  LET c == CloseCloud(s)
  IN [Adds(c, <<BlockStart(c.index, kind)>>) EXCEPT !.current = kind]

Thought(s, n, kind) ==
  LET o == IF s.current = "thinking" THEN s ELSE [OpenCloud(s, "thinking") EXCEPT !.signature = 0]
  IN [Adds(o, <<BlockDelta(o.index, <<Shows(kind, n)>>)>>)
        EXCEPT !.signature = IF kind = "signed" THEN n ELSE @]

TextPart(s, n) ==
  LET o == IF s.current = "text" THEN s ELSE OpenCloud(s, "text")
  IN Adds(o, <<BlockDelta(o.index, <<Shows("text", n)>>)>>)

CallPart(s, n) ==
  LET o == [OpenCloud(s, "tool") EXCEPT !.stop = "tool_use"]
  IN Adds(o, <<BlockDelta(o.index, <<Shows("call", n)>>)>>)

ImagePart(s) ==
  LET o == OpenCloud(s, "image")
  IN [Adds(o, <<BlockStop(o.index)>>) EXCEPT !.index = @ + 1, !.current = "none"]

\* One part of a frame, the n-th of the answer.
ConsumePart(s, part) ==
  CASE part.kind \in {"thought", "signed", "blank"} -> Thought(s, part.n, part.kind)
    [] part.kind = "text" -> TextPart(s, part.n)
    [] part.kind = "call" -> CallPart(s, part.n)
    [] part.kind = "image" -> ImagePart(s)
    [] OTHER -> s

CloudGoes(s) == conv' = [s EXCEPT !.out = <<>>] /\ Send(s.out)

\* Consume: a frame with its parts and, maybe, a finish reason.
Frame(kinds, finish) ==
  LET numbered == [i \in DOMAIN kinds |-> [kind |-> kinds[i], n |-> Len(parts) + i]]
      s == IF conv.started \/ kinds = <<>> THEN conv
           ELSE [Adds(conv, <<MessageStart>>) EXCEPT !.started = TRUE]
      t == FoldLeft(ConsumePart, s, numbered)
      Told == [STOP |-> "end_turn", MAX_TOKENS |-> "max_tokens", SAFETY |-> "none", none |-> "none"]
  IN
  /\ wire = <<>> /\ ~ended /\ Len(parts) + Len(kinds) <= MaxParts
  /\ CloudGoes(IF t.stop = "none" THEN [t EXCEPT !.stop = Told[finish]] ELSE t)
  /\ parts' = parts \o numbered
  /\ cutoff' = IF cutoff = "none" THEN finish ELSE cutoff
  /\ UNCHANGED ended

\* streamMessage once send has returned: Finish, or an error, which is an
\* event only if something was sent before it.  An answer without parts leaves
\* an empty response.
CloudEnds(failed) ==
  LET c == CloseCloud(conv)
      stop == IF conv.stop = "none" THEN "end_turn" ELSE conv.stop
  IN
  /\ wire = <<>> /\ ~ended /\ ended' = TRUE
  /\ CASE ~conv.started -> CloudGoes(conv)
       [] conv.started /\ failed -> CloudGoes(Adds(conv, <<ErrorEvent>>))
       [] OTHER -> CloudGoes(Adds(c, <<MessageDelta(stop), MessageStop>>))
  /\ UNCHANGED <<parts, cutoff>>

CloudNext ==
  \/ Take /\ UNCHANGED <<conv, parts, cutoff, ended>>
  \/ /\ wire = <<>> /\ ~ended
     /\ \E kinds \in BoundedSeq(CloudKinds, MaxFrame),
           finish \in IF cutoff = "none" THEN {"none", "STOP", "MAX_TOKENS", "SAFETY"} ELSE {"none"} :
          (kinds # <<>> \/ finish # "none") /\ Frame(kinds, finish)
  \/ \E failed \in BOOLEAN : CloudEnds(failed)

-----------------------------------------------------------------------------
CloudConcluded == ended /\ wire = <<>> /\ message.phase = "done"

BlockOf ==
  [thought |-> "thinking", signed |-> "thinking", blank |-> "thinking", text |-> "text",
   call |-> "tool", image |-> "image"]

\* The parts that show something, and where a run of parts of one block begins.
NotEmpty(part) == part.kind # "empty"
Visible(list) ==
  LET upto[n \in 0..Len(list)] ==
        IF n = 0 THEN <<>>
        ELSE IF NotEmpty(list[n]) THEN Append(upto[n - 1], list[n]) ELSE upto[n - 1]
  IN upto[Len(list)]
Shown == Visible(parts)
RunBegins(i) ==
  \/ i = 1 \/ Shown[i].kind \in {"call", "image"}
  \/ BlockOf[Shown[i].kind] # BlockOf[Shown[i - 1].kind]

\* The answer is shown as its runs of parts, one block each and in order, and
\* every thinking block carries the last signature of its own run: one that is
\* carried over, lost or given to another block is refused by the model it is
\* sent back to (currentThinkingSignature, stream.go 85-107 and 205-222).
CloudExact ==
  CloudConcluded =>
    LET runs == {i \in DOMAIN Shown : RunBegins(i)}
        Run(i) == {j \in DOMAIN Shown : j >= i /\ \A k \in (i + 1)..j : ~RunBegins(k)}
        Block(i) == message.blocks[Cardinality({j \in runs : j <= i})]
        Signed(i) == {Shown[j].n : j \in {k \in Run(i) : Shown[k].kind = "signed"}}
        Text(i) == [k \in 1..Cardinality(Run(i)) |-> Shows(Shown[i + k - 1].kind, Shown[i + k - 1].n)]
    IN /\ Len(message.blocks) = Cardinality(runs)
       /\ \A i \in runs :
            /\ Block(i).kind = BlockOf[Shown[i].kind]
            /\ Block(i).text = CASE Shown[i].kind = "image" -> <<>>
                                 [] Signed(i) # {} -> Append(Text(i), Signature(CHOOSE n \in Signed(i) : \A m \in Signed(i) : m <= n))
                                 [] OTHER -> Text(i)

\* The client is told to run tools exactly if it has some, whatever order the
\* finish reason and the calls come in; else of a turn that was cut short.
CloudStop ==
  CloudConcluded =>
    message.stop = CASE ToolShown(message) -> "tool_use"
                     [] ~ToolShown(message) /\ cutoff = "MAX_TOKENS" -> "max_tokens"
                     [] OTHER -> "end_turn"
=============================================================================
