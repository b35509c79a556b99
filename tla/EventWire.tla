----------------------------- MODULE EventWire -----------------------------
(***************************************************************************)
(* The Anthropic event stream between a translator and its client.  A      *)
(* translator's handler appends its events to wire and goes on when the    *)
(* client has taken them all, for its writes are synchronous (io.Pipe, or  *)
(* the response writer); the client folds them into a message by index.    *)
(*                                                                         *)
(* The block emitter is the one that internal/zen/responsesstream.go and   *)
(* chatwire.go both have: a record of the emitter's fields, with the       *)
(* events of the handler in out; blocks are numbered from 1, and current   *)
(* is 0 when none is open.                                                 *)
(***************************************************************************)
EXTENDS Naturals, Sequences

VARIABLES
  wire,    \* events written and not yet taken
  message  \* the client's message

MessageStart == [type |-> "message_start"]
BlockStart(i, kind) == [type |-> "content_block_start", index |-> i, kind |-> kind]
BlockDelta(i, text) == [type |-> "content_block_delta", index |-> i, text |-> text]
BlockStop(i) == [type |-> "content_block_stop", index |-> i]
MessageDelta(stop) == [type |-> "message_delta", stop |-> stop]
MessageStop == [type |-> "message_stop"]
ErrorEvent == [type |-> "error"]

NoMessage == [phase |-> "none", blocks |-> <<>>, stop |-> "none"]
NewBlock(kind) == [kind |-> kind, text |-> <<>>, open |-> TRUE]

\* How the client reads one event.
Fold(m, e) ==
  CASE e.type = "message_start" -> [m EXCEPT !.phase = "open"]
    [] e.type = "content_block_start" ->
         IF e.index = Len(m.blocks) + 1 THEN [m EXCEPT !.blocks = Append(@, NewBlock(e.kind))]
         ELSE [m EXCEPT !.phase = "garbled"]
    [] e.type = "content_block_delta" ->
         IF e.index \in DOMAIN m.blocks THEN [m EXCEPT !.blocks[e.index].text = @ \o e.text]
         ELSE [m EXCEPT !.phase = "garbled"]
    [] e.type = "content_block_stop" ->
         IF e.index \in DOMAIN m.blocks THEN [m EXCEPT !.blocks[e.index].open = FALSE]
         ELSE [m EXCEPT !.phase = "garbled"]
    [] e.type = "message_delta" -> [m EXCEPT !.phase = "told", !.stop = e.stop]
    [] e.type = "message_stop" -> [m EXCEPT !.phase = "done"]
    [] e.type = "error" -> [m EXCEPT !.phase = "failed"]

WireInit == wire = <<>> /\ message = NoMessage

Take == wire # <<>> /\ wire' = Tail(wire) /\ message' = Fold(message, Head(wire))

\* A handler's events go out.
Send(out) == wire = <<>> /\ wire' = out /\ UNCHANGED message

-----------------------------------------------------------------------------
Emit(s, e) == [s EXCEPT !.out = Append(@, e)]
EmitError(s) == [Emit(s, ErrorEvent) EXCEPT !.failed = TRUE]
StartMessage(s) == IF s.started THEN s ELSE [Emit(s, MessageStart) EXCEPT !.started = TRUE]

CloseCurrent(s) ==
  IF s.current = 0 THEN s
  ELSE [Emit(s, BlockStop(s.current)) EXCEPT !.current = 0, !.kind = "none"]

\* (wrong variant: the block before stays open)
OpenOverOpen(s, kind) ==
  [Emit(s, BlockStart(s.next, kind)) EXCEPT !.current = s.next, !.kind = kind, !.next = @ + 1]

OpenNext(s, kind) ==
  [Emit(CloseCurrent(s), BlockStart(s.next, kind)) EXCEPT
     !.current = s.next, !.kind = kind, !.next = @ + 1]

\* delta: text for the open block.
Write(s, text) == Emit(s, BlockDelta(s.current, text))

Conclude(s, stop) ==
  LET c == CloseCurrent(StartMessage(s))
  IN Emit(Emit(c, MessageDelta(stop)), MessageStop)

-----------------------------------------------------------------------------
\* The pieces of some parts of one item in a text, in order.
Only(text, item, parts) ==
  LET upto[n \in 0..Len(text)] ==
        IF n = 0 THEN <<>>
        ELSE IF text[n].item = item /\ text[n].part \in parts THEN Append(upto[n - 1], text[n])
        ELSE upto[n - 1]
  IN upto[Len(text)]

\* Those the client has, over all blocks.
Received(m, item, parts) ==
  LET upto[n \in 0..Len(m.blocks)] ==
        IF n = 0 THEN <<>> ELSE upto[n - 1] \o Only(m.blocks[n].text, item, parts)
  IN upto[Len(m.blocks)]

ToolShown(m) == \E i \in DOMAIN m.blocks : m.blocks[i].kind = "tool"
=============================================================================
