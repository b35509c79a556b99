----------------------------- MODULE MCGateways -----------------------------
(***************************************************************************)
(* Small instances of the gateways: either one request to OpenRouter with  *)
(* every routing mode, or two requests for a pinned provider whose clients *)
(* have time, or one answer that a stream translator turns into Anthropic  *)
(* events: of a Zen Responses model, of a Zen Chat model, of Cloud Code.   *)
(***************************************************************************)
EXTENDS OpenRouter, ZenResponses, ZenChat, CloudStream, TLC

CONSTANTS pa, pb, r1, r2
VARIABLE part

Both == [ranks |-> <<pa, pb>>, healthy |-> {pa, pb}, known |-> TRUE]
OnlyB == [ranks |-> <<pb>>, healthy |-> {pb}, known |-> TRUE]
SickA == [ranks |-> <<pb, pa, pb>>, healthy |-> {pb}, known |-> TRUE]
AutoOrder == [mode |-> "auto", names |-> <<>>]
CustomBA == [mode |-> "custom", names |-> <<pb, pa>>]
CustomA == [mode |-> "custom", names |-> <<pa>>]
PinnedA == [mode |-> "pinned", names |-> <<pa>>]

AllCatalogs == {Both, OnlyB, SickA}
AllOrders == {AutoOrder, CustomBA, PinnedA}
OnlyCustomA == {CustomA}
AllNeeds == {{pa, pb}, {pb}}

Item(type, injected, thinking, text, refusal, args) ==
  [type |-> type, injected |-> injected,
   size |-> [thinking |-> thinking, text |-> text, refusal |-> refusal, args |-> args]]
Reasoning == Item("reasoning", FALSE, 2, 0, 0, 0)
Reply == Item("message", FALSE, 0, 2, 0, 0)
Decline == Item("message", FALSE, 0, 1, 1, 0)
Call == Item("function_call", FALSE, 0, 0, 0, 2)
GateCall == Item("function_call", TRUE, 0, 0, 0, 1)

SomeAnswers == {<<Reasoning, Reply>>, <<Decline, Call>>, <<Call, Call>>, <<GateCall, Reply>>}
SomeGates == {{}, {1}, {1, 2}}

OneRequest ==
  \/ Arrive(r1) \/ RequestStep(r1) \/ ClientGone(r1) \/ BudgetEnds(r1)
  \/ RefreshRanks \/ CooldownEnds \/ \E p \in Providers : HalfOpen(p)

TwoRequests ==
  \/ \E r \in Requests :
       \/ Arrive(r) /\ order'[r] = PinnedA /\ need'[r] = {pa, pb}
       \/ RequestStep(r)
  \/ CooldownEnds

responses == <<zr, answer, tagged, zup>>
chat == <<cs, gate, cup>>
cloud == <<conv, parts, cutoff, ended>>
NoResponses == zr = {} /\ answer = <<>> /\ tagged = FALSE /\ zup = {}
NoChat == cs = {} /\ gate = {} /\ cup = {}
NoCloud == conv = {} /\ parts = <<>> /\ cutoff = "none" /\ ended = FALSE

Init ==
  /\ ORInit
  /\ \/ part \in {"one request", "two requests"} /\ WireInit /\ NoResponses /\ NoChat /\ NoCloud
     \/ part = "responses" /\ ResponsesInit /\ NoChat /\ NoCloud
     \/ part = "chat" /\ ChatInit /\ NoResponses /\ NoCloud
     \/ part = "cloud" /\ CloudInit /\ NoResponses /\ NoChat

Streams == <<wire, message, responses, chat, cloud>>

Next ==
  /\ UNCHANGED part
  /\ \/ part = "one request" /\ OneRequest /\ UNCHANGED Streams
     \/ part = "two requests" /\ TwoRequests /\ UNCHANGED Streams
     \/ part = "responses" /\ ResponsesNext /\ UNCHANGED <<orVars, chat, cloud>>
     \/ part = "chat" /\ ChatNext /\ UNCHANGED <<orVars, responses, cloud>>
     \/ part = "cloud" /\ CloudNext /\ UNCHANGED <<orVars, responses, chat>>

vars == <<part, orVars, Streams>>

Asking == part \in {"one request", "two requests"} /\ UNCHANGED <<part, Streams>>

Spec ==
  /\ Init /\ [][Next]_vars
  /\ \A r \in Requests : WF_vars(Asking /\ RequestStep(r))
  /\ WF_vars(Asking /\ CooldownEnds)

-----------------------------------------------------------------------------
Promise == INSTANCE MessageStream
             WITH phase <- message.phase, blocks <- message.blocks, stop <- message.stop

\* Every translator implements the message stream a client is promised: blocks
\* one after the other, text to the open block and of its kind, a stop reason
\* once, nothing after an error (responsesstream.go 402-453, chatwire.go
\* 1048-1092, format/stream.go 69-222).
StreamsAsPromised == Promise!MSSpec

\* What upstream said reaches the client once, in order and in blocks of its
\* kind; thinking keeps its signature; a call has one block and arguments of its
\* own, whole unless another block was opened before they were; a gate call has
\* none.
AnswerExact ==
  /\ part = "responses" => ResponsesExact /\ ResponsesCallsWhole
  /\ part = "chat" => ChatExact /\ ChatCallsWhole
  /\ part = "cloud" => CloudExact

\* The stop reason tells how the turn ended, whatever came after it or before.
StopTells ==
  /\ part = "responses" => ResponsesStop
  /\ part = "chat" => ChatStop
  /\ part = "cloud" => CloudStop
=============================================================================
