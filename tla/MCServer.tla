------------------------------- MODULE MCServer -------------------------------
(***************************************************************************)
(* A small instance of what the server keeps beside its gateways: the      *)
(* logins (AgyToken, KimiLogin), the log streams of the panel (LogStream), *)
(* the catalogs of custom endpoints (EndpointCatalog) and the tokens of    *)
(* the Claude Code accounts (CCTokens).  They share nothing, so each       *)
(* behaviour runs one of them.  The Kimi handlers, the streams and the     *)
(* requests have the same names, so that one symmetry serves them all.     *)
(***************************************************************************)
EXTENDS AgyToken, KimiLogin, LogStream, EndpointCatalog, CCTokens, TLC

CONSTANTS c1, c2, p1, p2, e1, z1, z2, a2
VARIABLE part

\* Two processes with a caller each.
TwoProcs == (c1 :> p1) @@ (c2 :> p2)

\* One endpoint that starts opted out or with the source that lists the model.
At(source) == [n \in {e1} |-> source]
OneEndpoint == <<e1>>
EverySource == {At(Off), At(z1), At(z2)}

\* Two requests and settings that are saved, or a request and the worker, with one
\* account; or the worker with both.  A part ends when every token was left unsaved.
TokenParts == {"two requests", "request and worker", "worker"}

FewAtOnce ==
  /\ part = "two requests" => \A w \in Workers : actor[w].at = "idle"
  /\ part = "request and worker" => \E r \in Forwards : actor[r].at = "idle"
  /\ part = "worker" => \A r \in Forwards : actor[r].at = "idle"
  /\ part # "worker" => \A p \in TokenHolders : actor[p].acc # a2
  /\ \E a \in Accounts \ Left : part = "worker" \/ a # a2

Init ==
  /\ part \in {"agy", "kimi", "log", "discovery"} \cup TokenParts
  /\ AgyInit /\ KimiInit /\ LogInit /\ CatalogInit /\ TokensInit
  /\ config \in (IF part = "discovery" THEN {At(Off), At(z1)} ELSE {At(Off)})

Next ==
  /\ UNCHANGED part
  /\ \/ part = "agy" /\ AgyNext /\ UNCHANGED <<kimiVars, logVars, catalogVars, tokenVars>>
     \/ part = "kimi" /\ KimiNext /\ UNCHANGED <<agyVars, logVars, catalogVars, tokenVars>>
     \/ part = "log" /\ LogNext /\ UNCHANGED <<agyVars, kimiVars, catalogVars, tokenVars>>
     \/ part = "discovery" /\ CatalogNext /\ UNCHANGED <<agyVars, kimiVars, logVars, tokenVars>>
     \/ /\ part \in TokenParts /\ TokensNext /\ FewAtOnce'
        /\ SaveSettings => part = "two requests"
        /\ UNCHANGED <<agyVars, kimiVars, logVars, catalogVars>>

Spec == Init /\ [][Next]_<<part, agyVars, kimiVars, logVars, catalogVars, tokenVars>>

Symmetry == Permutations(Logins) \cup Permutations(Handlers) \cup Permutations(Sessions)
==============================================================================
