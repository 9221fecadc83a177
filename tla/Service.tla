------------------------------ MODULE Service ------------------------------
(***************************************************************************)
(* The proxy as a process: main reads its configuration and starts to      *)
(* serve (Startup), and then has exchanges with the backend (Gateway),     *)
(* which wait for it as long as the timeout that was configured, and for a *)
(* client without a limit.  The operations on the cluster are the subject  *)
(* of module Proxy.                                                        *)
(***************************************************************************)
EXTENDS Startup, Gateway

vars == <<startupVars, gatewayVars>>

Init == StartupInit /\ GatewayInit

Start == Main /\ UNCHANGED gatewayVars

Serve == phase = "serving" /\ Exchange /\ UNCHANGED startupVars

(* http.Client.Timeout: one that is zero or negative never runs out. *)
TimesOut ==
  /\ phase = "serving" /\ timeout["backend"] > 0
  /\ ForwardFails \/ BodyBreaks
  /\ UNCHANGED startupVars

(* The end of a body of declared length is noticed without the backend. *)
ReadsTheEnd == phase = "serving" /\ ~response.chunked /\ BodyEnds /\ UNCHANGED startupVars

Next == Start \/ Serve

(* Nothing is assumed of the backend, which may stop to answer at any      *)
(* point, nor of the client, which may stop to read (WritePiece and        *)
(* WriteError then never happen) and need not hang up.                     *)
Spec == Init /\ [][Next]_vars /\ WF_vars(Start) /\ WF_vars(TimesOut) /\ WF_vars(ReadsTheEnd)

-----------------------------------------------------------------------------
(* Waiting for a client to take what is written to it, for ever. *)
ClientStalls == [](request.caller = "client" /\ pc \in {"write", "fail"})

(* Whatever timeout is configured, and though the backend may fall silent  *)
(* before or amid its answer, every exchange that Forward begins comes to  *)
(* an end, unless it is on behalf of a client that neither reads nor hangs *)
(* up: the server has no timeout for writing.  A call of the proxy's own   *)
(* always ends, so no operation keeps updateLock for ever because of one.  *)
ExchangesEnd ==
  phase = "serving" /\ pc \in {"forward", "copy"} ~>
    pc \in {"answered", "returned"} \/ ClientStalls
=============================================================================
