--------------------------- MODULE ReconnectPolicy ---------------------------
(***************************************************************************)
(* What the reconnect supervision of src/imap/watcher.ts promises to an    *)
(* operator (docs/proposal, "Reconnect supervision"): at any moment the    *)
(* watcher is off, starting, watching, waiting for the backoff delay or    *)
(* making one reconnect attempt; failed attempts of an outage are counted, *)
(* and the alarm (the one `error` log of the outage) is raised by the      *)
(* attempt that reaches the threshold and lowered only by a recovery or a  *)
(* stop.                                                                   *)
(***************************************************************************)
EXTENDS Integers

CONSTANT Threshold  \* reconnectFailureThreshold

VARIABLES mode, failures, alarmed

policyVars == <<mode, failures, alarmed>>

Reset == failures' = 0 /\ alarmed' = FALSE

Init == mode = "off" /\ failures = 0 /\ alarmed = FALSE

Begin == mode = "off" /\ mode' = "starting" /\ Reset

Refused == mode = "starting" /\ mode' = "off" /\ Reset

Established == mode \in {"starting", "retrying"} /\ mode' = "watching" /\ Reset

Lost == mode = "watching" /\ mode' = "backoff" /\ Reset

Retry == mode = "backoff" /\ mode' = "retrying" /\ UNCHANGED <<failures, alarmed>>

RetryFailed ==
  /\ mode = "retrying"
  /\ mode' = "backoff"
  /\ failures' = failures + 1
  /\ alarmed' = (alarmed \/ failures' >= Threshold)

TurnOff == mode' = "off" /\ Reset

Next ==
  Begin \/ Refused \/ Established \/ Lost \/ Retry \/ RetryFailed \/ TurnOff

Spec == Init /\ [][Next]_policyVars
=============================================================================
