-------------------------- MODULE HeartbeatService --------------------------
(***************************************************************************)
(* What the receive loop of src/foo_main.c promises its peer, with no      *)
(* bytes, buffers or headers: every frame that arrives is dealt with once  *)
(* and in order; one that asks for a heartbeat is answered, unless sending *)
(* the answer fails; when the peer has gone and nothing is left, the       *)
(* service stops.                                                          *)
(***************************************************************************)
EXTENDS Naturals, Sequences

VARIABLES
  asks,     \* for each frame the peer has sent: does it ask for a heartbeat
  arriving, \* how many of them arrive, or may still arrive, whole
  settled,  \* how many the service has dealt with
  answered, \* those whose answer has reached the peer whole
  line,     \* "torn" once the peer has had a part of an answer
  peer,     \* "connected" or "gone"
  service   \* "running", "stopped", or "killed" by a signal

serviceVars == <<asks, arriving, settled, answered, line, peer, service>>

ServiceInit ==
  /\ asks = <<>> /\ arriving = 0 /\ settled = 0 /\ answered = {}
  /\ line = "whole" /\ peer = "connected" /\ service = "running"

Ask(heartbeat) ==
  /\ peer = "connected"
  /\ asks' = Append(asks, heartbeat)
  /\ arriving' = arriving + 1
  /\ UNCHANGED <<settled, answered, line, peer, service>>

\* The peer goes; frames that have not been dealt with may never arrive.
HangUp ==
  /\ peer = "connected"
  /\ peer' = "gone"
  /\ arriving' \in settled..arriving
  /\ UNCHANGED <<asks, settled, answered, line, service>>

\* On a torn line no later answer can be told from the rest of the torn one.
Answer(k) ==
  /\ line = "whole"
  /\ answered' = answered \cup {k}
  /\ UNCHANGED <<line, service>>

\* Sending fails, or is in vain: the peer has nothing of the answer or a part of
\* it, and the service does not try again.  Sending to a peer that has gone may
\* end it.
FailToAnswer ==
  /\ line' \in {line, "torn"}
  /\ \/ UNCHANGED service
     \/ peer = "gone" /\ service' = "killed"
  /\ UNCHANGED answered

Settle ==
  /\ service = "running"
  /\ settled < arriving
  /\ settled' = settled + 1
  /\ IF asks[settled + 1] THEN Answer(settled + 1) \/ FailToAnswer
     ELSE UNCHANGED <<answered, line, service>>
  /\ UNCHANGED <<asks, arriving, peer>>

Stop ==
  /\ service = "running"
  /\ peer = "gone"
  /\ settled = arriving
  /\ service' = "stopped"
  /\ UNCHANGED <<asks, arriving, settled, answered, line, peer>>

ServiceNext == (\E heartbeat \in BOOLEAN : Ask(heartbeat)) \/ HangUp \/ Settle \/ Stop

\* What the service may do, and that it goes on doing it.
ServiceSafety == ServiceInit /\ [][ServiceNext]_serviceVars
ServiceSpec == ServiceSafety /\ WF_serviceVars(Settle \/ Stop)
=============================================================================
