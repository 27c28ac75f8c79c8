---------------------------- MODULE FrameStream ----------------------------
(***************************************************************************)
(* What the receiving side of an Event Store connection promises its       *)
(* caller, with no buffer, no pointers and no length prefixes: the         *)
(* payloads the peer sent come out whole, in the order sent, each exactly  *)
(* once, until the stream is closed.  EsMsgParser implements it.           *)
(***************************************************************************)
EXTENDS Naturals, Sequences

VARIABLES
  sent,      \* the payloads the peer has sent, in order
  delivered, \* the payloads handed to the caller, in order
  open       \* FALSE once the receiving side has been destroyed

streamVars == <<sent, delivered, open>>

StreamInit ==
  /\ sent = <<>>
  /\ delivered = <<>>
  /\ open = TRUE

\* The peer sends one more payload, whatever the receiver is doing.
Send ==
  /\ Len(sent') = Len(sent) + 1
  /\ \A k \in 1..Len(sent) : sent'[k] = sent[k]
  /\ UNCHANGED <<delivered, open>>

\* The caller is handed the oldest payload it has not had yet.
Deliver ==
  /\ open
  /\ Len(delivered) < Len(sent)
  /\ delivered' = Append(delivered, sent[Len(delivered) + 1])
  /\ UNCHANGED <<sent, open>>

\* The receiving side is destroyed: nothing is delivered any more.
Close ==
  /\ open
  /\ open' = FALSE
  /\ UNCHANGED <<sent, delivered>>

StreamNext == Send \/ Deliver \/ Close

StreamSpec == StreamInit /\ [][StreamNext]_streamVars
=============================================================================
