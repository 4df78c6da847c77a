--------------------------- MODULE MessageChannel ---------------------------
(***************************************************************************)
(* What a WebSocket promises its user, whatever frames and chunks the      *)
(* messages travel in: the messages of the other end, each once, whole and *)
(* in order.                                                               *)
(***************************************************************************)
EXTENDS Naturals, Sequences

CONSTANT Messages

VARIABLES sent, got, open

channel == <<sent, got, open>>

Init == sent = << >> /\ got = << >> /\ open = TRUE

Put ==
  /\ Len(sent') = Len(sent) + 1
  /\ sent = SubSeq(sent', 1, Len(sent))
  /\ sent'[Len(sent')] \in Messages
  /\ UNCHANGED <<got, open>>

(* What was under way when the connection was cut may still come in.       *)
Take ==
  /\ Len(got) < Len(sent)
  /\ got' = Append(got, sent[Len(got) + 1])
  /\ UNCHANGED <<sent, open>>

Cut == open /\ open' = FALSE /\ UNCHANGED <<sent, got>>

Next == Put \/ Take \/ Cut

Spec == Init /\ [][Next]_channel

=============================================================================
