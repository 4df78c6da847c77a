--------------------------- MODULE SigningConsent ---------------------------
(***************************************************************************)
(* What signing promises the owner of the watch, with no daemon, socket or *)
(* screen in sight: a call is signed at most once, only after its own      *)
(* prompt has been on a screen and a user has approved that prompt, and a  *)
(* call that was refused stays refused.                                    *)
(***************************************************************************)
CONSTANT Requests

VARIABLES
  asked,     \* calls whose prompt has been on a screen
  consent,   \* calls a user has approved
  verdict    \* what became of each call

vars == <<asked, consent, verdict>>

TypeOK ==
  /\ asked \subseteq Requests
  /\ consent \subseteq Requests
  /\ verdict \in [Requests -> {"open", "signed", "refused"}]

Init ==
  /\ asked = {}
  /\ consent = {}
  /\ verdict = [r \in Requests |-> "open"]

Show(r) ==
  /\ asked' = asked \cup {r}
  /\ UNCHANGED <<consent, verdict>>

(* A user may approve a prompt whose call has meanwhile been refused.      *)
Approve(r) ==
  /\ r \in asked
  /\ consent' = consent \cup {r}
  /\ UNCHANGED <<asked, verdict>>

Sign(r) ==
  /\ verdict[r] = "open"
  /\ r \in consent
  /\ verdict' = [verdict EXCEPT ![r] = "signed"]
  /\ UNCHANGED <<asked, consent>>

Refuse(r) ==
  /\ verdict[r] = "open"
  /\ verdict' = [verdict EXCEPT ![r] = "refused"]
  /\ UNCHANGED <<asked, consent>>

Next == \E r \in Requests : Show(r) \/ Approve(r) \/ Sign(r) \/ Refuse(r)

Spec == Init /\ [][Next]_vars

=============================================================================
