----------------------------- MODULE AppCatalog -----------------------------
(***************************************************************************)
(* What installing promises of one application id, with no directory and   *)
(* no rename in sight: at any time either one version is installed or      *)
(* none, and a job either takes effect at once and once, or is refused and *)
(* leaves what is installed alone.                                         *)
(***************************************************************************)
CONSTANTS Jobs, Versions, None

VARIABLES
  installed,   \* the installed version, or None
  wants,       \* what each job was asked for: a version, or None to uninstall
  outcome      \* what became of each job

vars == <<installed, wants, outcome>>

TypeOK ==
  /\ installed \in Versions \cup {None}
  /\ wants \in [Jobs -> Versions \cup {None}]
  /\ outcome \in [Jobs -> {"idle", "open", "done", "refused"}]

Init ==
  /\ installed \in Versions \cup {None}
  /\ wants = [j \in Jobs |-> None]
  /\ outcome = [j \in Jobs |-> "idle"]

Ask(j) ==
  /\ outcome[j] = "idle"
  /\ \E w \in Versions \cup {None} : wants' = [wants EXCEPT ![j] = w]
  /\ outcome' = [outcome EXCEPT ![j] = "open"]
  /\ UNCHANGED installed

Take(j) ==
  /\ outcome[j] = "open"
  /\ installed' = wants[j]
  /\ outcome' = [outcome EXCEPT ![j] = "done"]
  /\ UNCHANGED wants

Refuse(j) ==
  /\ outcome[j] \in {"idle", "open"}
  /\ outcome' = [outcome EXCEPT ![j] = "refused"]
  /\ UNCHANGED <<installed, wants>>

Next == \E j \in Jobs : Ask(j) \/ Take(j) \/ Refuse(j)

Spec == Init /\ [][Next]_vars

=============================================================================
