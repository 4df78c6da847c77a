------------------------------ MODULE ShellLink ------------------------------
(***************************************************************************)
(* The shell's connection to the daemon: RpcClient (os/shell/src/rpc.ts)   *)
(* and what os/shell/src/shell.ts keeps up to date over it, the list of    *)
(* installed applications and the brightness.                              *)
(*                                                                         *)
(* solweard runs every request on a task of its own, so requests of one    *)
(* connection take effect and are answered in any order, and a request     *)
(* goes on after its connection is gone.  The list is a version number.    *)
(* Fresh stands for nextId++: ids that are in use nowhere.                 *)
(***************************************************************************)
EXTENDS Naturals, FiniteSets, SequencesExt

CONSTANTS
  Ids,          \* numbers: room for this many calls at a time
  Levels,       \* brightness settings
  Default,      \* the one the page starts with
  None,         \* no call
  MaxBackoff,   \* MAX_BACKOFF_MS, in units of the first wait
  MaxChanges,   \* bound on installs, updates and uninstalls
  MaxSlides,    \* bound on uses of the brightness slider
  MaxFaults     \* bound on lost connections, late answers and lost answers

ASSUME LinkAssumption ==
  /\ MaxBackoff \in Nat \ {0}
  /\ {MaxChanges, MaxSlides, MaxFaults} \subseteq Nat
  /\ Ids \subseteq Nat /\ IsFiniteSet(Ids)
  /\ Default \in Levels /\ Levels \subseteq Nat
  /\ None \notin {"info", "apps", "bright", "set"}

VARIABLES
  socket,     \* RpcClient.socket
  retries,    \* timers that will call connect()
  backoff,
  pending,    \* RpcClient.pending with its timers: the kind of call, or None
  wire,       \* requests and answers under way
  events,     \* pushed to the shell and not yet handled
  catalog,    \* the daemon's applications
  unpushed,   \* apps.changed is still to be pushed
  told,       \* what catalog was at the last apps.changed
  level,      \* the daemon's brightness
  apps,       \* Shell.apps
  brightness, \* Shell.brightness
  unsure,     \* ghost: the last apps.list overlapped another or came to nothing
  used        \* how much of each bound is used up

client == <<socket, retries, backoff>>
daemon == <<catalog, unpushed, told, level>>
shell  == <<apps, brightness>>
vars   == <<client, pending, wire, events, daemon, shell, unsure, used>>

Kinds    == {"info", "apps", "bright", "set"}
Requests == [id: Ids, kind: Kinds, val: Nat, at: {"sent", "set", "answered"},
             mine: BOOLEAN]
Events   == [type: {"apps.changed", "brightnessChanged"}, val: Nat]

TypeOK ==
  /\ socket \in {"none", "connecting", "open"}
  /\ retries \in Nat
  /\ backoff \in 1..MaxBackoff
  /\ pending \in [Ids -> Kinds \cup {None}]
  /\ wire \subseteq Requests
  /\ events \in Seq(Events)
  /\ catalog \in Nat /\ told \in Nat /\ apps \in Nat
  /\ unpushed \in BOOLEAN /\ unsure \in BOOLEAN
  /\ level \in Nat /\ brightness \in Nat
  /\ used \in [{"changes", "slides", "faults"} -> Nat]

(* Shell.start has asked where the daemon is and called connect().         *)
Init ==
  /\ socket = "connecting"
  /\ retries = 0
  /\ backoff = 1
  /\ pending = [i \in Ids |-> None]
  /\ wire = {}
  /\ events = << >>
  /\ catalog = 0 /\ told = 0 /\ apps = 0
  /\ unpushed = FALSE /\ unsure = FALSE
  /\ level \in Levels /\ brightness = Default
  /\ used = [b \in {"changes", "slides", "faults"} |-> 0]

Spend(bound, max) ==
  /\ used[bound] < max
  /\ used' = [used EXCEPT ![bound] = @ + 1]

-----------------------------------------------------------------------------
(* RpcClient.call                                                          *)

Ascents(n, S) ==
  {f \in [1..n -> S] : \A a, b \in 1..n : a < b => f[a] < f[b]}

(* Mutant: the id of a call that was given up is used again.               *)
FreshReused(n, p, w) == Ascents(n, {i \in Ids : p[i] = None})

(* What nextId++ may yield next, n times.                                  *)
Fresh(n, p, w) == Ascents(n, {i \in Ids : p[i] = None /\ i \notin {r.id : r \in w}})

(* The calls of a sequence, made when p is pending and w under way.        *)
Send(calls, p, w) ==
  LET ids == Fresh(Len(calls), p, w)
      id  == CHOOSE f \in ids : TRUE
  IN  /\ ids # {}
      /\ pending' = [i \in Ids |->
           IF \E n \in DOMAIN calls : id[n] = i
           THEN calls[CHOOSE n \in DOMAIN calls : id[n] = i].kind ELSE p[i]]
      /\ wire' = w \cup
           {[id |-> id[n], kind |-> calls[n].kind, val |-> calls[n].val, at |-> "sent",
             mine |-> TRUE] : n \in DOMAIN calls}
      /\ unsure' = IF \E n \in DOMAIN calls : calls[n].kind = "apps"
                   THEN \E i \in Ids : p[i] = "apps"
                   ELSE unsure

Ask(kind) == [kind |-> kind, val |-> 0]

(* What refreshAll asks for once system.info is settled; the notifications *)
(* are in Tray, and power, network and wallet status are read likewise.    *)
Rest == <<Ask("apps"), Ask("bright")>>

-----------------------------------------------------------------------------
(* The life of the socket                                                  *)

(* Mutant: drop() does not look whether this.socket is still the one.      *)
DropTwice(w) ==
  /\ socket' = "none"
  /\ retries' = retries + 2
  /\ backoff' = IF 2 * backoff < MaxBackoff THEN 2 * backoff ELSE MaxBackoff
  /\ pending' = [i \in Ids |-> None]
  /\ wire' = w

(* drop() for the error event and the close event that follows it; the     *)
(* second finds that this.socket is another.                               *)
Drop(w) ==
  /\ socket' = "none"
  /\ retries' = retries + 1
  /\ backoff' = IF 2 * backoff < MaxBackoff THEN 2 * backoff ELSE MaxBackoff
  /\ pending' = [i \in Ids |-> None]
  /\ wire' = w

(* The connection is lost, or was not made.  Requests that change the      *)
(* brightness may have reached the daemon, and go on there.                *)
Lose ==
  /\ socket # "none"
  /\ Spend("faults", MaxFaults)
  /\ \E S \in SUBSET {w \in wire : w.kind = "set" /\ w.at # "answered"} :
       Drop({[w EXCEPT !.mine = FALSE] : w \in S})
  /\ events' = << >>
  /\ UNCHANGED <<daemon, shell, unsure>>

(* connect() when the timer fires.                                         *)
Retry ==
  /\ retries > 0
  /\ retries' = retries - 1
  /\ socket' = IF socket = "none" THEN "connecting" ELSE socket
  /\ UNCHANGED <<backoff, pending, wire, events, daemon, shell, unsure, used>>

(* Mutant: after a reconnection nothing is fetched.                        *)
OpenQuietly ==
  /\ socket = "connecting"
  /\ socket' = "open"
  /\ backoff' = 1
  /\ IF used["faults"] = 0 THEN Send(<<Ask("info")>>, pending, wire)
                           ELSE UNCHANGED <<pending, wire, unsure>>
  /\ UNCHANGED <<retries, events, daemon, shell, used>>

(* The socket opens: solweard registers it for events, and refreshAll      *)
(* starts with system.info.                                                *)
Open ==
  /\ socket = "connecting"
  /\ socket' = "open"
  /\ backoff' = 1
  /\ Send(<<Ask("info")>>, pending, wire)
  /\ UNCHANGED <<retries, events, daemon, shell, used>>

-----------------------------------------------------------------------------
(* The daemon                                                              *)

Pushed(event) == IF socket = "open" THEN Append(events, event) ELSE events

(* apps.install or apps.uninstall by any caller, up to its push.           *)
ChangeApps ==
  /\ ~unpushed
  /\ Spend("changes", MaxChanges)
  /\ catalog' = catalog + 1
  /\ unpushed' = TRUE
  /\ UNCHANGED <<client, pending, wire, events, told, level, shell, unsure>>

PushApps ==
  /\ unpushed
  /\ unpushed' = FALSE
  /\ told' = catalog
  /\ events' = Pushed([type |-> "apps.changed", val |-> 0])
  /\ UNCHANGED <<client, pending, wire, catalog, level, shell, unsure, used>>

(* `solweard install` beside the daemon, which learns nothing of it.       *)
InstallBeside ==
  /\ Spend("changes", MaxChanges)
  /\ catalog' = catalog + 1
  /\ UNCHANGED <<client, pending, wire, events, unpushed, told, level, shell, unsure>>

(* A request takes effect, and unless it is to set the brightness its      *)
(* answer is on its way.                                                   *)
Serve(w) ==
  /\ w.at = "sent"
  /\ level' = IF w.kind = "set" THEN w.val ELSE level
  /\ wire' = (wire \ {w}) \cup
       {[w EXCEPT !.at  = IF w.kind = "set" THEN "set" ELSE "answered",
                  !.val = CASE w.kind = "apps"   -> catalog
                            [] w.kind = "bright" -> level
                            [] OTHER             -> w.val]}
  /\ UNCHANGED <<client, pending, events, catalog, unpushed, told, shell, unsure, used>>

(* display.brightnessChanged follows, then the answer.                     *)
PushBrightness(w) ==
  /\ w.at = "set"
  /\ events' = Pushed([type |-> "brightnessChanged", val |-> w.val])
  /\ wire' = (wire \ {w}) \cup 
       (IF w.mine THEN {[w EXCEPT !.at = "answered", !.val = 0]} ELSE {})
  /\ UNCHANGED <<client, pending, daemon, shell, unsure, used>>

(* The task of a request dies.                                             *)
Vanish(w) ==
  /\ w.at = "sent"
  /\ Spend("faults", MaxFaults)
  /\ wire' = wire \ {w}
  /\ UNCHANGED <<client, pending, events, daemon, shell, unsure>>

-----------------------------------------------------------------------------
(* The shell                                                               *)

(* Call i is settled, without an answer if w is empty.                     *)
Settle(i, w) ==
  IF pending[i] = "info"
  THEN Send(Rest, [pending EXCEPT ![i] = None], wire \ w)
  ELSE /\ pending' = [pending EXCEPT ![i] = None]
       /\ wire' = wire \ w
       /\ unsure' = (unsure \/ (pending[i] = "apps" /\ w = {}))

(* receive() finds the call: the shell keeps what was answered.            *)
Receive(w) ==
  /\ w.at = "answered" /\ w.mine /\ pending[w.id] # None
  /\ Settle(w.id, {w})
  /\ apps' = IF pending[w.id] = "apps" THEN w.val ELSE apps
  /\ brightness' = IF pending[w.id] = "bright" THEN w.val ELSE brightness
  /\ UNCHANGED <<client, events, daemon, used>>

(* receive() does not find the call, which has timed out.                  *)
ReceiveLate(w) ==
  /\ w.at = "answered" /\ w.mine /\ pending[w.id] = None
  /\ wire' = wire \ {w}
  /\ UNCHANGED <<client, pending, events, daemon, shell, unsure, used>>

(* Mutant: no timer.                                                       *)
TimeOutNever(i) == FALSE /\ UNCHANGED vars

(* The timer of a call whose answer will not come.                         *)
TimeOut(i) ==
  /\ pending[i] # None
  /\ ~ \E w \in wire : w.id = i /\ w.mine
  /\ Settle(i, {})
  /\ UNCHANGED <<client, events, daemon, shell, used>>

(* The timer is faster than the answer.                                    *)
TimeOutEarly(i) ==
  /\ pending[i] # None
  /\ \E w \in wire : w.id = i /\ w.mine
  /\ Spend("faults", MaxFaults)
  /\ Settle(i, {})
  /\ UNCHANGED <<client, events, daemon, shell>>

HandleAppsChanged ==
  /\ events # << >> /\ Head(events).type = "apps.changed"
  /\ events' = Tail(events)
  /\ Send(<<Ask("apps")>>, pending, wire)
  /\ UNCHANGED <<client, daemon, shell, used>>

HandleBrightness ==
  /\ events # << >> /\ Head(events).type = "brightnessChanged"
  /\ events' = Tail(events)
  /\ brightness' = Head(events).val
  /\ UNCHANGED <<client, pending, wire, daemon, apps, unsure, used>>

(* Mutant: refreshVolatile asks for something else.                        *)
RefreshOthers ==
  /\ socket = "open"
  /\ Send(<<Ask("apps")>>, pending, wire)
  /\ UNCHANGED <<client, events, daemon, shell, used>>

(* refreshVolatile, every 15 s; here only while there is room for more,    *)
(* since calls may take longer than that.                                  *)
RefreshVolatile ==
  /\ socket = "open"
  /\ Fresh(2, pending, wire) # {}
  /\ Send(<<Ask("bright")>>, pending, wire)
  /\ UNCHANGED <<client, events, daemon, shell, used>>

(* The slider shows the new setting at once; the call is rejected when     *)
(* there is no connection.                                                 *)
Slide(l) ==
  /\ Spend("slides", MaxSlides)
  /\ brightness' = l
  /\ IF socket = "open"
     THEN Send(<<[kind |-> "set", val |-> l]>>, pending, wire)
     ELSE UNCHANGED <<pending, wire, unsure>>
  /\ UNCHANGED <<client, events, daemon, apps>>

-----------------------------------------------------------------------------
Daemon(i) == \E w \in wire : w.id = i /\ (Serve(w) \/ PushBrightness(w))

Page(i) ==
  \/ \E w \in wire : w.id = i /\ (Receive(w) \/ ReceiveLate(w))
  \/ TimeOut(i)

(* What is left to do for call i; one of these at a time.                  *)
Work(i) == Daemon(i) \/ Page(i)

Reconnect == Retry \/ Open

Handle == HandleAppsChanged \/ HandleBrightness

World ==
  \/ Lose \/ ChangeApps \/ InstallBeside
  \/ \E w \in wire : Vanish(w)
  \/ \E i \in Ids : TimeOutEarly(i)
  \/ \E l \in Levels : Slide(l)

Next ==
  \/ \E i \in Ids : Work(i)
  \/ PushApps \/ Handle \/ Reconnect \/ RefreshVolatile \/ World

(* Timers fire, the daemon listens, its tasks run and the page handles     *)
(* what arrives; a call in which no room is left waits for another to be   *)
(* settled.  Nothing is assumed of the user or of other callers.           *)
Fairness ==
  /\ \A i \in Ids : WF_vars(Work(i))
  /\ WF_vars(Reconnect)
  /\ SF_vars(Handle) /\ SF_vars(RefreshVolatile)

Spec == Init /\ [][Next]_vars /\ Fairness

-----------------------------------------------------------------------------
(* RpcClient never has two ways to the daemon and is never without one:    *)
(* either it has a socket or exactly one timer is set to make it, however  *)
(* often the connection is lost (rpc.ts:72-99).                            *)
OneWayToTheDaemon == retries = IF socket = "none" THEN 1 ELSE 0

(* An answer finds the call it answers or none: a call that was given up   *)
(* leaves no id behind that another could be settled by (rpc.ts:119-133).  *)
AnswerIsOfItsCall ==
  \A w \in wire : w.mine /\ pending[w.id] # None => w.kind = pending[w.id]

(* When a connected shell has handled everything it was told, its list of  *)
(* applications is no older than the last change it was told of, provided  *)
(* that the last apps.list neither overlapped another nor was given up     *)
(* (shell.ts:92-95 and 131-133).                                           *)
QuietListIsCurrent ==
  /\ socket = "open"
  /\ events = << >>
  /\ \A i \in Ids : pending[i] \notin {"info", "apps"}
  /\ ~unsure
  => apps >= told

(* Every call is settled by its answer, its timer or the loss of the       *)
(* connection (rpc.ts:117-133 and 184-190).                                *)
EveryCallSettles ==
  \A i \in Ids : pending[i] # None ~> pending[i] = None

(* Once nobody changes it any more, the shell's brightness becomes the     *)
(* daemon's, whatever crossed on the way (shell.ts:69 and 108-121).        *)
BrightnessSettles == <>[](socket = "open" => brightness = level)
=============================================================================
