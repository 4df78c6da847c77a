------------------------------ MODULE AppBridge ------------------------------
(***************************************************************************)
(* The only way an application reaches the system: the SDK in its frame    *)
(* (sdk/runtime/src/bridge.ts), the AppHost in the shell                   *)
(* (os/shell/src/bridge.ts), and the messages they post to each other.     *)
(*                                                                         *)
(* The shell has one current frame; opening an application removes the     *)
(* frame before it.  A frame may load several documents one after another, *)
(* each with an SDK that numbers its calls from 1.  What the daemon does   *)
(* with a call is left out: the call ends, with a result, an error, a lost *)
(* connection or RpcClient's timeout.  A call made before ready() settles  *)
(* is one made when it has.                                                *)
(***************************************************************************)
EXTENDS Naturals, Sequences

CONSTANTS
  Installed,    \* installed applications
  Frames,       \* the frames the shell makes, in any order
  Absent,       \* no frame, no application
  MaxCalls,     \* bound on the calls of one document
  MaxReloads    \* bound on documents of one frame, beyond the first

ASSUME BridgeAssumption ==
  /\ MaxCalls \in Nat
  /\ MaxReloads \in Nat
  /\ Absent \notin Installed \cup Frames

VARIABLES
  current,    \* AppHost.frame
  app,        \* the application each frame was made for
  doc,        \* the document each frame is at, 0 before its first
  loaded,     \* its load event has fired
  ready,      \* what the SDK's ready() resolved with, "no" before
  context,    \* the SDK's context
  nextId,     \* the SDK's counter
  pending,    \* the ids the SDK waits for
  toShell,    \* messages a frame has posted to the shell
  toApp,      \* messages the shell has posted to a frame
  inflight,   \* onMessage handlers that await rpc.call
  settled     \* history: which answer settled which call

frameHost  == <<current, app>>
page       == <<doc, loaded>>
sdk        == <<ready, context, nextId, pending>>
wires      == <<toShell, toApp>>
bridgeVars == <<frameHost, page, sdk, wires, inflight, settled>>

(* A call as the page made it.                                             *)
Calls == [frame : Frames, doc : 0..(MaxReloads + 1), id : 1..MaxCalls]

(* A message to a frame: the init, or an answer under the id of a call.    *)
InitMessage == [kind |-> "init"]
Answer(call) == [kind |-> "answer", call |-> call]
Messages == {InitMessage} \cup [kind : {"answer"}, call : Calls]

BridgeTypeOK ==
  /\ current \in Frames \cup {Absent}
  /\ app \in [Frames -> Installed \cup {Absent}]
  /\ doc \in [Frames -> 0..(MaxReloads + 1)]
  /\ loaded \in [Frames -> BOOLEAN]
  /\ ready \in [Frames -> {"no", "attached", "detached"}]
  /\ context \in [Frames -> {"no", "attached", "detached"}]
  /\ nextId \in [Frames -> 1..(MaxCalls + 1)]
  /\ pending \in [Frames -> SUBSET (1..MaxCalls)]
  /\ toShell \in [Frames -> Seq(Calls)]
  /\ toApp \in [Frames -> Seq(Messages)]
  /\ inflight \subseteq [call : Calls, app : Installed]
  /\ settled \subseteq [call : Calls, answer : Calls]

BridgeInit ==
  /\ current = Absent
  /\ app = [f \in Frames |-> Absent]
  /\ doc = [f \in Frames |-> 0]
  /\ loaded = [f \in Frames |-> FALSE]
  /\ ready = [f \in Frames |-> "no"]
  /\ context = [f \in Frames |-> "no"]
  /\ nextId = [f \in Frames |-> 1]
  /\ pending = [f \in Frames |-> {}]
  /\ toShell = [f \in Frames |-> << >>]
  /\ toApp = [f \in Frames |-> << >>]
  /\ inflight = {}
  /\ settled = {}

-----------------------------------------------------------------------------
(* The shell.                                                              *)

(* AppHost.post goes to whatever frame is current; before its first        *)
(* document nobody listens there.                                          *)
PostToFrame(message) ==
  toApp' = IF current # Absent /\ doc[current] > 0
           THEN [toApp EXCEPT ![current] = Append(@, message)]
           ELSE toApp

(* The frame is removed, and the page in it with all it waited for.        *)
Discard ==
  IF current = Absent THEN UNCHANGED <<pending, toApp>>
  ELSE /\ pending' = [pending EXCEPT ![current] = {}]
       /\ toApp' = [toApp EXCEPT ![current] = << >>]

(* openApp or the watchface: unmount, then a new frame.                    *)
Mount(f, a) ==
  /\ app[f] = Absent
  /\ Discard
  /\ current' = f
  /\ app' = [app EXCEPT ![f] = a]
  /\ UNCHANGED <<page, ready, context, nextId, toShell, inflight, settled>>

(* The user leaves the application.                                        *)
Unmount ==
  /\ current # Absent
  /\ Discard
  /\ current' = Absent
  /\ UNCHANGED <<app, page, ready, context, nextId, toShell, inflight, settled>>

(* The load event: the document and all it refers to are there.            *)
Load(f) ==
  /\ f = current /\ doc[f] > 0 /\ ~loaded[f]
  /\ loaded' = [loaded EXCEPT ![f] = TRUE]
  /\ PostToFrame(InitMessage)
  /\ UNCHANGED <<frameHost, doc, sdk, toShell, inflight, settled>>

(* onMessage takes the next message of f.  A call from a frame that is not *)
(* the current one is dropped; one that lacks the capability is answered   *)
(* on the spot; any other is handed to rpc.call under the app id of the    *)
(* frame.                                                                  *)
Take(f) == toShell[f] # << >> /\ toShell' = [toShell EXCEPT ![f] = Tail(@)]

Forward(f) ==
  /\ Take(f)
  /\ inflight' = inflight \cup {[call |-> Head(toShell[f]), app |-> app[current]]}
  /\ UNCHANGED <<frameHost, page, sdk, toApp, settled>>

Deny(f) ==
  /\ f = current
  /\ Take(f)
  /\ PostToFrame(Answer(Head(toShell[f])))
  /\ UNCHANGED <<frameHost, page, sdk, inflight, settled>>

DropStray(f) ==
  /\ f # current
  /\ Take(f)
  /\ UNCHANGED <<frameHost, page, sdk, toApp, inflight, settled>>

(* Mutant: the source of the message is not compared.                      *)
BrokerAny(f) == current # Absent /\ Forward(f)

Broker(f) == f = current /\ Forward(f)

End(c) ==
  /\ inflight' = inflight \ {c}
  /\ UNCHANGED <<frameHost, page, sdk, toShell, settled>>

(* Mutant: a call that fails is not answered.                              *)
FinishSilently(c) == End(c) /\ (PostToFrame(Answer(c.call)) \/ UNCHANGED toApp)

(* rpc.call ends, and the answer is posted.                                *)
Finish(c) == End(c) /\ PostToFrame(Answer(c.call))

-----------------------------------------------------------------------------
(* The page and its SDK.                                                   *)

(* A document starts: the first, or the application reloads itself.  Its   *)
(* SDK posts hello, to which AppHost does not react.                       *)
StartDocument(f) ==
  /\ f = current /\ doc[f] <= MaxReloads
  /\ doc' = [doc EXCEPT ![f] = @ + 1]
  /\ loaded' = [loaded EXCEPT ![f] = FALSE]
  /\ ready' = [ready EXCEPT ![f] = "no"]
  /\ context' = [context EXCEPT ![f] = "no"]
  /\ nextId' = [nextId EXCEPT ![f] = 1]
  /\ pending' = [pending EXCEPT ![f] = {}]
  /\ toApp' = [toApp EXCEPT ![f] = << >>]
  /\ UNCHANGED <<frameHost, toShell, inflight, settled>>

Detach(f) ==
  /\ f = current /\ doc[f] > 0 /\ context[f] = "no"
  /\ ready' = [ready EXCEPT ![f] = "detached"]
  /\ context' = [context EXCEPT ![f] = "detached"]
  /\ UNCHANGED <<frameHost, page, nextId, pending, wires, inflight, settled>>

(* Mutant: the SDK waits for init for ever.                                *)
DetachNever(f) == FALSE /\ Detach(f)

(* HANDSHAKE_TIMEOUT_MS pass without init.                                 *)
SettleDetached(f) == Detach(f)

(* The SDK takes the next message: init sets the context and resolves      *)
(* ready() unless it was resolved before; an answer settles the pending    *)
(* call with its id, if there is one.                                      *)
Receive(f) ==
  /\ f = current /\ toApp[f] # << >>
  /\ LET m == Head(toApp[f])
     IN  CASE m.kind = "init" ->
                /\ context' = [context EXCEPT ![f] = "attached"]
                /\ ready' = [ready EXCEPT ![f] = IF @ = "no" THEN "attached" ELSE @]
                /\ UNCHANGED <<pending, settled>>
           [] m.kind = "answer" /\ m.call.id \in pending[f] ->
                /\ pending' = [pending EXCEPT ![f] = @ \ {m.call.id}]
                /\ settled' = settled \cup
                     {[call |-> [frame |-> f, doc |-> doc[f], id |-> m.call.id],
                       answer |-> m.call]}
                /\ UNCHANGED <<ready, context>>
           [] OTHER -> UNCHANGED <<ready, context, pending, settled>>
  /\ toApp' = [toApp EXCEPT ![f] = Tail(@)]
  /\ UNCHANGED <<frameHost, page, nextId, toShell, inflight>>

(* The application makes a call, and ready() has said it may.  If it has   *)
(* not, or the SDK's copy of the capabilities lacks it, the call fails     *)
(* without a trace.                                                        *)
Call(f) ==
  /\ f = current /\ ready[f] = "attached" /\ nextId[f] <= MaxCalls
  /\ nextId' = [nextId EXCEPT ![f] = @ + 1]
  /\ pending' = [pending EXCEPT ![f] = @ \cup {nextId[f]}]
  /\ toShell' = [toShell EXCEPT ![f] =
                   Append(@, [frame |-> f, doc |-> doc[f], id |-> nextId[f]])]
  /\ UNCHANGED <<frameHost, page, ready, context, toApp, inflight, settled>>

Page(f) == StartDocument(f) \/ SettleDetached(f) \/ Receive(f) \/ Call(f)

Shell(f) ==
  \/ Load(f) \/ Broker(f) \/ Deny(f) \/ DropStray(f)
  \/ \E a \in Installed : Mount(f, a)

BridgeNext ==
  \/ Unmount
  \/ \E f \in Frames : Page(f) \/ Shell(f)
  \/ \E c \in inflight : Finish(c)

BridgeSpec == BridgeInit /\ [][BridgeNext]_bridgeVars

(* Posted messages are delivered, timers fire, and rpc.call ends: the      *)
(* daemon answers or RpcClient times out.  The load event and the user are *)
(* free never to come.                                                     *)
BridgeFairness ==
  /\ \A f \in Frames :
       /\ WF_bridgeVars(Broker(f) \/ Deny(f) \/ DropStray(f))
       /\ WF_bridgeVars(Receive(f))
       /\ WF_bridgeVars(SettleDetached(f))
  /\ WF_bridgeVars(\E c \in inflight : Finish(c))

BridgeFairSpec == BridgeSpec /\ BridgeFairness

-----------------------------------------------------------------------------
(* "Identity comes from the frame the message arrived in, never from its   *)
(* contents": a call is made in the name of the application whose frame    *)
(* sent it, also when that frame is replaced while its message or its call *)
(* is under way.                                                           *)
StampIsSource == \A c \in inflight : c.app = app[c.call.frame]

(* "The shell's answer to one `rpc` message": a call is settled by the     *)
(* answer to that call, not by the answer to a call of another page.  Not  *)
(* so: ids start at 1 in every page, and Finish posts to the current one.  *)
AnswerMatchesCall == \A s \in settled : s.answer = s.call

(* Why the stamp is right: a frame is made for one application, for good.  *)
StampInv ==
  /\ BridgeTypeOK
  /\ current # Absent => app[current] # Absent
  /\ \A c \in inflight : app[c.call.frame] # Absent
  /\ \A f \in Frames : \A i \in DOMAIN toShell[f] : toShell[f][i].frame = f
  /\ StampIsSource

(* Every call of a page is settled, for as long as the page is there.      *)
EveryCallSettles ==
  \A f \in Frames, id \in 1..MaxCalls :
    id \in pending[f] ~> id \notin pending[f]

(* ready() settles in every page that stays, whether or not a shell and    *)
(* its init ever come.                                                     *)
ReadySettles ==
  \A f \in Frames :
    (f = current /\ doc[f] > 0 /\ ready[f] = "no")
      ~> (f # current \/ ready[f] # "no")

=============================================================================
