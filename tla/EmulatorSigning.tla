-------------------------- MODULE EmulatorSigning --------------------------
(***************************************************************************)
(* Signing in the host emulator: its daemon (emulator/host/src/daemon.mjs),*)
(* its server (server.mjs) over its own WebSocket (ws.mjs), and the shells *)
(* it serves: the device's own (os/shell) when that has been built, else   *)
(* the reference shell (web/shell/shell.js).                               *)
(*                                                                         *)
(* The emulator is one JavaScript thread: a message is handled to its end, *)
(* and an answer, the promise it resolves and the signature are one step.  *)
(* A page is a thread of its own.  The reference shell asks with confirm(),*)
(* and stands still while that is up; the device's shell draws its prompt  *)
(* over the screen and carries on.  The messages of one connection arrive  *)
(* in order.                                                               *)
(***************************************************************************)
EXTENDS Naturals, FiniteSets, SequencesExt

CONSTANTS
  Calls,        \* calls of wallet.signTransaction
  Pages,        \* windows with the shell, whose socket names no application
  Real,         \* those of them with the device's shell
  Tools,        \* clients whose socket is bound to an application
  Maker,        \* the client that makes each call
  NoPrompt,
  Ids,          \* the ids a tool may name in an answer
  MaxFaults     \* bound on lost connections, reloads, starts of the emulator
                \* after the first and answers of tools, all together

ASSUME EmulatorAssumption ==
  /\ Real \subseteq Pages /\ Pages \cap Tools = {}
  /\ Maker \in [Calls -> Pages \cup Tools]
  /\ NoPrompt \notin [id: Nat, call: Calls, boot: Nat]
  /\ MaxFaults \in Nat /\ Ids \subseteq Nat

VARIABLES
  (* the emulator *)
  sockets,       \* EmulatorServer.sockets, in order of connection
  confirmations, \* EmulatorServer.confirmations, each with its timer
  nextConfirmId,
  verdict,       \* each call at the daemon
  locked,        \* MockDaemon.walletLocked
  protected,     \* MockDaemon.walletProtected
  (* between the two *)
  inbox,         \* per client, messages to the emulator
  outbox,        \* per client, messages of the emulator
  (* a client *)
  up,            \* its `socket` is open for all it knows
  asking,        \* the prompt a page shows
  pending,       \* each call in its client: waiting over an open connection,
                 \* waiting although that is gone, or settled
  (* for the properties and the bounds *)
  shown, approved,
  unasked,       \* calls ended by an answer that no prompt of the emulator,
                 \* as it ran then, had drawn
  losses, restarts, volunteers

server == <<sockets, confirmations, nextConfirmId, verdict>>
wallet == <<locked, protected>>
client == <<up, asking, pending>>
ghost  == <<shown, approved, unasked>>
bounds == <<losses, restarts, volunteers>>
vars   == <<server, wallet, inbox, outbox, client, ghost, bounds>>

Clients  == Pages \cup Tools
(* `boot`, of which start of the emulator it is, is for the properties, as *)
(* is `seen`, the prompt that drew an answer; the messages carry neither.  *)
Prompts  == [id: Nat, call: Calls, boot: Nat]
ToServer == [type: {"sign"}, call: Calls]
              \cup [type: {"answer"}, id: Nat, seen: Prompts \cup {NoPrompt},
                    approved: BOOLEAN]
ToClient == [type: {"confirmRequest"}, prompt: Prompts]
              \cup [type: {"response"}, call: Calls]

TypeOK ==
  /\ sockets \in Seq(Clients)
  /\ confirmations \subseteq Prompts
  /\ nextConfirmId \in Nat
  /\ verdict \in [Calls -> {"none", "waiting", "signed", "refused", "gone"}]
  /\ locked \in BOOLEAN /\ protected \in BOOLEAN
  /\ inbox \in [Clients -> Seq(ToServer)]
  /\ outbox \in [Clients -> Seq(ToClient)]
  /\ up \in [Clients -> BOOLEAN]
  /\ asking \in [Pages -> Prompts \cup {NoPrompt}]
  /\ pending \in [Calls -> {"unmade", "open", "lost", "settled"}]
  /\ shown \subseteq Calls /\ approved \subseteq Calls /\ unasked \subseteq Calls
  /\ losses \in Nat /\ restarts \in Nat /\ volunteers \in Nat

Init ==
  /\ sockets = << >>
  /\ confirmations = {}
  /\ nextConfirmId = 1
  /\ verdict = [c \in Calls |-> "none"]
  /\ locked = FALSE /\ protected = FALSE
  /\ inbox = [k \in Clients |-> << >>]
  /\ outbox = [k \in Clients |-> << >>]
  /\ up = [k \in Clients |-> FALSE]
  /\ asking = [p \in Pages |-> NoPrompt]
  /\ pending = [c \in Calls |-> "unmade"]
  /\ shown = {} /\ approved = {} /\ unasked = {}
  /\ losses = 0 /\ restarts = 0 /\ volunteers = 0

Bearable == losses + restarts + volunteers < MaxFaults

-----------------------------------------------------------------------------
(* Connections                                                             *)

Alive(k) == k \in ToSet(sockets)

(* sockets.delete: a connection is in the set once.                        *)
Without(k) ==
  IF Alive(k) THEN RemoveAt(sockets, CHOOSE i \in DOMAIN sockets : sockets[i] = k)
              ELSE sockets

(* The client's thread is free: no confirm() holds it up.                  *)
Free(k) == k \in Pages \ Real => asking[k] = NoPrompt

(* connect() at the start and some time after a close, in the device's     *)
(* shell with the prompt of before still on the screen; onConnection.      *)
Connect(k) ==
  /\ ~up[k] /\ ~Alive(k) /\ Free(k)
  /\ up' = [up EXCEPT ![k] = TRUE]
  /\ sockets' = Append(sockets, k)
  /\ UNCHANGED <<confirmations, nextConfirmId, verdict, wallet, inbox, outbox,
                 asking, pending, ghost, bounds>>

(* Calls made over a connection that is gone: nothing will come for them.  *)
Orphaned(gone) ==
  [c \in Calls |-> IF pending[c] = "open" /\ Maker[c] \in gone THEN "lost" ELSE pending[c]]

(* onClose.  What had not arrived is lost; the page learns of the close    *)
(* after the messages before it.                                           *)
Lose(k) ==
  /\ Alive(k)
  /\ Bearable /\ losses' = losses + 1
  /\ sockets' = Without(k)
  /\ inbox' = [inbox EXCEPT ![k] = << >>]
  /\ \E n \in 0..Len(outbox[k]) : outbox' = [outbox EXCEPT ![k] = SubSeq(@, 1, n)]
  /\ pending' = Orphaned({k})
  /\ UNCHANGED <<confirmations, nextConfirmId, verdict, wallet, up, asking, ghost,
                 restarts, volunteers>>

(* The close event in the page.                                            *)
HandleClose(k) ==
  /\ up[k] /\ ~Alive(k) /\ Free(k) /\ outbox[k] = << >>
  /\ up' = [up EXCEPT ![k] = FALSE]
  /\ UNCHANGED <<server, wallet, inbox, outbox, asking, pending, ghost, bounds>>

(* The window is reloaded, or closed and opened again.                     *)
Reload(p) ==
  /\ up[p]
  /\ Bearable /\ losses' = losses + 1
  /\ sockets' = Without(p)
  /\ inbox' = [inbox EXCEPT ![p] = << >>]
  /\ outbox' = [outbox EXCEPT ![p] = << >>]
  /\ up' = [up EXCEPT ![p] = FALSE]
  /\ asking' = [asking EXCEPT ![p] = NoPrompt]
  /\ pending' = Orphaned({p})
  /\ UNCHANGED <<confirmations, nextConfirmId, verdict, wallet, ghost, restarts,
                 volunteers>>

(* The emulator stops and starts: another wallet, ids from 1.  What was    *)
(* already sent arrives.                                                   *)
Restart ==
  /\ Bearable /\ restarts' = restarts + 1
  /\ sockets' = << >>
  /\ confirmations' = {}
  /\ nextConfirmId' = 1
  /\ verdict' = [c \in Calls |-> IF verdict[c] = "waiting" THEN "gone" ELSE verdict[c]]
  /\ locked' = FALSE /\ protected' = FALSE
  /\ inbox' = [k \in Clients |-> << >>]
  /\ pending' = Orphaned(Clients)
  /\ UNCHANGED <<outbox, up, asking, ghost, losses, volunteers>>

-----------------------------------------------------------------------------
(* A shell, or another client                                              *)

SendTo(k, m) == IF Alive(k) THEN [inbox EXCEPT ![k] = Append(@, m)] ELSE inbox

(* call(), for an application.  On a socket that is not open the reference *)
(* shell leaves the call in `pending` for ever, the device's rejects it.   *)
Request(c) ==
  /\ pending[c] = "unmade" /\ Free(Maker[c])
  /\ pending' = [pending EXCEPT ![c] = IF Alive(Maker[c]) THEN "open" ELSE "lost"]
  /\ inbox' = SendTo(Maker[c], [type |-> "sign", call |-> c])
  /\ UNCHANGED <<server, wallet, outbox, up, asking, ghost, bounds>>

(* The device's shell waits 30 s for an answer to a call.                  *)
GiveUp(c) ==
  /\ pending[c] = "open" /\ Maker[c] \in Real
  /\ pending' = [pending EXCEPT ![c] = "settled"]
  /\ UNCHANGED <<server, wallet, inbox, outbox, up, asking, ghost, bounds>>

(* The next message in a client that is free: a prompt, in the device's    *)
(* shell in the place of the one on the screen, or a callback.             *)
Handle(k) ==
  /\ outbox[k] # << >> /\ Free(k)
  /\ outbox' = [outbox EXCEPT ![k] = Tail(@)]
  /\ LET m == Head(outbox[k])
     IN  \/ /\ m.type = "confirmRequest" /\ k \in Pages
            /\ asking' = [asking EXCEPT ![k] = m.prompt]
            /\ shown' = shown \cup {m.prompt.call}
            /\ UNCHANGED pending
         \/ /\ m.type = "response"
            /\ pending' = [pending EXCEPT ![m.call] = "settled"]
            /\ UNCHANGED <<asking, shown>>
  /\ UNCHANGED <<server, wallet, inbox, up, approved, unasked, bounds>>

(* The user answers, and shell.confirmResponse goes over the socket the    *)
(* page has: for confirm() the one it had when that came up, for the       *)
(* device's shell perhaps one to an emulator that never asked.             *)
Answer(p, yes) ==
  /\ asking[p] # NoPrompt
  /\ asking' = [asking EXCEPT ![p] = NoPrompt]
  /\ approved' = IF yes THEN approved \cup {asking[p].call} ELSE approved
  /\ inbox' = SendTo(p, [type |-> "answer", id |-> asking[p].id, seen |-> asking[p],
                         approved |-> yes])
  /\ UNCHANGED <<server, wallet, outbox, up, pending, shown, unasked, bounds>>

(* A client that was shown nothing sends the id of a confirmation and a    *)
(* result.                                                                 *)
Volunteer(k, id, yes) ==
  /\ Alive(k)
  /\ Bearable /\ volunteers' = volunteers + 1
  /\ inbox' = SendTo(k, [type |-> "answer", id |-> id, seen |-> NoPrompt,
                         approved |-> yes])
  /\ UNCHANGED <<server, wallet, outbox, client, ghost, losses, restarts>>

-----------------------------------------------------------------------------
(* The emulator                                                            *)

(* Mutant: the callers are not told.                                       *)
RespondNot(box, c) == box

(* connection.sendJson(response), dropped if that connection is closed.    *)
Respond(box, c) ==
  IF pending[c] = "open"
  THEN [box EXCEPT ![Maker[c]] = Append(@, [type |-> "response", call |-> c])]
  ELSE box

(* The call ends: the promise of askForConfirmation resolves, and dispatch *)
(* signs or throws.                                                        *)
End(c, yes, box) ==
  /\ verdict' = [verdict EXCEPT ![c] = IF yes THEN "signed" ELSE "refused"]
  /\ outbox' = Respond(box, c)

(* Where the sockets are that name no application; find takes the first.   *)
ShellSockets == {i \in DOMAIN sockets : sockets[i] \in Pages}

Prompted(prompt) ==
  [outbox EXCEPT ![sockets[Min(ShellSockets)]] =
     Append(@, [type |-> "confirmRequest", prompt |-> prompt])]

(* wallet.signTransaction: refused when the wallet is locked or no shell   *)
(* is there to ask, else its prompt goes to the first one.                 *)
SignTransaction(c) ==
  IF locked \/ ShellSockets = {}
  THEN /\ End(c, FALSE, outbox)
       /\ UNCHANGED <<confirmations, nextConfirmId>>
  ELSE LET prompt == [id |-> nextConfirmId, call |-> c, boot |-> restarts]
       IN  /\ nextConfirmId' = nextConfirmId + 1
           /\ confirmations' = confirmations \cup {prompt}
           /\ verdict' = [verdict EXCEPT ![c] = "waiting"]
           /\ outbox' = Prompted(prompt)

(* Mutant: whatever is waiting takes the answer.                           *)
ResolveAny(id, yes) ==
  IF confirmations = {}
  THEN UNCHANGED <<confirmations, verdict, outbox>>
  ELSE \E e \in confirmations :
         confirmations' = confirmations \ {e} /\ End(e.call, yes, outbox)

(* Mutant: the entry stays in the map.                                     *)
ResolveAndKeep(id, yes) ==
  LET found == {e \in confirmations : e.id = id}
  IN  IF found = {}
      THEN UNCHANGED <<confirmations, verdict, outbox>>
      ELSE \E e \in found : End(e.call, yes, outbox) /\ UNCHANGED confirmations

(* resolveConfirmation for shell.confirmResponse, and the same for any     *)
(* client's message with the id and no method.                             *)
ResolveConfirmation(id, yes) ==
  LET found == {e \in confirmations : e.id = id}
  IN  IF found = {}
      THEN UNCHANGED <<confirmations, verdict, outbox>>
      ELSE \E e \in found :
             confirmations' = confirmations \ {e} /\ End(e.call, yes, outbox)

(* The emulator, as it runs now, had asked the user who gave the answer.   *)
Drawn(m) == m.seen # NoPrompt /\ m.seen.boot = restarts

(* onConnection's message handler.                                         *)
OnMessage(k) ==
  /\ inbox[k] # << >>
  /\ inbox' = [inbox EXCEPT ![k] = Tail(@)]
  /\ LET m == Head(inbox[k])
     IN  \/ /\ m.type = "sign"
            /\ SignTransaction(m.call)
            /\ UNCHANGED unasked
         \/ /\ m.type = "answer"
            /\ ResolveConfirmation(m.id, m.approved)
            /\ unasked' = IF Drawn(m) THEN unasked
                          ELSE unasked \cup {c \in Calls : verdict'[c] # verdict[c]}
            /\ UNCHANGED nextConfirmId
  /\ UNCHANGED <<sockets, wallet, client, shown, approved, bounds>>

(* Mutant: a confirmation waits as long as it takes.                       *)
ExpireNever(e) == FALSE /\ e \in confirmations /\ UNCHANGED vars

(* 60 s without an answer.                                                 *)
Expire(e) ==
  /\ confirmations' = confirmations \ {e}
  /\ End(e.call, FALSE, outbox)
  /\ UNCHANGED <<sockets, nextConfirmId, wallet, inbox, client, ghost, bounds>>

(* wallet.setPassphrase, wallet.lock and wallet.unlock, by any client that *)
(* knows the passphrase.                                                   *)
SetPassphrase ==
  /\ protected' = TRUE
  /\ UNCHANGED <<server, locked, inbox, outbox, client, ghost, bounds>>

Lock ==
  /\ protected
  /\ locked' = TRUE
  /\ UNCHANGED <<server, protected, inbox, outbox, client, ghost, bounds>>

Unlock ==
  /\ protected
  /\ locked' = FALSE
  /\ UNCHANGED <<server, protected, inbox, outbox, client, ghost, bounds>>

-----------------------------------------------------------------------------
Emulator == \E e \in confirmations : Expire(e)

Client(k) == Handle(k) \/ HandleClose(k)

Next ==
  \/ \E k \in Clients : OnMessage(k) \/ Client(k) \/ Connect(k) \/ Lose(k)
  \/ \E c \in Calls : Request(c) \/ GiveUp(c)
  \/ \E p \in Pages : Reload(p) \/ \E yes \in BOOLEAN : Answer(p, yes)
  \/ \E k \in Tools, id \in Ids, yes \in BOOLEAN : Volunteer(k, id, yes)
  \/ Emulator \/ SetPassphrase \/ Lock \/ Unlock \/ Restart

(* Messages on an open connection arrive and are handled, and timers fire. *)
(* Nobody has to answer a prompt.                                          *)
Fairness ==
  /\ WF_vars(Emulator)
  /\ \A k \in Clients : WF_vars(OnMessage(k)) /\ WF_vars(Client(k))

Spec == Init /\ [][Next]_vars /\ Fairness

-----------------------------------------------------------------------------
(* What a call that ended unasked became is not part of the promise.       *)
Consent == INSTANCE SigningConsent WITH
  Requests <- Calls, asked <- shown, consent <- approved,
  verdict <- [c \in Calls |->
                IF verdict[c] \in {"signed", "refused"} /\ c \notin unasked
                THEN verdict[c] ELSE "open"]

(* The emulator promises what the device promises (daemon.mjs:301-345) to  *)
(* every call that ends by a timer, a refusal or an answer to a prompt of  *)
(* the emulator as it then runs, although the prompts of a shell outlive   *)
(* connections, its ids start again and other clients send answers too.    *)
ImplementsConsent == Consent!Spec

(* "Never sign without an affirmative action from the wearer"              *)
(* (daemon.mjs:308): a call is signed only when its own prompt has been    *)
(* approved.  The code takes more (server.mjs:122-130, 173).               *)
SignedIsApproved == \A c \in Calls : verdict[c] = "signed" => c \in approved

(* The map of confirmations is the calls that wait, each under an id of    *)
(* its own: none is left behind by an answer or a timer, and none is lost  *)
(* (server.mjs:173-194).                                                   *)
ConfirmationsAreWaiting ==
  /\ {e.call : e \in confirmations} = {c \in Calls : verdict[c] = "waiting"}
  /\ \A e, f \in confirmations : (e.id = f.id <=> e = f) /\ e.id < nextConfirmId

(* A signing call does not wait for ever, whether or not anybody answers   *)
(* (server.mjs:175-177).                                                   *)
EveryCallEnds == \A c \in Calls : []<>(verdict[c] # "waiting")

(* No caller is left waiting for ever over a connection that stays: its    *)
(* call is settled in the client that made it, unless confirm() is up there*)
(* and holds the page up.                                                  *)
CallersAreTold == \A c \in Calls : []<>(pending[c] # "open" \/ ~Free(Maker[c]))
=============================================================================
