---------------------------- MODULE Confirmation ----------------------------
(***************************************************************************)
(* The path to a signature: `wallet.signTransaction` in solweard, the      *)
(* confirmation it raises on the shell's screen, and the user's tap that   *)
(* travels back.                                                           *)
(*                                                                         *)
(* Each call is handled on its own task (server.rs), so calls interleave   *)
(* at every lock and await of sign_transaction, request_confirmation,      *)
(* resolve_confirmation and record_wallet_activity.  Shells connect, drop, *)
(* reload and reconnect; the daemon crashes and is restarted by systemd.   *)
(* A call stands for its application and message: what a prompt shows is   *)
(* the call it was raised for.  Sequence numbers are the N of "cN".        *)
(***************************************************************************)
EXTENDS Naturals, Sequences, FiniteSets

CONSTANTS
  Requests,      \* the wallet.signTransaction calls that may be made
  Shells,        \* shell pages (the kiosk, a browser on the HTTP port)
  NoPrompt,      \* an empty confirmation overlay
  NoRequest,     \* nobody holds the activity mutex
  ActivityCap,   \* entries the activity list keeps (128 in state.rs)
  Passphrases,   \* passphrases the wallet may be given
  NoDoc,         \* no encrypted wallet in memory
  MaxDrops,      \* bound on lost shell connections
  MaxRestarts    \* bound on daemon restarts

ASSUME ConstantsAssumption ==
  /\ ActivityCap \in Nat \ {0}
  /\ MaxDrops \in Nat
  /\ MaxRestarts \in Nat
  /\ NoRequest \notin Requests
  /\ {"none", "seed", NoDoc} \cap Passphrases = {}

VARIABLES
  \* solweard, in memory
  pc,          \* where the handler of each call is
  reqId,       \* the sequence number request_confirmation drew for it, 0 before
  pending,     \* calls whose sender is in pending_confirms, under reqId
  slot,        \* the oneshot channel each call waits on
  nextId,      \* AppState::next_id
  conn,        \* shells whose socket is registered with register_shell
  lingering,   \* dead shell sockets whose writer task has not ended yet
  activity,    \* AppState::wallet_activity, oldest first
  writer,      \* the call that holds the wallet_activity mutex
  bytes,       \* the list each handler is writing to disk, if it could open the file
  doc, key,    \* the keystore in memory (module WalletKey)
  \* on disk
  file,        \* wallet-activity.json
  disk,        \* wallet.key
  \* between the daemon and the shells
  events,      \* pushed events on each shell's connection, in order
  answers,     \* shell.confirmResponse calls under way, in no order
  \* in the shells
  confirming,  \* the prompt each shell has on screen (shell.ts)
  \* bounds and history
  drops, restarts,
  shown,       \* calls whose prompt has been on a screen
  taps,        \* every tap a user has made
  orphaned,    \* calls left unanswered when the last shell vanished
  saved,       \* the list of the last write that could open the file
  behind,      \* entries have been added since
  held, opener,  \* history of the keystore
  signatures   \* every signature made

daemon  == <<pc, reqId, pending, slot, nextId>>
shellIO == <<conn, lingering, events, answers, confirming, drops>>
history == <<restarts, shown, taps, orphaned>>
journal == <<activity, writer, bytes, file, saved, behind>>
wallet  == <<disk, doc, key, held, opener>>
vars == <<daemon, shellIO, journal, wallet, history, signatures>>

Key == INSTANCE WalletKey

-----------------------------------------------------------------------------
(* A prompt is what wallet.confirmRequest carries; its life, the number of *)
(* daemon restarts before it was raised, is not on the wire.               *)
Prompts == [id : Nat, req : Requests, life : Nat]
Events  == [kind : {"confirmRequest", "confirmCancelled", "activity"},
            prompt : Prompts]
Taps    == [shell : Shells, prompt : Prompts, approved : BOOLEAN]

Refusals == {"invalid", "unavailable", "rejected", "timedout", "walletLocked"}
Signing  == {"signed", "recording", "done"}
Running  == {"checked", "registered", "waiting", "expired", "approved",
             "signed", "recording"}
PCs == {"idle", "crashed"} \cup Running \cup Refusals \cup Signing

Torn == <<"torn">>      \* wallet-activity.json caught between truncate and write

(* The prompt of call r in the daemon's current life.                      *)
PromptOf(r) == [id |-> reqId[r], req |-> r, life |-> restarts]

(* AppState::push_event: the payload is queued for every registered shell. *)
(* A shell whose socket is gone receives nothing.                          *)
PushEvent(kind, r) ==
  events' = [s \in Shells |->
               IF s \in conn
               THEN Append(events[s], [kind |-> kind, prompt |-> PromptOf(r)])
               ELSE events[s]]

(* AppState::shell_connected: a writer task that has not noticed its dead  *)
(* socket still counts.                                                    *)
ShellConnected == conn # {} \/ lingering # {}

(* The newest ActivityCap entries (activity.drain).                        *)
Newest(list, n) ==
  SubSeq(list, IF Len(list) > n THEN Len(list) - n + 1 ELSE 1, Len(list))

(* Mutant: one entry too many is drained.                                  *)
CappedTooFar(list) == Newest(list, ActivityCap - 1)

Capped(list) == Newest(list, ActivityCap)

-----------------------------------------------------------------------------
(* Wallet::load_or_create has read a seed or a document.                   *)
Loaded ==
  /\ key = (disk = "seed")
  /\ doc = IF disk = "seed" THEN NoDoc ELSE disk
  /\ held = {disk} \cap Passphrases
  /\ opener = NoDoc

Init ==
  /\ pc = [r \in Requests |-> "idle"]
  /\ reqId = [r \in Requests |-> 0]
  /\ pending = {}
  /\ slot = [r \in Requests |-> "empty"]
  /\ nextId = 1
  /\ conn = {}
  /\ lingering = {}
  /\ activity = << >>
  /\ writer = NoRequest
  /\ bytes = [r \in Requests |-> << >>]
  /\ disk \in {"seed"} \cup Passphrases
  /\ Loaded
  /\ file = << >>
  /\ saved = << >>
  /\ behind = FALSE
  /\ events = [s \in Shells |-> << >>]
  /\ answers = {}
  /\ confirming = [s \in Shells |-> NoPrompt]
  /\ drops = 0
  /\ restarts = 0
  /\ shown = {}
  /\ taps = {}
  /\ orphaned = {}
  /\ signatures = {}

-----------------------------------------------------------------------------
(* The handler of call r.                                                  *)

Goto(r, from, to) ==
  /\ pc[r] = from
  /\ pc' = [pc EXCEPT ![r] = to]

(* The capability gate or a parameter check of sign_transaction fails.     *)
SignInvalid(r) ==
  /\ Goto(r, "idle", "invalid")
  /\ UNCHANGED <<reqId, pending, slot, nextId, shellIO, journal, wallet,
                 history, signatures>>

(* The checks pass and request_confirmation looks for a shell.             *)
SignTransaction(r) ==
  /\ \/ ShellConnected /\ Goto(r, "idle", "checked")
     \/ ~ShellConnected /\ Goto(r, "idle", "unavailable")
  /\ UNCHANGED <<reqId, pending, slot, nextId, shellIO, journal, wallet,
                 history, signatures>>

(* It draws a sequence number and files the sender.                        *)
Register(r) ==
  /\ Goto(r, "checked", "registered")
  /\ reqId' = [reqId EXCEPT ![r] = nextId]
  /\ nextId' = nextId + 1
  /\ pending' = pending \cup {r}
  /\ UNCHANGED <<slot, shellIO, journal, wallet, history, signatures>>

(* It pushes wallet.confirmRequest and waits.                              *)
Ask(r) ==
  /\ Goto(r, "registered", "waiting")
  /\ PushEvent("confirmRequest", r)
  /\ UNCHANGED <<reqId, pending, slot, nextId, conn, lingering, answers,
                 confirming, drops, journal, wallet, history, signatures>>

(* The answer arrives.                                                     *)
ReceiveAnswer(r) ==
  /\ \/ slot[r] = "yes" /\ Goto(r, "waiting", "approved")
     \/ slot[r] = "no"  /\ Goto(r, "waiting", "rejected")
  /\ pending' = pending \ {r}
  /\ UNCHANGED <<reqId, slot, nextId, shellIO, journal, wallet, history,
                 signatures>>

TimeOut(r, to) ==
  /\ slot[r] = "empty"
  /\ Goto(r, "waiting", to)
  /\ UNCHANGED <<reqId, pending, slot, nextId, shellIO, journal, wallet,
                 history, signatures>>

(* Mutants: a bare `rx.await`; a timeout taken for an answer.              *)
ExpireNever(r) == FALSE /\ TimeOut(r, "expired")
ExpireAsYes(r) == TimeOut(r, "approved")

(* CONFIRM_TIMEOUT elapses before an answer: tokio's timeout polls the     *)
(* channel first, so an answer already delivered wins.                     *)
Expire(r) == TimeOut(r, "expired")

DropReceiver(r) ==
  /\ Goto(r, "expired", "timedout")
  /\ slot' = [slot EXCEPT ![r] = "closed"]
  /\ pending' = pending \ {r}
  /\ UNCHANGED <<reqId, nextId, conn, lingering, answers, confirming, drops,
                 journal, wallet, history, signatures>>

(* Mutant: the shells are not told.                                        *)
WithdrawSilently(r) == DropReceiver(r) /\ UNCHANGED events

(* The receiver is dropped, the entry removed and the prompt cancelled.    *)
Withdraw(r) == DropReceiver(r) /\ PushEvent("confirmCancelled", r)

(* wallet.sign: refused if the wallet was locked while the prompt was up.  *)
Sign(r) ==
  /\ \/ /\ Key!CanSign
        /\ Goto(r, "approved", "signed")
        /\ signatures' = signatures \cup {PromptOf(r)}
     \/ /\ ~Key!CanSign
        /\ Goto(r, "approved", "walletLocked")
        /\ UNCHANGED signatures
  /\ UNCHANGED <<reqId, pending, slot, nextId, shellIO, journal, wallet,
                 history>>

(* The entry is added and the list serialised.  fs::write has emptied      *)
(* wallet-activity.json, or it could not open it and leaves it alone.      *)
AddEntry(r) ==
  /\ Goto(r, "signed", "recording")
  /\ nextId' = nextId + 1
  /\ activity' = Capped(Append(activity, r))
  /\ writer' = r
  /\ \/ /\ bytes' = [bytes EXCEPT ![r] = activity']
        /\ file' = Torn
        /\ saved' = activity'
        /\ behind' = FALSE
     \/ /\ behind' = TRUE
        /\ UNCHANGED <<bytes, file, saved>>
  /\ UNCHANGED <<reqId, pending, slot, shellIO, wallet, history, signatures>>

(* Mutant: the list is not locked while it is written.                     *)
BeginRecordUnlocked(r) == AddEntry(r)

(* record_wallet_activity takes the mutex, adds the entry and starts to    *)
(* overwrite the file in place.                                            *)
BeginRecord(r) == writer = NoRequest /\ AddEntry(r)

(* The write ends, its error if any is ignored, wallet.activity is pushed, *)
(* the mutex released and the signature goes back to the caller.           *)
EndRecord(r) ==
  /\ Goto(r, "recording", "done")
  /\ writer' = NoRequest
  /\ file' \in IF bytes[r] = << >> THEN {file} ELSE {bytes[r], Torn}
  /\ bytes' = [bytes EXCEPT ![r] = << >>]
  /\ PushEvent("activity", r)
  /\ UNCHANGED <<reqId, pending, slot, nextId, conn, lingering, answers,
                 confirming, drops, activity, saved, behind, wallet, history,
                 signatures>>

(* An answer is taken off the wire and handed to the given waiters.        *)
Deliver(a, waiters) ==
  /\ answers' = answers \ {a}
  /\ pending' = pending \ waiters
  /\ slot' = [r \in Requests |->
                IF r \in waiters /\ slot[r] = "empty"
                THEN IF a.approved THEN "yes" ELSE "no"
                ELSE slot[r]]
  /\ UNCHANGED <<pc, reqId, nextId, conn, lingering, events, confirming,
                 drops, journal, wallet, history, signatures>>

Waiters(a) == {r \in pending : reqId[r] = a.prompt.id}

(* Mutant: the answer releases whoever waits.                              *)
ResolveAnyone(a) == Deliver(a, pending)

(* A shell.confirmResponse reaches resolve_confirmation.  The sender is    *)
(* taken out of the map, and the answer counts if the call still listens.  *)
ResolveConfirmation(a) == Deliver(a, Waiters(a))

-----------------------------------------------------------------------------
(* Shells and their connections.                                           *)

(* A shell opens its socket; the daemon registers it.  Prompts raised      *)
(* before are not sent again.                                              *)
Connect(s) ==
  /\ s \notin conn
  /\ conn' = conn \cup {s}
  /\ UNCHANGED <<daemon, lingering, events, answers, confirming, drops,
                 journal, wallet, history, signatures>>

(* The socket of s goes away with what was queued on it.  Answers the      *)
(* daemon had already read are still handled, and calls in flight keep the *)
(* writer task, so the registration, alive for a while.                    *)
Lose(s) ==
  /\ s \in conn
  /\ drops < MaxDrops
  /\ drops' = drops + 1
  /\ conn' = conn \ {s}
  /\ lingering' \in {lingering, lingering \cup {s}}
  /\ events' = [events EXCEPT ![s] = << >>]
  /\ \E lost \in SUBSET {a \in answers : a.shell = s} : answers' = answers \ lost
  /\ orphaned' = orphaned \cup
       {r \in Requests : /\ conn = {s}
                         /\ pc[r] = "waiting"
                         /\ slot[r] = "empty"
                         /\ \A a \in answers : a.prompt.req # r}
  /\ UNCHANGED <<daemon, journal, wallet, restarts, shown, taps, signatures>>

(* The connection drops; the page, and the prompt on it, stays (rpc.ts).   *)
Disconnect(s) == Lose(s) /\ UNCHANGED confirming

(* The page is reloaded and starts with an empty overlay.                  *)
ReloadPage(s) ==
  /\ Lose(s)
  /\ confirming' = [confirming EXCEPT ![s] = NoPrompt]

(* The writer task of a dead connection ends.                              *)
WriterEnds(s) ==
  /\ s \in lingering
  /\ lingering' = lingering \ {s}
  /\ UNCHANGED <<daemon, conn, events, answers, confirming, drops, journal,
                 wallet, history, signatures>>

(* A shell handles its next event.  There is one overlay: a new prompt     *)
(* replaces the one on screen, and a cancellation clears it whatever call  *)
(* it is for.                                                              *)
HandleEvent(s) ==
  /\ events[s] # << >>
  /\ LET e == Head(events[s])
     IN  /\ confirming' =
              CASE e.kind = "confirmRequest"   -> [confirming EXCEPT ![s] = e.prompt]
                [] e.kind = "confirmCancelled" -> [confirming EXCEPT ![s] = NoPrompt]
                [] OTHER                       -> confirming
         /\ shown' = IF e.kind = "confirmRequest"
                     THEN shown \cup {e.prompt.req} ELSE shown
  /\ events' = [events EXCEPT ![s] = Tail(@)]
  /\ UNCHANGED <<daemon, conn, lingering, answers, drops, journal, wallet,
                 restarts, taps, orphaned, signatures>>

(* The user taps Approve or Reject.  The overlay closes at once; the       *)
(* answer is sent only over an open socket, and a failure is swallowed.    *)
Answer(s, approved) ==
  /\ confirming[s] # NoPrompt
  /\ LET tap == [shell |-> s, prompt |-> confirming[s], approved |-> approved]
     IN  /\ taps' = taps \cup {tap}
         /\ answers' = IF s \in conn THEN answers \cup {tap} ELSE answers
  /\ confirming' = [confirming EXCEPT ![s] = NoPrompt]
  /\ UNCHANGED <<daemon, conn, lingering, events, drops, journal, wallet,
                 restarts, shown, orphaned, signatures>>

-----------------------------------------------------------------------------
(* The wallet changes under the handlers' feet.                            *)
WalletStep ==
  /\ Key!Call
  /\ UNCHANGED <<daemon, shellIO, journal, history, signatures>>

(* The daemon dies and systemd starts it again: next_id is 1 once more,    *)
(* every connection is gone, and the activity list is what the file holds  *)
(* if it parses.  The shells keep what they show.                          *)
Restart ==
  /\ restarts < MaxRestarts
  /\ restarts' = restarts + 1
  /\ pc' = [r \in Requests |-> IF pc[r] \in Running THEN "crashed" ELSE pc[r]]
  /\ reqId' = [r \in Requests |-> 0]
  /\ pending' = {}
  /\ slot' = [r \in Requests |-> "empty"]
  /\ nextId' = 1
  /\ conn' = {}
  /\ lingering' = {}
  /\ events' = [s \in Shells |-> << >>]
  /\ answers' = {}
  /\ activity' = IF file = Torn THEN << >> ELSE file
  /\ saved' = activity'
  /\ behind' = FALSE
  /\ writer' = NoRequest
  /\ bytes' = [r \in Requests |-> << >>]
  /\ Key!Reload
  /\ UNCHANGED <<confirming, drops, file, shown, taps, orphaned, signatures>>

Handler(r) ==
  \/ SignInvalid(r) \/ SignTransaction(r) \/ Register(r) \/ Ask(r)
  \/ ReceiveAnswer(r) \/ Expire(r) \/ Withdraw(r) \/ Sign(r)
  \/ BeginRecord(r) \/ EndRecord(r)

Shell(s) ==
  \/ Connect(s) \/ Disconnect(s) \/ ReloadPage(s) \/ WriterEnds(s)
  \/ HandleEvent(s)
  \/ \E approved \in BOOLEAN : Answer(s, approved)

Next ==
  \/ \E r \in Requests : Handler(r)
  \/ \E s \in Shells : Shell(s)
  \/ \E a \in answers : ResolveConfirmation(a)
  \/ WalletStep
  \/ Restart

Spec == Init /\ [][Next]_vars

(* The runtime polls every ready task, timers fire, and a connection that  *)
(* stays up delivers.  Nothing obliges a user to tap, a shell to connect   *)
(* or the wallet to change.                                                *)
Progress(r) ==
  \/ Register(r) \/ Ask(r) \/ ReceiveAnswer(r) \/ Expire(r) \/ Withdraw(r)
  \/ Sign(r) \/ BeginRecord(r) \/ EndRecord(r)

Fairness ==
  /\ \A r \in Requests : WF_vars(Progress(r))
  /\ \A s \in Shells : WF_vars(HandleEvent(s))

FairSpec == Spec /\ Fairness

-----------------------------------------------------------------------------
TypeOK ==
  /\ pc \in [Requests -> PCs]
  /\ reqId \in [Requests -> Nat]
  /\ pending \subseteq Requests
  /\ slot \in [Requests -> {"empty", "yes", "no", "closed"}]
  /\ nextId \in Nat \ {0}
  /\ conn \subseteq Shells
  /\ lingering \subseteq Shells
  /\ activity \in Seq(Requests)
  /\ writer \in Requests \cup {NoRequest}
  /\ bytes \in [Requests -> Seq(Requests)]
  /\ Key!TypeOK
  /\ file \in Seq(Requests) \cup {Torn}
  /\ saved \in Seq(Requests)
  /\ behind \in BOOLEAN
  /\ events \in [Shells -> Seq(Events)]
  /\ answers \subseteq Taps
  /\ confirming \in [Shells -> Prompts \cup {NoPrompt}]
  /\ drops \in 0..MaxDrops
  /\ restarts \in 0..MaxRestarts
  /\ shown \subseteq Requests
  /\ taps \subseteq Taps
  /\ orphaned \subseteq Requests
  /\ signatures \subseteq Prompts

(* A tap that approves the prompt q or, if it was made on the prompt of an *)
(* earlier daemon, one that carried the same request id.                   *)
Approves(tap, q) ==
  /\ tap.approved
  /\ tap.prompt.id = q.id
  /\ tap.prompt.life = q.life => tap.prompt.req = q.req

(* sign_transaction / resolve_confirmation: every signature answers an     *)
(* approving tap on a prompt with that request's id, and a tap on a prompt *)
(* of the running daemon never signs anything but what that prompt showed. *)
SignatureAnswersTap ==
  \A g \in signatures : \E tap \in taps : Approves(tap, g)

(* "wallet.signTransaction MUST always raise a confirmation prompt on the  *)
(* device screen and MUST never sign without an affirmative user action":  *)
(* what is signed was shown to the user, who approved it.                  *)
SignedOnlyWhatWasApproved ==
  \A g \in signatures :
    \E tap \in taps : tap.approved /\ tap.prompt.req = g.req

(* pending_confirms and the handlers agree: an entry is one call that can  *)
(* still be answered, and no two calls answer to the same id.              *)
PendingIsAnswerable ==
  /\ \A r \in pending : pc[r] \in {"registered", "waiting", "expired"}
                        /\ slot[r] = "empty"
  /\ \A r, q \in pending : reqId[r] = reqId[q] => r = q

(* The calls of this life of the daemon that were recorded.                *)
Recorded == {r \in Requests : reqId[r] # 0 /\ pc[r] \in {"recording", "done"}}

(* record_wallet_activity runs before the reply: a signature given to its  *)
(* caller in this daemon's life is in the activity list, unless more than  *)
(* ActivityCap signatures have been recorded in that life.                 *)
ReleasedIsRecorded ==
  \A r \in Recorded :
    \/ \E i \in DOMAIN activity : activity[i] = r
    \/ Cardinality(Recorded) > ActivityCap

(* wallet-activity.json is rewritten in place under the mutex: when it can *)
(* be read at all it is the list in memory or, if newer entries could not  *)
(* open the file, the list of the last write that could.  No interleaving  *)
(* of two handlers puts an older list over a newer one.                    *)
DiskIsTornOrCurrent ==
  file \in {Torn, IF behind THEN saved ELSE activity}

(* CONFIRM_TIMEOUT: every call that reaches the daemon is answered, by a   *)
(* signature or a refusal, even if no user and no shell ever reacts: none  *)
(* is under way for ever.                                                  *)
EveryCallEnds == \A r \in Requests : []<>(pc[r] \notin Running)

(* wallet.confirmCancelled: the prompt of a call that timed out does not   *)
(* stay on a screen, unless the connection the cancellation was to take    *)
(* has been lost.                                                          *)
ExpiredPromptCleared ==
  \A r \in Requests, s \in Shells :
    []<>(pc[r] = "timedout" /\ confirming[s] # NoPrompt /\ drops + restarts = 0
           => confirming[s].req # r)

(* "A timeout, a refusal, or a shell that disappears mid-prompt all deny   *)
(* the request": a call that was waiting when the last shell vanished is   *)
(* not signed.  Not so: the page keeps its prompt, and a tap after it has  *)
(* reconnected signs.                                                      *)
DisappearanceDenies ==
  \A g \in signatures : g.req \notin orphaned

-----------------------------------------------------------------------------
(* Why a signature answers a tap: the inductive invariant.                 *)

(* The ids drawn in this life are distinct, and drawn before they are used.*)
IdsAreFresh ==
  /\ \A r \in Requests : reqId[r] < nextId
  /\ \A r, q \in Requests : reqId[r] # 0 /\ reqId[r] = reqId[q] => r = q
  /\ \A r \in Requests :
       /\ pc[r] \in {"idle", "checked"} => reqId[r] = 0 /\ slot[r] = "empty"
       /\ pc[r] \in Running \ {"checked"} => reqId[r] # 0

(* A prompt of the running daemon names the call that holds its id.        *)
Truthful(p) ==
  /\ p.life <= restarts
  /\ p.life = restarts => p.id # 0 /\ p.id = reqId[p.req]

PromptsAreTruthful ==
  /\ \A s \in Shells : \A i \in DOMAIN events[s] : Truthful(events[s][i].prompt)
  /\ \A s \in Shells : confirming[s] # NoPrompt => Truthful(confirming[s])
  /\ \A tap \in taps : Truthful(tap.prompt)
  /\ answers \subseteq taps

(* A handler that has a yes in hand has it from a tap.                     *)
YesAnswersTap ==
  \A r \in Requests :
    slot[r] = "yes" \/ pc[r] = "approved"
      => \E tap \in taps : Approves(tap, PromptOf(r))

ConfirmInv ==
  /\ TypeOK
  /\ IdsAreFresh
  /\ PendingIsAnswerable
  /\ PromptsAreTruthful
  /\ YesAnswersTap
  /\ SignatureAnswersTap

(* Why the file is never older than that: the mutex covers the write.      *)
RecorderHoldsLock ==
  /\ ~behind => saved = activity
  /\ \A r \in Requests :
       IF pc[r] = "recording"
       THEN writer = r /\ bytes[r] = IF behind THEN << >> ELSE activity
       ELSE bytes[r] = << >>

(* Why a released signature is in the list: the calls of this life that    *)
(* were recorded are its newest entries, until there are too many.         *)
NewestAreRecorded ==
  LET n == Len(activity)
      k == Cardinality(Recorded)
  IN  /\ IsFiniteSet(Recorded)
      /\ k <= ActivityCap =>
           k <= n /\ Recorded = {activity[i] : i \in (n - k + 1)..n}

(* What the refinement needs besides: a prompt on screen counts as shown,  *)
(* and a signature belongs to a handler that is past wallet.sign.          *)
ScreensAreShown ==
  /\ \A s \in Shells : confirming[s] # NoPrompt => confirming[s].req \in shown
  /\ \A tap \in taps : tap.prompt.req \in shown

SignersArePast ==
  \A g \in signatures : pc[g.req] \in Signing \cup {"crashed"}

-----------------------------------------------------------------------------
(* The daemon and its shells implement SigningConsent.                     *)
Verdict(r) ==
  CASE r \in {g.req : g \in signatures} -> "signed"
    [] pc[r] \in Refusals               -> "refused"
    [] OTHER                            -> "open"

Consent == INSTANCE SigningConsent WITH
  asked   <- shown,
  consent <- {tap.prompt.req : tap \in {t \in taps : t.approved}},
  verdict <- [r \in Requests |-> Verdict(r)]

(* While the first daemon runs, every step of handlers, sockets and        *)
(* screens is a step of SigningConsent or changes nothing it can see: a    *)
(* call is signed at most once and only after its own prompt was shown and *)
(* approved, and a refused call stays refused.                             *)
ImplementsConsent ==
  /\ Consent!Init
  /\ [][restarts' = 0 => Consent!Next \/ UNCHANGED Consent!vars]_vars

=============================================================================
