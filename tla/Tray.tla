-------------------------------- MODULE Tray --------------------------------
(***************************************************************************)
(* The notification tray: the daemon's list (post_notification and         *)
(* notifications in os/solweard/src/state.rs) and the shell's copy of it   *)
(* (os/shell/src/shell.ts), which is fetched once per connection and kept  *)
(* up to date by events.                                                   *)
(*                                                                         *)
(* A post updates the list under its mutex and pushes its event after      *)
(* releasing it, each call on a task of its own.  A connection's writer    *)
(* takes from the event queue and the reply queue in any order.            *)
(***************************************************************************)
EXTENDS Naturals, SequencesExt

CONSTANTS
  Notes,       \* notifications that may be posted
  Cap,         \* MAX_NOTIFICATIONS, and the shell's slice(0, 64)
  MaxRuns      \* bound on connections and on daemon lives, together

ASSUME TrayAssumption == Cap \in Nat \ {0} /\ MaxRuns \in Nat

VARIABLES
  pc,       \* each notifications.post: not yet made, in the list, pushed
            \* too, or made in an earlier life of the daemon
  list,     \* AppState::notifications, oldest first
  conn,     \* the shell is connected
  fetch,    \* its notifications.list: not yet sent, at the daemon,
            \* answered, or given up
  events,   \* notifications.posted under way to the shell, in order
  replies,  \* the answer to notifications.list, under way
  tray,     \* Shell.notifications, newest first
  runs

server == <<pc, list>>
link   == <<conn, fetch, events, replies>>
vars   == <<server, link, tray, runs>>

TypeOK ==
  /\ pc \in [Notes -> {"idle", "listed", "posted", "gone"}]
  /\ list \in Seq(Notes) /\ Len(list) <= Cap
  /\ conn \in BOOLEAN
  /\ fetch \in {"none", "due", "asked", "answered", "failed"}
  /\ events \in Seq(Notes)
  /\ replies \in Seq(Seq(Notes)) /\ Len(replies) <= 1
  /\ tray \in Seq(Notes) /\ Len(tray) <= Cap
  /\ runs \in 0..MaxRuns

Init ==
  /\ pc = [n \in Notes |-> "idle"]
  /\ list = << >>
  /\ conn = FALSE
  /\ fetch = "none"
  /\ events = << >>
  /\ replies = << >>
  /\ tray = << >>
  /\ runs = 0

-----------------------------------------------------------------------------
(* push, then drain what is over the cap.                                  *)
Newest(s) == SubSeq(s, IF Len(s) > Cap THEN Len(s) - Cap + 1 ELSE 1, Len(s))

Add(n) == Newest(Append(list, n))

(* post_notification under the mutex.                                      *)
Post(n) ==
  /\ pc[n] = "idle"
  /\ pc' = [pc EXCEPT ![n] = "listed"]
  /\ list' = Add(n)
  /\ UNCHANGED <<link, tray, runs>>

(* push_event, after it.                                                   *)
Push(n) ==
  /\ pc[n] = "listed"
  /\ pc' = [pc EXCEPT ![n] = "posted"]
  /\ events' = IF conn THEN Append(events, n) ELSE events
  /\ UNCHANGED <<list, conn, fetch, replies, tray, runs>>

(* The daemon answers notifications.list, newest first.                    *)
Serve ==
  /\ fetch = "asked" /\ replies = << >>
  /\ replies' = << Reverse(list) >>
  /\ UNCHANGED <<server, conn, fetch, events, tray, runs>>

-----------------------------------------------------------------------------
(* The socket opens: it is registered for events before any call on it is  *)
(* read, and refreshAll starts with another call.                          *)
Connect ==
  /\ ~conn /\ runs < MaxRuns
  /\ runs' = runs + 1
  /\ conn' = TRUE
  /\ fetch' = "due"
  /\ UNCHANGED <<server, events, replies, tray>>

Ask ==
  /\ fetch = "due"
  /\ fetch' = "asked"
  /\ UNCHANGED <<server, conn, events, replies, tray, runs>>

(* slice(0, 64) of a newest-first list.                                    *)
First(s) == SubSeq(s, 1, IF Len(s) > Cap THEN Cap ELSE Len(s))

(* Mutant: an event that comes before the list was fetched is dropped.     *)
UnshiftedLate(n) == IF fetch = "answered" THEN First(<<n>> \o tray) ELSE tray

(* What the shell's tray is after event n.                                 *)
Unshifted(n) == First(<<n>> \o tray)

(* The shell handles the next event.                                       *)
HandlePosted ==
  /\ events # << >>
  /\ events' = Tail(events)
  /\ tray' = Unshifted(Head(events))
  /\ UNCHANGED <<server, conn, fetch, replies, runs>>

TakeReply(items) ==
  /\ replies # << >>
  /\ tray' = items
  /\ replies' = << >>
  /\ fetch' = "answered"
  /\ UNCHANGED <<server, conn, events, runs>>

(* Mutant: the fetched list is put before what the tray shows.             *)
HandleReplyMerged == TakeReply(First(Head(replies) \o tray))

(* The shell handles the answer to its fetch: it replaces the tray.        *)
HandleReply == TakeReply(Head(replies))

(* RpcClient gives the call up; an answer that comes later is ignored.     *)
FetchFails ==
  /\ fetch = "asked"
  /\ fetch' = "failed"
  /\ replies' = << >>
  /\ UNCHANGED <<server, conn, events, tray, runs>>

Hangup ==
  /\ conn' = FALSE
  /\ fetch' = "none"
  /\ events' = << >>
  /\ replies' = << >>
  /\ UNCHANGED tray

Disconnect == conn /\ Hangup /\ UNCHANGED <<server, runs>>

(* The daemon starts again: the list is only in memory.                    *)
Restart ==
  /\ runs < MaxRuns
  /\ runs' = runs + 1
  /\ Hangup
  /\ list' = << >>
  /\ pc' = [n \in Notes |-> IF pc[n] = "idle" THEN "idle" ELSE "gone"]

Next ==
  \/ \E n \in Notes : Post(n) \/ Push(n)
  \/ Connect \/ Ask \/ Serve \/ HandlePosted \/ HandleReply \/ FetchFails
  \/ Disconnect \/ Restart

Spec == Init /\ [][Next]_vars

(* Tasks run to their end, the shell asks, and an open connection delivers.*)
Fairness ==
  /\ \A n \in Notes : WF_vars(Push(n))
  /\ WF_vars(Ask) /\ WF_vars(Serve) /\ WF_vars(HandlePosted) /\ WF_vars(HandleReply)

FairSpec == Spec /\ Fairness

-----------------------------------------------------------------------------
(* refreshNotifications: when the list has been fetched the tray holds     *)
(* nothing from before the daemon's last start, whatever events came       *)
(* before the answer.                                                      *)
TrayIsOfThisLife ==
  fetch = "answered" =>
    \A i \in DOMAIN tray : pc[tray[i]] \in {"listed", "posted"}

(* Notification event handling: one pushed while the shell is connected is *)
(* in the tray at some time, if the connection lasts.                      *)
EveryNoteAppears ==
  \A n \in Notes :
    (\E i \in DOMAIN events : events[i] = n)
      ~> (~conn \/ \E i \in DOMAIN tray : tray[i] = n)

=============================================================================
