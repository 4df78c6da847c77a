----------------------------- MODULE ShellView -----------------------------
(***************************************************************************)
(* What the shell has on screen (os/shell/src/shell.ts): the view the user *)
(* is in, the surface element that render() fills, and the one frame that  *)
(* AppHost keeps, shared between an opened application and an installed    *)
(* watchface.                                                              *)
(*                                                                         *)
(* Each handler runs to its end before the next (one JavaScript task).     *)
(* Clearing the surface takes a frame out of the document and so ends its  *)
(* page; AppHost is not told.                                              *)
(***************************************************************************)
EXTENDS Naturals

CONSTANTS
  Apps,    \* applications that may be installed
  Faces,   \* those whose type is "watchface"
  None,
  MaxLaunches   \* bound: presses of one tile that are not settled yet

ASSUME ViewAssumption ==
  /\ Faces \subseteq Apps
  /\ MaxLaunches \in Nat
  /\ None \notin Apps
  /\ Apps \cap {"empty", "builtin", "page"} = {}

VARIABLES
  view,        \* Shell.view
  host,        \* AppHost.record
  surface,     \* what the surface holds: an application's frame, the
               \* built-in watchface, a page of the shell, or nothing
  apps,        \* Shell.apps
  drawn,       \* the list the surface was last drawn from
  face,        \* localStorage[WATCHFACE_SETTING]
  confirming,  \* a confirmation is on screen
  launching    \* how many apps.launch calls of each tile are under way

viewVars == <<view, host, surface, apps, drawn, face, confirming, launching>>

Pages == {"launcher", "tray", "settings"}
Views == {"watch", "app"} \cup Pages
Directions == {"up", "down", "left", "right"}

ViewTypeOK ==
  /\ view \in Views
  /\ host \in Apps \cup {None}
  /\ surface \in Apps \cup {"empty", "builtin", "page"}
  /\ apps \subseteq Apps
  /\ drawn \subseteq Apps
  /\ face \in Faces \cup {None}
  /\ confirming \in BOOLEAN
  /\ launching \in [Apps -> Nat]

(* start: the first render finds no applications.                          *)
ViewInit ==
  /\ view = "watch"
  /\ host = None
  /\ surface = "builtin"
  /\ apps = {}
  /\ drawn = {}
  /\ face \in Faces \cup {None}
  /\ confirming = FALSE
  /\ launching = [a \in Apps |-> 0]

-----------------------------------------------------------------------------
(* selectedWatchface: the setting counts while that watchface is listed.   *)
Selected(f, list) == IF f \in list \cap Faces THEN f ELSE None

(* renderWatchface with watchface w selected, the record h in AppHost and  *)
(* s on the surface: what the host and the surface hold afterwards.        *)
Watchface(w, h, s) ==
  CASE w = None            -> [host |-> h, surface |-> "builtin"]
    [] w # None /\ h # w   -> [host |-> w, surface |-> w]
    [] w # None /\ h = w   -> [host |-> h, surface |-> s]

(* render in view v with watchface w selected: every view but "app" is     *)
(* cleared first and drawn again.                                          *)
Rendered(v, w, h, s) ==
  CASE v = "watch"   -> Watchface(w, h, "empty")
    [] v \in Pages   -> [host |-> h, surface |-> "page"]
    [] v = "app"     -> [host |-> h, surface |-> s]

Render(v, w, h) ==
  LET r == Rendered(v, w, h, surface)
  IN  /\ host' = r.host /\ surface' = r.surface
      /\ drawn' = IF v = "app" THEN drawn ELSE apps

(* go: leaving the view "app" unmounts the application.                    *)
Move(v, kept) ==
  /\ v # view
  /\ view' = v
  /\ Render(v, Selected(face, apps), kept)
  /\ UNCHANGED <<apps, face, confirming, launching>>

(* Mutant: the application is not unmounted.                               *)
GoAndKeep(v) == Move(v, host)

Go(v) == Move(v, IF view = "app" THEN None ELSE host)

(* openApp: AppHost.mount replaces whatever frame there was.               *)
OpenApp(a) ==
  /\ view' = "app"
  /\ host' = a
  /\ surface' = a
  /\ UNCHANGED <<apps, drawn, face, confirming>>

(* An apps.launch event, which any caller of the daemon may cause.         *)
HandleLaunch(a) ==
  /\ a \in apps
  /\ OpenApp(a)
  /\ UNCHANGED launching

(* The tiles the launcher has drawn: an application's calls apps.launch.   *)
PressTile(a) ==
  /\ view = "launcher" /\ a \in drawn \ Faces
  /\ launching[a] < MaxLaunches
  /\ launching' = [launching EXCEPT ![a] = @ + 1]
  /\ UNCHANGED <<view, host, surface, apps, drawn, face, confirming>>

Settle(a) == launching[a] > 0 /\ launching' = [launching EXCEPT ![a] = @ - 1]

(* The call succeeds: the shell waits for the event.                       *)
Launched(a) ==
  /\ Settle(a)
  /\ UNCHANGED <<view, host, surface, apps, drawn, face, confirming>>

(* The call fails, perhaps 15 s later: whatever the user does by then, the *)
(* tile opens its application, listed or not.                              *)
LaunchFails(a) == Settle(a) /\ OpenApp(a)

(* onGesture: nothing while a confirmation is up; in an application only   *)
(* the swipe right is the shell's.                                         *)
OnGesture(d) ==
  /\ ~confirming
  /\ \/ view = "app" /\ d = "right" /\ Go("watch")
     \/ view = "watch" /\ d = "up" /\ Go("launcher")
     \/ view = "watch" /\ d = "down" /\ Go("tray")
     \/ view = "watch" /\ d = "left" /\ Go("settings")
     \/ view \in Pages /\ d \in {"right", "down"} /\ Go("watch")

(* A key, or a swipe of the pointer over the shell or in a frame           *)
(* (trackPointer): since every arrow key is a gesture, any may come at any *)
(* time.                                                                   *)
Swipe == \E d \in Directions : OnGesture(d)

(* The button of every page, the launcher's Settings tile, and the pill of *)
(* the built-in watchface, which is there while the tray is not empty.     *)
Back == view \in Pages /\ Go("watch")

SettingsTile == view = "launcher" /\ Go("settings")

Pill == surface = "builtin" /\ view = "watch" /\ Go("tray")

(* The watchface select the settings have drawn: unmount, go and then      *)
(* render again.                                                           *)
SelectFace(f) ==
  /\ view = "settings"
  /\ f \in (drawn \cap Faces) \cup {None}
  /\ face' = f
  /\ view' = "watch"
  /\ LET once == Rendered("watch", Selected(f, apps), None, "page")
     IN  Render("watch", Selected(f, apps), once.host)
  /\ UNCHANGED <<apps, confirming, launching>>

(* refreshApps has its answer.  The render comes at once after an          *)
(* apps.changed event, but only with the last of four calls in refreshAll: *)
(* until then every other handler meets the new list and the old surface.  *)
TakeApps(list) ==
  /\ apps' = list
  /\ UNCHANGED <<view, host, surface, drawn, face, confirming, launching>>

(* Everything that renders by itself: the end of a refresh, a notification *)
(* outside the view "app", the 15 second refresh in the view "watch".      *)
Refresh ==
  /\ Render(view, Selected(face, apps), host)
  /\ UNCHANGED <<view, apps, face, confirming, launching>>

(* onSecond draws the watchface without clearing first.                    *)
OnSecond ==
  /\ view = "watch"
  /\ LET r == Watchface(Selected(face, apps), host, surface)
     IN  host' = r.host /\ surface' = r.surface
  /\ drawn' = apps
  /\ UNCHANGED <<view, apps, face, confirming, launching>>

(* A confirmation appears or goes; its overlay is beside the surface.      *)
Confirm ==
  /\ confirming' = ~confirming
  /\ UNCHANGED <<view, host, surface, apps, drawn, face, launching>>

ViewNext ==
  \/ Swipe \/ Back \/ SettingsTile \/ Pill \/ Refresh \/ OnSecond \/ Confirm
  \/ \E a \in Apps : HandleLaunch(a) \/ PressTile(a) \/ Launched(a) \/ LaunchFails(a)
  \/ \E f \in Faces \cup {None} : SelectFace(f)
  \/ \E list \in SUBSET Apps : TakeApps(list)

ViewSpec == ViewInit /\ [][ViewNext]_viewVars

-----------------------------------------------------------------------------
(* openApp / go: in the view "app" the hosted application is on screen,    *)
(* whatever is refreshed meanwhile, and outside it no opened application   *)
(* stays in AppHost, where its messages would still be served.             *)
OpenedAppIsOnScreen ==
  /\ view = "app" => host # None /\ surface = host
  /\ view # "app" => host \in Faces \cup {None}

(* renderWatchface: when the list the watch view was last drawn from has   *)
(* no selected watchface, the built-in one is on the surface, whatever has *)
(* been launched, listed or selected since the shell started.  Between the *)
(* two steps of a refresh the list itself may be ahead of the surface.     *)
BuiltinWhenNoFace ==
  view = "watch" /\ Selected(face, drawn) = None => surface = "builtin"

(* "Built-in watchface, used unless an installed watchface is selected":   *)
(* a selected, installed watchface is what the watch view shows.  Not so:  *)
(* a render of the view clears the surface, and AppHost still has it.      *)
SelectedFaceIsOnScreen ==
  view = "watch" /\ Selected(face, apps) # None => surface = Selected(face, apps)

=============================================================================
