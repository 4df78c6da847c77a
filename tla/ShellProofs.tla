----------------------------- MODULE ShellProofs -----------------------------
(***************************************************************************)
(* Proofs about the shell: its notification tray (Tray), for any set of    *)
(* notifications and any capacity, its view (ShellView), for any sets of   *)
(* applications and watchfaces, and its application bridge (AppBridge),    *)
(* for any number of applications, frames, calls and reloads.              *)
(***************************************************************************)
EXTENDS Tray, ShellView, AppBridge, TLAPS

-----------------------------------------------------------------------------
(* The notifications made since the daemon's last start.                   *)
Live == {n \in Notes : pc[n] \in {"listed", "posted"}}

(* TrayIsOfThisLife is not inductive alone: the tray is filled from what   *)
(* is under way, and that from the list.                                   *)
TrayInv ==
  /\ TypeOK
  /\ list \in Seq(Live)
  /\ events \in Seq(Live)
  /\ \A i \in DOMAIN replies : replies[i] \in Seq(Live) /\ Len(replies[i]) <= Cap
  /\ fetch = "answered" => tray \in Seq(Live)

-----------------------------------------------------------------------------
(* What the two ways of cutting a list to the capacity return.             *)
LEMMA NewestType ==
  ASSUME TrayAssumption, NEW S, NEW s \in Seq(S)
  PROVE  Newest(s) \in Seq(S) /\ Len(Newest(s)) <= Cap
BY DEF Newest, TrayAssumption

LEMMA FirstType ==
  ASSUME TrayAssumption, NEW S, NEW s \in Seq(S)
  PROVE  First(s) \in Seq(S) /\ Len(First(s)) <= Cap
BY DEF First, TrayAssumption

LEMMA ReverseType ==
  ASSUME NEW S, NEW s \in Seq(S)
  PROVE  Reverse(s) \in Seq(S) /\ Len(Reverse(s)) = Len(s)
BY DEF Reverse

LEMMA WiderSeq ==
  ASSUME NEW S, NEW T, S \subseteq T, NEW s \in Seq(S)
  PROVE  s \in Seq(T)
OBVIOUS

LEMMA EmptySeq ==
  ASSUME NEW S
  PROVE  << >> \in Seq(S) /\ Len(<< >>) = 0 /\ DOMAIN << >> = {}
OBVIOUS

LEMMA LiveNotes == Live \subseteq Notes
BY DEF Live

-----------------------------------------------------------------------------
LEMMA TrayInit == ASSUME TrayAssumption, Init PROVE TrayInv
<1>1. TypeOK
  <2>1. << >> \in Seq(Notes) /\ << >> \in Seq(Seq(Notes)) /\ Len(<< >>) = 0
    BY EmptySeq
  <2>2. /\ list \in Seq(Notes) /\ events \in Seq(Notes) /\ tray \in Seq(Notes)
        /\ Len(list) = 0 /\ Len(tray) = 0
        /\ replies \in Seq(Seq(Notes)) /\ Len(replies) = 0
    BY <2>1 DEF Init
  <2>3. /\ pc \in [Notes -> {"idle", "listed", "posted", "gone"}]
        /\ runs \in 0..MaxRuns /\ fetch = "none"
    BY DEF Init, TrayAssumption
  <2>4. conn \in BOOLEAN
    BY DEF Init
  <2> QED
    BY <2>2, <2>3, <2>4 DEF TypeOK, TrayAssumption
<1>2. << >> \in Seq(Live) /\ DOMAIN << >> = {}
  BY EmptySeq
<1> QED
  BY <1>1, <1>2 DEF Init, TrayInv

LEMMA PostKeeps == ASSUME TrayAssumption, TrayInv, NEW n \in Notes, Post(n) PROVE TrayInv'
<1>1. pc' \in [Notes -> {"idle", "listed", "posted", "gone"}]
  BY DEF Post, TrayInv, TypeOK
<1>2. Live \subseteq Live' /\ n \in Live'
  BY DEF Post, TrayInv, TypeOK, Live
<1>3. list \in Seq(Live')
  BY <1>2, WiderSeq DEF TrayInv
<1>4. Append(list, n) \in Seq(Live')
  BY <1>2, <1>3
<1>5. list' \in Seq(Live') /\ Len(list') <= Cap
  BY <1>4, NewestType DEF Post, Add
<1>6. list' \in Seq(Notes)
  BY <1>5, WiderSeq, LiveNotes DEF Live
<1>7. events' \in Seq(Live')
  BY <1>2, WiderSeq DEF Post, link, TrayInv
<1>8. \A i \in DOMAIN replies' : replies'[i] \in Seq(Live') /\ Len(replies'[i]) <= Cap
  BY <1>2, WiderSeq DEF Post, link, TrayInv
<1>9. fetch' = "answered" => tray' \in Seq(Live')
  BY <1>2, WiderSeq DEF Post, link, TrayInv
<1> QED
  BY <1>1, <1>5, <1>6, <1>7, <1>8, <1>9 DEF TrayInv, TypeOK, Post, link

LEMMA PushKeeps == ASSUME TrayAssumption, TrayInv, NEW n \in Notes, Push(n) PROVE TrayInv'
<1>1. pc' \in [Notes -> {"idle", "listed", "posted", "gone"}]
  BY DEF Push, TrayInv, TypeOK
<1>2. Live' = Live /\ n \in Live
  BY DEF Push, TrayInv, TypeOK, Live
<1>3. events' \in Seq(Live)
  BY <1>2 DEF Push, TrayInv
<1>4. events' \in Seq(Notes)
  BY <1>3, WiderSeq, LiveNotes
<1> QED
  BY <1>1, <1>2, <1>3, <1>4 DEF TrayInv, TypeOK, Push

LEMMA ServeKeeps == ASSUME TrayAssumption, TrayInv, Serve PROVE TrayInv'
<1>1. Live' = Live
  BY DEF Serve, server, Live
<1>2. /\ Reverse(list) \in Seq(Live) /\ Len(Reverse(list)) <= Cap
      /\ Reverse(list) \in Seq(Notes)
  BY ReverseType DEF TrayInv, TypeOK
<1>3. replies' \in Seq(Seq(Notes)) /\ Len(replies') = 1 /\ replies'[1] = Reverse(list)
  BY <1>2 DEF Serve
<1> QED
  BY <1>1, <1>2, <1>3 DEF TrayInv, TypeOK, Serve, server

LEMMA ConnectKeeps == ASSUME TrayAssumption, TrayInv, Connect \/ Ask PROVE TrayInv'
<1>1. Live' = Live
  BY DEF Connect, Ask, server, Live
<1>2. runs' \in 0..MaxRuns
  BY DEF Connect, Ask, TrayInv, TypeOK, TrayAssumption
<1> QED
  BY <1>1, <1>2 DEF TrayInv, TypeOK, Connect, Ask, server

LEMMA HandlePostedKeeps == ASSUME TrayAssumption, TrayInv, HandlePosted PROVE TrayInv'
<1>1. Live' = Live
  BY DEF HandlePosted, server, Live
<1>2. Head(events) \in Live /\ Tail(events) \in Seq(Live)
  BY DEF HandlePosted, TrayInv
<1>3. Head(events) \in Notes /\ events' \in Seq(Live) /\ events' \in Seq(Notes)
  BY <1>2, WiderSeq, LiveNotes DEF HandlePosted
<1>4. tray' \in Seq(Notes) /\ Len(tray') <= Cap
  <2>1. <<Head(events)>> \o tray \in Seq(Notes)
    BY <1>3 DEF TrayInv, TypeOK
  <2> QED
    BY <2>1, FirstType DEF HandlePosted, Unshifted
<1>5. ASSUME fetch = "answered" PROVE tray' \in Seq(Live)
  <2>1. <<Head(events)>> \o tray \in Seq(Live)
    BY <1>2, <1>5 DEF TrayInv
  <2> QED
    BY <2>1, FirstType DEF HandlePosted, Unshifted
<1> QED
  BY <1>1, <1>3, <1>4, <1>5 DEF TrayInv, TypeOK, HandlePosted, server

LEMMA HandleReplyKeeps == ASSUME TrayAssumption, TrayInv, HandleReply PROVE TrayInv'
<1>1. Live' = Live
  BY DEF HandleReply, TakeReply, server, Live
<1>2. 1 \in DOMAIN replies /\ Head(replies) = replies[1]
  BY DEF HandleReply, TakeReply, TrayInv, TypeOK
<1>3. tray' \in Seq(Live) /\ Len(tray') <= Cap
  BY <1>2 DEF HandleReply, TakeReply, TrayInv
<1>4. tray' \in Seq(Notes)
  BY <1>3, WiderSeq, LiveNotes
<1> QED
  BY <1>1, <1>3, <1>4 DEF TrayInv, TypeOK, HandleReply, TakeReply, server

LEMMA FetchFailsKeeps == ASSUME TrayAssumption, TrayInv, FetchFails PROVE TrayInv'
<1>1. Live' = Live
  BY DEF FetchFails, server, Live
<1> QED
  BY <1>1 DEF TrayInv, TypeOK, FetchFails, server

LEMMA HangupType ==
  ASSUME TrayInv, Hangup
  PROVE  /\ conn' \in BOOLEAN /\ fetch' = "none"
         /\ events' \in Seq(Notes) /\ events' \in Seq(Live')
         /\ replies' \in Seq(Seq(Notes)) /\ Len(replies') = 0 /\ DOMAIN replies' = {}
         /\ tray' \in Seq(Notes) /\ Len(tray') <= Cap
<1>1. /\ << >> \in Seq(Notes) /\ << >> \in Seq(Live') /\ << >> \in Seq(Seq(Notes))
      /\ Len(<< >>) = 0 /\ DOMAIN << >> = {}
  BY EmptySeq
<1> QED
  BY <1>1 DEF Hangup, TrayInv, TypeOK

LEMMA DisconnectKeeps == ASSUME TrayAssumption, TrayInv, Disconnect PROVE TrayInv'
<1>1. Live' = Live
  BY DEF Disconnect, server, Live
<1> QED
  BY <1>1, HangupType DEF TrayInv, TypeOK, Disconnect, server

LEMMA RestartKeeps == ASSUME TrayAssumption, TrayInv, Restart PROVE TrayInv'
<1>1. pc' \in [Notes -> {"idle", "listed", "posted", "gone"}]
  BY DEF Restart, TrayInv, TypeOK
<1>2. runs' \in 0..MaxRuns
  BY DEF Restart, TrayInv, TypeOK, TrayAssumption
<1>3. list' = << >> /\ list' \in Seq(Notes) /\ list' \in Seq(Live') /\ Len(list') = 0
  BY EmptySeq DEF Restart
<1> QED
  BY <1>1, <1>2, <1>3, HangupType DEF TrayInv, TypeOK, Restart, TrayAssumption

-----------------------------------------------------------------------------
(* The strengthened invariant, type correctness included.                  *)
THEOREM TrayInvariant == Spec => []TrayInv
<1>0. TrayAssumption
  BY TrayAssumption
<1>1. Init => TrayInv
  BY <1>0, TrayInit
<1>2. TrayInv /\ [Next]_vars => TrayInv'
  <2> SUFFICES ASSUME TrayInv, [Next]_vars PROVE TrayInv'
    OBVIOUS
  <2>1. CASE \E n \in Notes : Post(n)
    BY <1>0, <2>1, PostKeeps
  <2>2. CASE \E n \in Notes : Push(n)
    BY <1>0, <2>2, PushKeeps
  <2>3. CASE Connect \/ Ask
    BY <1>0, <2>3, ConnectKeeps
  <2>4. CASE Serve
    BY <1>0, <2>4, ServeKeeps
  <2>5. CASE HandlePosted
    BY <1>0, <2>5, HandlePostedKeeps
  <2>6. CASE HandleReply
    BY <1>0, <2>6, HandleReplyKeeps
  <2>7. CASE FetchFails
    BY <1>0, <2>7, FetchFailsKeeps
  <2>8. CASE Disconnect
    BY <1>0, <2>8, DisconnectKeeps
  <2>9. CASE Restart
    BY <1>0, <2>9, RestartKeeps
  <2>10. CASE UNCHANGED vars
    BY <2>10 DEF vars, server, link, TrayInv, TypeOK, Live
  <2> QED
    BY <2>1, <2>2, <2>3, <2>4, <2>5, <2>6, <2>7, <2>8, <2>9, <2>10 DEF Next
<1> QED
  BY <1>1, <1>2, PTL DEF Spec

(* refreshNotifications: once the list has been fetched, nothing from an   *)
(* earlier life of the daemon is in the tray, for any number of            *)
(* notifications and any capacity.                                         *)
THEOREM TrayLifeSound == Spec => []TrayIsOfThisLife
<1>1. TrayInv => TrayIsOfThisLife
  BY DEF TrayInv, TrayIsOfThisLife, Live
<1> QED
  BY <1>1, TrayInvariant, PTL

-----------------------------------------------------------------------------
(* The view's properties, and the types they need.                         *)
ViewInv ==
  /\ ViewTypeOK
  /\ OpenedAppIsOnScreen
  /\ BuiltinWhenNoFace

(* What a render leaves behind in each view.                               *)
LEMMA RenderEffect ==
  ASSUME ViewTypeOK, NEW v \in Views, NEW w \in Faces \cup {None},
         NEW h \in Apps \cup {None}, Render(v, w, h)
  PROVE  /\ host' \in Apps \cup {None}
         /\ surface' \in Apps \cup {"empty", "builtin", "page"}
         /\ v = "app" => host' = h /\ surface' = surface
         /\ v # "app" => host' \in {h} \cup Faces
         /\ v = "watch" /\ w = None => surface' = "builtin"
         /\ drawn' = IF v = "app" THEN drawn ELSE apps
<1>1. CASE v = "watch"
  <2>1. CASE w = None
    BY <1>1, <2>1 DEF Render, Rendered, Watchface, ViewTypeOK, Pages
  <2>2. CASE w # None /\ h # w
    BY <1>1, <2>2, ViewAssumption DEF Render, Rendered, Watchface, ViewTypeOK, Pages
  <2>3. CASE w # None /\ h = w
    BY <1>1, <2>3 DEF Render, Rendered, Watchface, ViewTypeOK, Pages
  <2> QED
    BY <2>1, <2>2, <2>3
<1>2. CASE v \in Pages
  BY <1>2 DEF Render, Rendered, ViewTypeOK, Pages
<1>3. CASE v = "app"
  BY <1>3 DEF Render, Rendered, ViewTypeOK, Pages
<1> QED
  BY <1>1, <1>2, <1>3 DEF Views

LEMMA SelectedType ==
  ASSUME NEW f \in Faces \cup {None}, NEW l
  PROVE  Selected(f, l) \in Faces \cup {None}
BY DEF Selected

LEMMA GoKeepsInv ==
  ASSUME ViewInv, NEW v \in Views \ {"app"}, Go(v)
  PROVE  ViewInv'
<1> DEFINE kept == IF view = "app" THEN None ELSE host
           w    == Selected(face, apps)
<1>1. /\ view' = v /\ Render(v, w, kept)
      /\ UNCHANGED <<apps, face, confirming, launching>>
  BY DEF Go, Move
<1>2. kept \in Faces \cup {None} /\ kept \in Apps \cup {None}
  BY DEF ViewInv, OpenedAppIsOnScreen, ViewTypeOK
<1>3. w \in Faces \cup {None}
  BY SelectedType DEF ViewInv, ViewTypeOK
<1>4. /\ host' \in Faces \cup {None} /\ host' \in Apps \cup {None}
      /\ surface' \in Apps \cup {"empty", "builtin", "page"}
      /\ v = "watch" /\ w = None => surface' = "builtin"
      /\ drawn' = apps
  <2> HIDE DEF kept, w
  <2> QED
    BY <1>1, <1>2, <1>3, RenderEffect DEF ViewInv
<1>5. Selected(face, drawn)' = w
  BY <1>1, <1>4 DEF w, Selected
<1> HIDE DEF w, kept
<1> QED
  BY <1>1, <1>4, <1>5 DEF ViewInv, ViewTypeOK, OpenedAppIsOnScreen, BuiltinWhenNoFace

(* Every handler of the shell preserves the invariant.                     *)
LEMMA ViewInvStep ==
  ASSUME ViewInv, [ViewNext]_viewVars
  PROVE  ViewInv'
<1> USE DEF ViewInv
<1>0. ViewTypeOK /\ face \in Faces \cup {None} /\ view \in Views /\ host \in Apps \cup {None}
  BY DEF ViewTypeOK
<1>1. CASE Swipe
  <2>1. \E v \in Views \ {"app"} : Go(v)
    BY <1>1 DEF Swipe, OnGesture, Pages, Views
  <2> QED
    BY <2>1, GoKeepsInv
<1>2. CASE Back \/ SettingsTile \/ Pill
  <2>1. \E v \in Views \ {"app"} : Go(v)
    BY <1>2 DEF Back, SettingsTile, Pill, Pages, Views
  <2> QED
    BY <2>1, GoKeepsInv
<1>3. CASE Refresh
  <2> DEFINE w == Selected(face, apps)
  <2>1. w \in Faces \cup {None}
    BY <1>0, SelectedType
  <2>2. Render(view, w, host) /\ UNCHANGED <<view, apps, face, confirming, launching>>
    BY <1>3 DEF Refresh
  <2>3. /\ host' \in Apps \cup {None}
        /\ surface' \in Apps \cup {"empty", "builtin", "page"}
        /\ view = "app" => host' = host /\ surface' = surface
        /\ view # "app" => host' \in {host} \cup Faces
        /\ view = "watch" /\ w = None => surface' = "builtin"
        /\ drawn' = IF view = "app" THEN drawn ELSE apps
    <3> HIDE DEF w
    <3> QED
      BY <1>0, <2>1, <2>2, RenderEffect
  <2>4. view = "watch" => Selected(face, drawn)' = w
    BY <2>2, <2>3 DEF w, Selected
  <2> HIDE DEF w
  <2> QED
    BY <2>2, <2>3, <2>4 DEF ViewTypeOK, OpenedAppIsOnScreen, BuiltinWhenNoFace
<1>4. CASE OnSecond
  <2> DEFINE w == Selected(face, apps)
  <2>1. w \in Faces \cup {None}
    BY <1>0, SelectedType
  <2>2. /\ view = "watch" /\ UNCHANGED <<view, apps, face, confirming, launching>>
        /\ drawn' = apps
        /\ host' = Watchface(w, host, surface).host
        /\ surface' = Watchface(w, host, surface).surface
    BY <1>4 DEF OnSecond
  <2> HIDE DEF w
  <2>3. /\ host' \in {host} \cup Faces
        /\ surface' \in Apps \cup {"empty", "builtin", "page"}
        /\ w = None => surface' = "builtin"
    <3>1. CASE w = None
      BY <1>0, <2>2, <3>1 DEF Watchface, ViewTypeOK
    <3>2. CASE w # None /\ host # w
      BY <1>0, <2>1, <2>2, <3>2, ViewAssumption DEF Watchface, ViewTypeOK
    <3>3. CASE w # None /\ host = w
      BY <1>0, <2>2, <3>3 DEF Watchface, ViewTypeOK
    <3> QED
      BY <3>1, <3>2, <3>3
  <2>4. host \in Faces \cup {None}
    BY <2>2 DEF OpenedAppIsOnScreen
  <2>5. host' \in Apps \cup {None}
    BY <1>0, <2>3, ViewAssumption
  <2>6. Selected(face, drawn)' = w
    BY <2>2 DEF w, Selected
  <2> QED
    BY <2>2, <2>3, <2>4, <2>5, <2>6 DEF ViewTypeOK, OpenedAppIsOnScreen, BuiltinWhenNoFace
<1>5. CASE Confirm
  BY <1>5 DEF Confirm, ViewTypeOK, OpenedAppIsOnScreen, BuiltinWhenNoFace, Selected
<1>6. ASSUME NEW a \in Apps, HandleLaunch(a) \/ LaunchFails(a) PROVE ViewInv'
  <2>1. OpenApp(a)
    BY <1>6 DEF HandleLaunch, LaunchFails
  <2>2. launching' \in [Apps -> Nat]
    BY <1>6 DEF HandleLaunch, LaunchFails, Settle, ViewTypeOK
  <2> QED
    BY <2>1, <2>2, ViewAssumption
       DEF OpenApp, ViewTypeOK, OpenedAppIsOnScreen, BuiltinWhenNoFace, Views
<1>7. ASSUME NEW a \in Apps, PressTile(a) \/ Launched(a) PROVE ViewInv'
  <2>1. launching' \in [Apps -> Nat]
    BY <1>7 DEF PressTile, Launched, Settle, ViewTypeOK
  <2>2. UNCHANGED <<view, host, surface, apps, drawn, face, confirming>>
    BY <1>7 DEF PressTile, Launched
  <2> QED
    BY <2>1, <2>2 DEF ViewTypeOK, OpenedAppIsOnScreen, BuiltinWhenNoFace, Selected
<1>8. ASSUME NEW f \in Faces \cup {None}, SelectFace(f) PROVE ViewInv'
  <2> DEFINE w == Selected(f, apps)
             once == Rendered("watch", w, None, "page")
  <2>1. w \in Faces \cup {None}
    BY SelectedType
  <2>2. once.host \in Faces \cup {None}
    BY <2>1 DEF Rendered, Watchface, Pages
  <2>3. Render("watch", w, once.host) /\ face' = f /\ view' = "watch"
        /\ UNCHANGED <<apps, confirming, launching>>
    BY <1>8 DEF SelectFace
  <2> HIDE DEF w, once
  <2>4. /\ host' \in Apps \cup {None} /\ host' \in {once.host} \cup Faces
        /\ surface' \in Apps \cup {"empty", "builtin", "page"}
        /\ w = None => surface' = "builtin"
        /\ drawn' = apps
    BY <1>0, <2>1, <2>2, <2>3, RenderEffect, ViewAssumption DEF Views
  <2>5. Selected(face, drawn)' = w
    BY <2>3, <2>4 DEF w, Selected
  <2> QED
    BY <2>2, <2>3, <2>4, <2>5
       DEF ViewTypeOK, OpenedAppIsOnScreen, BuiltinWhenNoFace, Views
<1>9. ASSUME NEW l \in SUBSET Apps, TakeApps(l) PROVE ViewInv'
  BY <1>9 DEF TakeApps, ViewTypeOK, OpenedAppIsOnScreen, BuiltinWhenNoFace, Selected
<1>10. CASE UNCHANGED viewVars
  BY <1>10 DEF viewVars, ViewTypeOK, OpenedAppIsOnScreen, BuiltinWhenNoFace, Selected
<1> QED
  BY <1>1, <1>2, <1>3, <1>4, <1>5, <1>6, <1>8, <1>9, <1>10, <1>7 DEF ViewNext

THEOREM ViewInvariant == ViewSpec => []ViewInv
<1>1. ViewInit => ViewInv
  <2>1. ViewInit => launching \in [Apps -> Nat]
    BY DEF ViewInit
  <2>2. ViewInit => /\ view \in Views /\ host \in Apps \cup {None}
                /\ surface \in Apps \cup {"empty", "builtin", "page"}
                /\ apps \subseteq Apps /\ drawn \subseteq Apps
                /\ face \in Faces \cup {None} /\ confirming \in BOOLEAN
    BY DEF ViewInit, Views
  <2>3. ViewInit => OpenedAppIsOnScreen /\ BuiltinWhenNoFace
    BY DEF ViewInit, OpenedAppIsOnScreen, BuiltinWhenNoFace
  <2> QED
    BY <2>1, <2>2, <2>3 DEF ViewInv, ViewTypeOK
<1>2. ViewInv /\ [ViewNext]_viewVars => ViewInv'
  BY ViewInvStep
<1> QED
  BY <1>1, <1>2, PTL DEF ViewSpec

(* An opened application is on screen, and one that was left is unmounted  *)
(* (openApp, go, render).                                                  *)
THEOREM OpenedAppSound == ViewSpec => []OpenedAppIsOnScreen
<1>1. ViewInv => OpenedAppIsOnScreen
  BY DEF ViewInv
<1> QED
  BY <1>1, ViewInvariant, PTL

(* When the list it was drawn from has no selected watchface, the watch    *)
(* view shows the built-in one (renderWatchface).                          *)
THEOREM BuiltinSound == ViewSpec => []BuiltinWhenNoFace
<1>1. ViewInv => BuiltinWhenNoFace
  BY DEF ViewInv
<1> QED
  BY <1>1, ViewInvariant, PTL

-----------------------------------------------------------------------------
(* Appending to a frame's queue, and taking its head off, keep its type.   *)
LEMMA PostType ==
  ASSUME BridgeTypeOK, NEW message \in Messages, PostToFrame(message)
  PROVE  toApp' \in [Frames -> Seq(Messages)]
BY DEF BridgeTypeOK, PostToFrame

LEMMA TakeType ==
  ASSUME BridgeTypeOK, NEW f \in Frames, Take(f)
  PROVE  /\ toShell' \in [Frames -> Seq(Calls)]
         /\ Head(toShell[f]) \in Calls
BY DEF BridgeTypeOK, Take

LEMMA DiscardType ==
  ASSUME BridgeTypeOK, Discard
  PROVE  /\ pending' \in [Frames -> SUBSET (1..MaxCalls)]
         /\ toApp' \in [Frames -> Seq(Messages)]
<1>1. CASE current = Absent
  BY <1>1 DEF BridgeTypeOK, Discard
<1>2. CASE current # Absent
  <2>1. << >> \in Seq(Messages)
    OBVIOUS
  <2>2. {} \in SUBSET (1..MaxCalls)
    OBVIOUS
  <2>3. /\ pending' = [pending EXCEPT ![current] = {}]
        /\ toApp' = [toApp EXCEPT ![current] = << >>]
    BY <1>2 DEF Discard
  <2>4. pending \in [Frames -> SUBSET (1..MaxCalls)] /\ toApp \in [Frames -> Seq(Messages)]
    BY DEF BridgeTypeOK
  <2>5. pending' \in [Frames -> SUBSET (1..MaxCalls)]
    BY <2>2, <2>3, <2>4
  <2> QED
    BY <2>1, <2>3, <2>4, <2>5
<1> QED
  BY <1>1, <1>2

(* What is left in a queue was in it.                                      *)
LEMMA TakeSource ==
  ASSUME BridgeTypeOK, NEW f \in Frames, Take(f),
         \A g \in Frames : \A i \in DOMAIN toShell[g] : toShell[g][i].frame = g
  PROVE  /\ Head(toShell[f]).frame = f
         /\ \A g \in Frames : \A i \in DOMAIN toShell'[g] : toShell'[g][i].frame = g
<1> DEFINE q == toShell[f]
<1>1. q \in Seq(Calls) /\ q # << >> /\ toShell \in [Frames -> Seq(Calls)]
  BY DEF BridgeTypeOK, Take
<1>2. toShell' = [toShell EXCEPT ![f] = Tail(q)]
  BY DEF Take
<1>3. Head(q) = q[1] /\ 1 \in DOMAIN q
  BY <1>1
<1>4. \A i \in DOMAIN Tail(q) : i + 1 \in DOMAIN q /\ Tail(q)[i] = q[i + 1]
  BY <1>1
<1>5. ASSUME NEW g \in Frames, NEW i \in DOMAIN toShell'[g]
      PROVE  toShell'[g][i].frame = g
  <2>1. CASE g = f
    BY <1>1, <1>2, <1>4, <1>5, <2>1
  <2>2. CASE g # f
    BY <1>1, <1>2, <1>5, <2>2
  <2> QED
    BY <2>1, <2>2
<1> QED
  BY <1>3, <1>5

(* Every message, timer and tap preserves the invariant.                   *)
LEMMA StampInvStep ==
  ASSUME StampInv, [BridgeNext]_bridgeVars
  PROVE  StampInv'
<1> USE BridgeAssumption
<1>0. BridgeTypeOK
  BY DEF StampInv
<1>1. CASE Unmount
  <2>1. /\ pending' \in [Frames -> SUBSET (1..MaxCalls)]
        /\ toApp' \in [Frames -> Seq(Messages)]
    BY <1>0, <1>1, DiscardType DEF Unmount
  <2> QED
    BY <1>1, <2>1 DEF Unmount, StampInv, BridgeTypeOK, StampIsSource, page
<1>2. ASSUME NEW f \in Frames, NEW a \in Installed, Mount(f, a)
      PROVE  StampInv'
  <2>1. /\ pending' \in [Frames -> SUBSET (1..MaxCalls)]
        /\ toApp' \in [Frames -> Seq(Messages)]
    BY <1>0, <1>2, DiscardType DEF Mount
  <2>2. app' \in [Frames -> Installed \cup {Absent}] /\ current' = f /\ app'[f] = a
    BY <1>0, <1>2 DEF Mount, BridgeTypeOK
  <2>3. \A g \in Frames : app[g] # Absent => app'[g] = app[g]
    BY <1>0, <1>2 DEF Mount, BridgeTypeOK
  <2>4. \A c \in inflight' : c \in inflight /\ c.call.frame \in Frames
    BY <1>0, <1>2 DEF Mount, BridgeTypeOK, Calls
  <2>5. \A c \in inflight' : app'[c.call.frame] # Absent /\ c.app = app'[c.call.frame]
    BY <2>3, <2>4 DEF StampInv, StampIsSource
  <2>6. UNCHANGED <<doc, loaded, ready, context, nextId, toShell, inflight, settled>>
    BY <1>2 DEF Mount, page
  <2>7. BridgeTypeOK'
    BY <1>0, <2>1, <2>2, <2>6 DEF BridgeTypeOK
  <2>8. \A g \in Frames : \A i \in DOMAIN toShell'[g] : toShell'[g][i].frame = g
    BY <2>6 DEF StampInv
  <2>9. current' # Absent => app'[current'] # Absent
    BY <2>2
  <2> QED
    BY <2>5, <2>7, <2>8, <2>9 DEF StampInv, StampIsSource
<1>3. ASSUME NEW f \in Frames, Load(f)
      PROVE  StampInv'
  <2>1. toApp' \in [Frames -> Seq(Messages)]
    BY <1>0, <1>3, PostType DEF Load, Messages
  <2> QED
    BY <1>3, <2>1 DEF Load, StampInv, BridgeTypeOK, StampIsSource, frameHost, sdk
<1>4. ASSUME NEW f \in Frames, Broker(f)
      PROVE  StampInv'
  <2>1. Take(f) /\ current = f
    BY <1>4 DEF Broker, Forward
  <2>2. toShell' \in [Frames -> Seq(Calls)] /\ Head(toShell[f]) \in Calls
    BY <1>0, <2>1, TakeType
  <2>3. /\ Head(toShell[f]).frame = f
        /\ \A g \in Frames : \A i \in DOMAIN toShell'[g] : toShell'[g][i].frame = g
    BY <1>0, <2>1, TakeSource DEF StampInv
  <2>4. app[f] \in Installed
    BY <2>1 DEF StampInv, BridgeTypeOK
  <2> QED
    BY <1>4, <2>1, <2>2, <2>3, <2>4
       DEF Broker, Forward, StampInv, BridgeTypeOK, StampIsSource, frameHost, page, sdk
<1>5. ASSUME NEW f \in Frames, Deny(f)
      PROVE  StampInv'
  <2>1. Take(f)
    BY <1>5 DEF Deny
  <2>2. toShell' \in [Frames -> Seq(Calls)] /\ Head(toShell[f]) \in Calls
    BY <1>0, <2>1, TakeType
  <2>3. \A g \in Frames : \A i \in DOMAIN toShell'[g] : toShell'[g][i].frame = g
    BY <1>0, <2>1, TakeSource DEF StampInv
  <2>4. toApp' \in [Frames -> Seq(Messages)]
    BY <1>0, <1>5, <2>2, PostType DEF Deny, Messages, Answer
  <2> QED
    BY <1>5, <2>2, <2>3, <2>4
       DEF Deny, StampInv, BridgeTypeOK, StampIsSource, frameHost, page, sdk
<1>6. ASSUME NEW f \in Frames, DropStray(f)
      PROVE  StampInv'
  <2>1. Take(f)
    BY <1>6 DEF DropStray
  <2>2. toShell' \in [Frames -> Seq(Calls)]
    BY <1>0, <2>1, TakeType
  <2>3. \A g \in Frames : \A i \in DOMAIN toShell'[g] : toShell'[g][i].frame = g
    BY <1>0, <2>1, TakeSource DEF StampInv
  <2> QED
    BY <1>6, <2>2, <2>3
       DEF DropStray, StampInv, BridgeTypeOK, StampIsSource, frameHost, page, sdk
<1>7. ASSUME NEW c \in inflight, Finish(c)
      PROVE  StampInv'
  <2>1. c.call \in Calls
    BY <1>0 DEF BridgeTypeOK
  <2>2. toApp' \in [Frames -> Seq(Messages)]
    BY <1>0, <1>7, <2>1, PostType DEF Finish, Messages, Answer
  <2> QED
    BY <1>7, <2>2 DEF Finish, End, StampInv, BridgeTypeOK, StampIsSource, frameHost, page, sdk
<1>8. ASSUME NEW f \in Frames, StartDocument(f)
      PROVE  StampInv'
  BY <1>8 DEF StartDocument, StampInv, BridgeTypeOK, StampIsSource, frameHost
<1>9. ASSUME NEW f \in Frames, SettleDetached(f)
      PROVE  StampInv'
  BY <1>9 DEF SettleDetached, Detach, StampInv, BridgeTypeOK, StampIsSource, frameHost, page, wires
<1>10. ASSUME NEW f \in Frames, Receive(f)
       PROVE  StampInv'
  <2> DEFINE m == Head(toApp[f])
  <2>1. m \in Messages /\ toApp' \in [Frames -> Seq(Messages)]
    BY <1>0, <1>10 DEF Receive, BridgeTypeOK
  <2>2. m.kind = "answer" => m.call \in Calls
    BY <2>1 DEF Messages, InitMessage
  <2>3. /\ ready' \in [Frames -> {"no", "attached", "detached"}]
        /\ context' \in [Frames -> {"no", "attached", "detached"}]
    <3>1. /\ ready \in [Frames -> {"no", "attached", "detached"}]
          /\ context \in [Frames -> {"no", "attached", "detached"}]
      BY <1>0 DEF BridgeTypeOK
    <3>2. CASE UNCHANGED <<ready, context>>
      BY <3>1, <3>2
    <3>3. CASE /\ context' = [context EXCEPT ![f] = "attached"]
               /\ ready' = [ready EXCEPT ![f] = IF @ = "no" THEN "attached" ELSE @]
      BY <3>1, <3>3
    <3> QED
      BY <1>10, <3>2, <3>3 DEF Receive
  <2>4. pending' \in [Frames -> SUBSET (1..MaxCalls)]
    <3>1. pending \in [Frames -> SUBSET (1..MaxCalls)]
      BY <1>0 DEF BridgeTypeOK
    <3>2. CASE pending' = pending
      BY <3>1, <3>2
    <3>3. CASE pending' = [pending EXCEPT ![f] = @ \ {m.call.id}]
      <4>1. pending[f] \ {m.call.id} \in SUBSET (1..MaxCalls)
        BY <3>1
      <4> QED
        BY <3>1, <3>3, <4>1
    <3> QED
      BY <1>10, <3>2, <3>3 DEF Receive
  <2>5. settled' \subseteq [call : Calls, answer : Calls]
    <3>1. CASE settled' = settled
      BY <1>0, <3>1 DEF BridgeTypeOK
    <3>2. CASE m.kind = "answer" /\ m.call.id \in pending[f]
      <4> DEFINE call == [frame |-> f, doc |-> doc[f], id |-> m.call.id]
      <4>1. call \in Calls
        BY <1>0, <3>2 DEF BridgeTypeOK, Calls
      <4>2. settled' = settled \cup {[call |-> call, answer |-> m.call]}
        BY <1>10, <3>2 DEF Receive
      <4> QED
        BY <1>0, <2>2, <3>2, <4>1, <4>2 DEF BridgeTypeOK
    <3> QED
      BY <1>10, <3>1, <3>2 DEF Receive
  <2> QED
    BY <1>10, <2>1, <2>3, <2>5, <2>4
       DEF Receive, StampInv, BridgeTypeOK, StampIsSource, frameHost, page
<1>11. ASSUME NEW f \in Frames, Call(f)
       PROVE  StampInv'
  <2> DEFINE id   == nextId[f]
             call == [frame |-> f, doc |-> doc[f], id |-> id]
             q    == Append(toShell[f], call)
  <2>1. id \in 1..MaxCalls /\ call \in Calls
    BY <1>0, <1>11 DEF Call, BridgeTypeOK, Calls
  <2>2. toShell' = [toShell EXCEPT ![f] = q] /\ toShell \in [Frames -> Seq(Calls)]
    BY <1>0, <1>11 DEF Call, BridgeTypeOK
  <2>3. q \in Seq(Calls) /\ \A i \in DOMAIN q : i \in DOMAIN toShell[f] \/ q[i] = call
    BY <2>1, <2>2
  <2>4. \A i \in DOMAIN toShell[f] : q[i] = toShell[f][i]
    BY <2>1, <2>2
  <2>5. \A i \in DOMAIN q : q[i].frame = f
    BY <2>3, <2>4 DEF StampInv
  <2>6. toShell' \in [Frames -> Seq(Calls)]
    BY <2>2, <2>3
  <2>7. \A g \in Frames : \A i \in DOMAIN toShell'[g] : toShell'[g][i].frame = g
    BY <2>2, <2>5 DEF StampInv
  <2>8. nextId' \in [Frames -> 1..(MaxCalls + 1)]
    BY <1>0, <1>11, <2>1 DEF Call, BridgeTypeOK
  <2>9. pending' \in [Frames -> SUBSET (1..MaxCalls)]
    <3>1. pending[f] \cup {id} \in SUBSET (1..MaxCalls)
      BY <1>0, <2>1 DEF BridgeTypeOK
    <3> QED
      BY <1>0, <1>11, <3>1 DEF Call, BridgeTypeOK
  <2> QED
    BY <1>11, <2>6, <2>7, <2>8, <2>9
       DEF Call, StampInv, BridgeTypeOK, StampIsSource, frameHost, page
<1>12. CASE UNCHANGED bridgeVars
  BY <1>12 DEF bridgeVars, StampInv, BridgeTypeOK, StampIsSource, frameHost, page, sdk, wires
<1> QED
  BY <1>1, <1>2, <1>3, <1>4, <1>5, <1>6, <1>7, <1>8, <1>9, <1>10, <1>11,
     <1>12 DEF BridgeNext, Page, Shell

(* However frames, documents and calls come and go, the messages in every  *)
(* queue keep their kind and the frame they came from (AppHost, Bridge).   *)
THEOREM BridgeInvariant == BridgeSpec => []StampInv
<1>1. BridgeInit => StampInv
  BY BridgeAssumption DEF BridgeInit, StampInv, BridgeTypeOK, StampIsSource
<1>2. StampInv /\ [BridgeNext]_bridgeVars => StampInv'
  BY StampInvStep
<1> QED
  BY <1>1, <1>2, PTL DEF BridgeSpec

(* The app id on every call the shell makes is that of the frame the call  *)
(* came from (AppHost.onMessage), however frames come and go.              *)
THEOREM StampSound == BridgeSpec => []StampIsSource
<1>1. StampInv => StampIsSource
  BY DEF StampInv
<1> QED
  BY <1>1, BridgeInvariant, PTL

=============================================================================
