------------------------------- MODULE DevLoop -------------------------------
(***************************************************************************)
(* What a developer sees of an edit: `solwear build --watch` and `solwear  *)
(* run` (sdk/cli/src/commands) write dist; the emulator (emulator/host)    *)
(* watches dist and tells its windows to reload the shell, which loads the *)
(* application.  A window can also switch the device profile and, in its   *)
(* cockpit, the hardware's values; the brightness stands for them here.    *)
(*                                                                         *)
(* The source is three version numbers: of the code, of the files to be    *)
(* copied, and of what findProject makes of the project: its manifest.json *)
(* and whether it has assets.  fs.watch may be late and may report several *)
(* changes as one, but loses none of a directory that stays; whether it    *)
(* follows one that is removed and made again depends on the platform.     *)
(***************************************************************************)
EXTENDS Naturals, SequencesExt

CONSTANTS
  Windows,      \* windows that show the emulator's page
  Profiles,     \* device profiles
  Flag,         \* the one of --profile
  Levels,       \* brightness settings
  Default,      \* the one a profile's hardware starts with
  Missing,      \* no such file
  MaxRuns,      \* bound: of `solwear run`
  MaxEvents     \* bound: of edits, faults, switches and controls together

ASSUME LoopAssumption ==
  /\ Flag \in Profiles /\ Default \in Levels
  /\ Missing \notin Nat
  /\ {MaxRuns, MaxEvents} \subseteq Nat

VARIABLES
  (* the command line tool *)
  source,     \* the project's directory
  edited,     \* fs.watch has a change of the source to report
  phase,      \* where each builder is; "idle" of "watch" is ~rebuilding
  plan,       \* the `project` each builder has found
  read,       \* the code esbuild has read for each builder and not yet written
  dist,
  doubt,      \* ghost: the last build failed, met another one, or a change
              \* was reported while it ran
  unseen,     \* ghost: a change that nothing watches is not built
  (* the emulator *)
  running,
  shell,      \* the one it has found: the device's, or its own reference shell
  served,     \* appManifest, which it has read from dist
  watched,    \* its fs.watch is on dist as it is now
  touched,    \* fs.watch has a change of dist to report
  timer,      \* watchApp's timer is set
  profile, bright,
  (* a window *)
  sub,        \* its /emulator/reload stream
  notices,    \* messages under way on that stream
  frame,      \* its shell: none, loading, ready, or live with the application
  seen,       \* what the shell shows
  pushed,     \* brightness events under way to the shell
  switching,  \* answers of /emulator/profile under way
  missed,     \* ghost: told to reload while its stream was down
  used        \* how much of each bound is used up

editing  == <<source, edited>>
builders == <<phase, plan, read, doubt, unseen>>
output   == <<dist, touched, watched>>
host     == <<running, shell, served, timer, profile, bright>>
stream   == <<sub, notices, missed>>
page     == <<frame, seen, pushed>>
loopVars == <<editing, builders, output, host, stream, page, switching, used>>

Builders == {"watch", "run"}
Versions == Nat \cup {Missing}
Sources  == [code: Nat, files: Nat, project: Nat]
Dist     == [bundle: Versions, static: Versions, manifest: Versions, plan: Versions]
Bounds   == {"runs", "events"}
Nothing  == [bundle |-> Missing, static |-> Missing, manifest |-> Missing, plan |-> Missing]

LoopTypeOK ==
  /\ source \in Sources /\ edited \in BOOLEAN
  /\ phase \in [Builders -> {"idle", "waiting", "emptied", "read", "bundled", "starting"}]
  /\ plan \in [Builders -> Nat] /\ read \in [Builders -> Nat]
  /\ dist \in Dist /\ served \in Versions
  /\ {doubt, unseen, running, watched, touched, timer} \subseteq BOOLEAN
  /\ shell \in {"reference", "real"}
  /\ profile \in Profiles /\ bright \in Levels
  /\ sub \in [Windows -> BOOLEAN] /\ missed \in [Windows -> BOOLEAN]
  /\ notices \in [Windows -> Nat]
  /\ frame \in [Windows -> {"none", "loading", "ready", "live"}]
  /\ seen \in [Windows -> [dist: Dist, manifest: Versions, profile: Profiles,
                           bright: Levels]]
  /\ pushed \in [Windows -> Seq(Levels)]
  /\ switching \in [Windows -> SUBSET Profiles]
  /\ used \in [Bounds -> Nat]

(* What a shell starts with.                                               *)
Blank == [dist |-> Nothing, manifest |-> Missing, profile |-> Flag, bright |-> Default]

(* `build --watch` has found its project and made its first build; no      *)
(* emulator runs.                                                          *)
LoopInit ==
  /\ source = [code |-> 0, files |-> 0, project |-> 0] /\ edited = FALSE
  /\ phase = [b \in Builders |-> "idle"]
  /\ plan = [b \in Builders |-> 0] /\ read = [b \in Builders |-> 0]
  /\ dist = [bundle |-> 0, static |-> 0, manifest |-> 0, plan |-> 0]
  /\ doubt = FALSE /\ unseen = FALSE
  /\ running = FALSE /\ shell = "reference" /\ served = Missing
  /\ watched = FALSE /\ touched = FALSE /\ timer = FALSE
  /\ profile = Flag /\ bright = Default
  /\ sub = [w \in Windows |-> FALSE] /\ missed = [w \in Windows |-> FALSE]
  /\ notices = [w \in Windows |-> 0]
  /\ frame = [w \in Windows |-> "none"]
  /\ seen = [w \in Windows |-> Blank]
  /\ pushed = [w \in Windows |-> << >>]
  /\ switching = [w \in Windows |-> {}]
  /\ used = [b \in Bounds |-> 0]

Spend(bound, max) ==
  /\ used[bound] < max
  /\ used' = [used EXCEPT ![bound] = @ + 1]

-----------------------------------------------------------------------------
(* The command line tool                                                   *)

(* The developer saves a file.                                             *)
Edit(part) ==
  /\ Spend("events", MaxEvents)
  /\ source' = [source EXCEPT ![part] = @ + 1]
  /\ edited' = TRUE
  /\ UNCHANGED <<builders, output, host, stream, page, switching>>

(* One in assets/ or another directory beside src/, of which the watch on  *)
(* the root, which is not recursive, reports nothing.                      *)
EditBelow ==
  /\ Spend("events", MaxEvents)
  /\ source' = [source EXCEPT !.files = @ + 1]
  /\ unseen' = TRUE
  /\ UNCHANGED <<edited, phase, plan, read, doubt, output, host, stream, page, switching>>

(* Mutant: a change is taken for one of dist.                              *)
NoticeNot ==
  /\ edited /\ edited' = FALSE
  /\ UNCHANGED <<source, builders, output, host, stream, page, switching, used>>

(* rebuild(), which does nothing while `rebuilding`: a change reported     *)
(* after esbuild has read the source is not built.                         *)
Notice ==
  /\ edited /\ edited' = FALSE
  /\ IF phase["watch"] = "idle"
     THEN phase' = [phase EXCEPT !["watch"] = "waiting"] /\ UNCHANGED doubt
     ELSE /\ doubt' = (doubt \/ phase["watch"] \in {"read", "bundled"})
          /\ UNCHANGED phase
  /\ UNCHANGED <<source, plan, read, unseen, output, host, stream, page, switching, used>>

(* findProject reads manifest.json and looks for assets/.                  *)
FindProject(b) == plan' = [plan EXCEPT ![b] = source.project]

(* `solwear run`, in another terminal, finds the project anew.             *)
Run ==
  /\ ~running /\ phase["run"] = "idle"
  /\ Spend("runs", MaxRuns)
  /\ phase' = [phase EXCEPT !["run"] = "waiting"]
  /\ FindProject("run")
  /\ UNCHANGED <<editing, read, doubt, unseen, output, host, stream, page, switching>>

Alone(b) == \A o \in Builders \ {b} : phase[o] \notin {"emptied", "read", "bundled"}

(* A change of dist, reported to an emulator whose watch is on it.         *)
WriteDist(d) == dist' = d /\ touched' = (touched \/ (running /\ watched))

(* buildProject up to its only await: dist is made from scratch.  A watch  *)
(* reports the removal, and may stay with the directory that was removed.  *)
Empty(b) ==
  /\ phase[b] = "waiting"
  /\ phase' = [phase EXCEPT ![b] = "emptied"]
  /\ WriteDist(Nothing)
  /\ watched' \in {watched, FALSE}
  /\ doubt' = ~Alone(b)
  /\ UNCHANGED <<editing, plan, read, unseen, host, stream, page, switching, used>>

Read(b) ==
  /\ phase[b] = "emptied"
  /\ phase' = [phase EXCEPT ![b] = "read"]
  /\ read' = [read EXCEPT ![b] = source.code]
  /\ UNCHANGED <<editing, plan, doubt, unseen, output, host, stream, page, switching, used>>

Bundle(b) ==
  /\ phase[b] = "read"
  /\ phase' = [phase EXCEPT ![b] = "bundled"]
  /\ WriteDist([dist EXCEPT !.bundle = read[b]])
  /\ read' = [read EXCEPT ![b] = 0]
  /\ doubt' = (doubt \/ ~Alone(b))
  /\ UNCHANGED <<editing, plan, unseen, watched, host, stream, page, switching, used>>

(* The files as they are, but the ones that the project the builder found  *)
(* has: its entry, and assets/ if there was one.                           *)
Staged(b) ==
  [dist EXCEPT !.static = source.files, !.manifest = source.project, !.plan = plan[b]]

(* The rest is staged; `rebuilding` is reset, or the emulator is started.  *)
Stage(b) ==
  /\ phase[b] = "bundled"
  /\ phase' = [phase EXCEPT ![b] = IF b = "run" THEN "starting" ELSE "idle"]
  /\ WriteDist(Staged(b))
  /\ doubt' = (doubt \/ ~Alone(b))
  /\ unseen' = FALSE
  /\ UNCHANGED <<editing, plan, read, watched, host, stream, page, switching, used>>

(* The build fails: before dist is touched, in esbuild, or in the middle   *)
(* or at the end of staging.                                               *)
BuildFails(b) ==
  /\ phase[b] \in {"waiting", "read", "bundled"}
  /\ Spend("events", MaxEvents)
  /\ \/ UNCHANGED <<dist, touched>>
     \/ phase[b] = "bundled" /\ WriteDist(Staged(b))
  /\ phase' = [phase EXCEPT ![b] = "idle"]
  /\ read' = [read EXCEPT ![b] = 0]
  /\ doubt' = TRUE
  /\ UNCHANGED <<editing, plan, unseen, watched, host, stream, page, switching>>

(* bin/solwear-emulator.mjs: without manifest.json in dist it dies; it     *)
(* reads that once, looks for a shell, and watches dist.                   *)
Start ==
  /\ phase["run"] = "starting"
  /\ phase' = [phase EXCEPT !["run"] = "idle"]
  /\ running' = (dist.manifest # Missing) /\ watched' = running'
  /\ served' = dist.manifest
  /\ shell' \in {"reference", "real"}
  /\ UNCHANGED <<editing, plan, read, doubt, unseen, dist, touched, timer, profile,
                 bright, stream, page, switching, used>>

-----------------------------------------------------------------------------
(* The emulator                                                            *)

(* notifyReload.                                                           *)
NotifyReload ==
  /\ notices' = [w \in Windows |-> IF sub[w] THEN notices[w] + 1 ELSE notices[w]]
  /\ missed' = [w \in Windows |-> missed[w] \/ (frame[w] # "none" /\ ~sub[w])]
  /\ UNCHANGED sub

(* Mutant: a change that comes while the timer is set clears it for good.  *)
TriggerCancels ==
  /\ touched /\ touched' = FALSE
  /\ timer' = ~timer
  /\ UNCHANGED <<editing, builders, dist, watched, running, shell, served, profile, bright,
                 stream, page, switching, used>>

(* trigger() of watchApp, which sets its timer anew.                       *)
Trigger ==
  /\ touched /\ touched' = FALSE
  /\ timer' = TRUE
  /\ UNCHANGED <<editing, builders, dist, watched, running, shell, served, profile, bright,
                 stream, page, switching, used>>

(* 120 ms after the last change.                                           *)
Fire ==
  /\ timer /\ timer' = FALSE
  /\ NotifyReload
  /\ UNCHANGED <<editing, builders, output, running, shell, served, profile, bright, page,
                 switching, used>>

(* A window's <select>, and switchProfile: the hardware is new, too, and   *)
(* what the cockpit had set is gone.                                       *)
SwitchProfile(w, p) ==
  /\ frame[w] # "none"
  /\ Spend("events", MaxEvents)
  /\ profile' = p /\ bright' = Default
  /\ switching' = [switching EXCEPT ![w] = @ \cup {p}]
  /\ NotifyReload
  /\ UNCHANGED <<editing, builders, output, running, shell, served, timer, page>>

(* Mutant: the shells are not told.                                        *)
SetBrightnessQuietly(l) ==
  /\ running
  /\ Spend("events", MaxEvents)
  /\ bright' = l
  /\ UNCHANGED <<editing, builders, output, running, shell, served, timer, profile, stream,
                 page, switching>>

(* The cockpit's slider or a shell's.  Every socket is told; the device's  *)
(* shell takes it, and the reference shell, which shows no brightness,     *)
(* does not.                                                               *)
SetBrightness(l) ==
  /\ running
  /\ Spend("events", MaxEvents)
  /\ bright' = l
  /\ pushed' = [w \in Windows |-> IF shell = "real" /\ frame[w] \in {"ready", "live"}
                                  THEN Append(pushed[w], l) ELSE pushed[w]]
  /\ UNCHANGED <<editing, builders, output, running, shell, served, timer, profile, stream,
                 frame, seen, switching>>

-----------------------------------------------------------------------------
(* A window                                                                *)

(* emulator.js asks for state.json while the shell starts to load.         *)
OpenWindow(w) ==
  /\ running /\ frame[w] = "none"
  /\ frame' = [frame EXCEPT ![w] = "loading"]
  /\ UNCHANGED <<editing, builders, output, host, stream, seen, pushed, switching,
                 used>>

(* EventSource, at the start and 500 ms after its stream has ended.        *)
Subscribe(w) ==
  /\ frame[w] # "none" /\ ~sub[w]
  /\ sub' = [sub EXCEPT ![w] = TRUE]
  /\ UNCHANGED <<editing, builders, output, host, notices, missed, page, switching,
                 used>>

LoseStream(w) ==
  /\ sub[w]
  /\ Spend("events", MaxEvents)
  /\ sub' = [sub EXCEPT ![w] = FALSE]
  /\ notices' = [notices EXCEPT ![w] = 0]
  /\ missed' = [missed EXCEPT ![w] = @ \/ notices[w] > 0]
  /\ UNCHANGED <<editing, builders, output, host, page, switching>>

(* shell.contentWindow.location.reload(): another document and socket.     *)
ReloadShell(w) ==
  /\ frame' = [frame EXCEPT ![w] = "loading"]
  /\ pushed' = [pushed EXCEPT ![w] = << >>]
  /\ seen' = [seen EXCEPT ![w] = Blank]
  /\ missed' = [missed EXCEPT ![w] = FALSE]

HandleNotice(w) ==
  /\ notices[w] > 0
  /\ notices' = [notices EXCEPT ![w] = @ - 1]
  /\ ReloadShell(w)
  /\ UNCHANGED <<editing, builders, output, host, sub, switching, used>>

(* /emulator/profile is answered, and the bezel is drawn; the answers of   *)
(* two switches come in any order.                                         *)
HandleSwitched(w, p) ==
  /\ p \in switching[w]
  /\ switching' = [switching EXCEPT ![w] = @ \ {p}]
  /\ ReloadShell(w)
  /\ UNCHANGED <<editing, builders, output, host, sub, notices, used>>

(* The device's shell has a socket; what it asks for first, and the events *)
(* from then on, come over it in order.  The reference shell has fetched   *)
(* state.json.                                                             *)
ConnectShell(w) ==
  /\ frame[w] = "loading"
  /\ frame' = [frame EXCEPT ![w] = "ready"]
  /\ seen' = [seen EXCEPT ![w].profile = profile, ![w].bright = bright,
                          ![w].manifest = served]
  /\ UNCHANGED <<editing, builders, output, host, stream, pushed, switching, used>>

(* The shell's frame loads the application from dist.                      *)
LoadApp(w) ==
  /\ frame[w] = "ready"
  /\ frame' = [frame EXCEPT ![w] = "live"]
  /\ seen' = [seen EXCEPT ![w].dist = dist]
  /\ UNCHANGED <<editing, builders, output, host, stream, pushed, switching, used>>

(* The reference shell does so by itself, the device's when the user opens *)
(* the application, whose user can also leave it.                          *)
Mount(w)   == shell = "reference" /\ LoadApp(w)
OpenApp(w) == shell = "real" /\ LoadApp(w)

LeaveApp(w) ==
  /\ shell = "real" /\ frame[w] = "live"
  /\ frame' = [frame EXCEPT ![w] = "ready"]
  /\ seen' = [seen EXCEPT ![w].dist = Nothing]
  /\ UNCHANGED <<editing, builders, output, host, stream, pushed, switching, used>>

HandleBrightness(w) ==
  /\ pushed[w] # << >>
  /\ pushed' = [pushed EXCEPT ![w] = Tail(@)]
  /\ seen' = [seen EXCEPT ![w].bright = Head(pushed[w])]
  /\ UNCHANGED <<editing, builders, output, host, stream, frame, switching, used>>

-----------------------------------------------------------------------------
Builder(b) == Empty(b) \/ Read(b) \/ Bundle(b) \/ Stage(b)

Watcher == Trigger \/ Fire

Page(w) ==
  \/ Subscribe(w) \/ HandleNotice(w) \/ ConnectShell(w) \/ Mount(w) \/ HandleBrightness(w)
  \/ \E p \in Profiles : HandleSwitched(w, p)

Developer ==
  \/ EditBelow \/ Run
  \/ \E part \in {"code", "files", "project"} : Edit(part)
  \/ \E l \in Levels : SetBrightness(l)
  \/ \E w \in Windows :
       \/ OpenWindow(w) \/ OpenApp(w) \/ LeaveApp(w)
       \/ \E p \in Profiles : SwitchProfile(w, p)

Faults ==
  \/ \E b \in Builders : BuildFails(b)
  \/ \E w \in Windows : LoseStream(w)

LoopNext ==
  \/ Notice \/ Start \/ Watcher \/ Developer \/ Faults
  \/ \E b \in Builders : Builder(b)
  \/ \E w \in Windows : Page(w)

(* Processes run, timers fire and pages handle what arrives.  Nothing is   *)
(* assumed of the developer.                                               *)
LoopFairness ==
  /\ WF_loopVars(Notice) /\ WF_loopVars(Start) /\ WF_loopVars(Watcher)
  /\ \A b \in Builders : WF_loopVars(Builder(b))
  /\ \A w \in Windows : WF_loopVars(Page(w))

LoopSpec == LoopInit /\ [][LoopNext]_loopVars /\ LoopFairness

-----------------------------------------------------------------------------
Quiet == edited = FALSE /\ \A b \in Builders :
                              phase[b] \notin {"waiting", "emptied", "read", "bundled"}

(* When no build runs and no change is still to be reported, dist is made  *)
(* of the code and the files as they are, and of the project unless that   *)
(* has changed since `build --watch` found it; but not when the last build *)
(* failed, ran beside another, or was told of a change too late, nor of    *)
(* files that nobody watches (build.ts:108-141).                           *)
WatchedBuildIsCurrent ==
  Quiet /\ ~doubt =>
    /\ dist.bundle = source.code /\ dist.manifest = source.project
    /\ ~unseen => dist.static = source.files
    /\ source.project = plan["watch"] => dist.plan = source.project

(* "Watching the project root as well picks up index.html and              *)
(* manifest.json" (build.ts:132): once a change of the manifest is built,  *)
(* dist is what the manifest says.  A rebuild takes the new file, and goes *)
(* by the project that was found at the start.                             *)
ManifestIsPickedUp == Quiet /\ ~doubt => dist.plan = dist.manifest

(* A window with nothing left to handle.                                   *)
AtRest(w) ==
  /\ ~touched /\ ~timer
  /\ frame[w] \in {"ready", "live"}
  /\ notices[w] = 0 /\ pushed[w] = << >>

ShowsHost(w) == seen[w].profile = profile /\ (shell = "real" => seen[w].bright = bright)

ShowsBuild(w) == frame[w] = "live" => seen[w].dist = dist

(* A window that has nothing left to do shows the profile the emulator     *)
(* has, in the device's shell its brightness, and of an application the    *)
(* build, if the emulator's watch has not been lost with the directory;    *)
(* unless the window was told to reload while its stream was down          *)
(* (server.mjs:328-370, emulator.js:29-35).                                *)
QuietWindowIsCurrent ==
  \A w \in Windows :
    AtRest(w) /\ ~missed[w] => ShowsHost(w) /\ (watched => ShowsBuild(w))

(* "Watch the app build output and reload the window when it changes"      *)
(* (server.mjs:354): a window at rest shows the build that has been made.  *)
(* A build removes the directory that is watched (build.ts:47), and with   *)
(* it the watch may be gone.                                               *)
RebuildIsShown ==
  Quiet => \A w \in Windows : AtRest(w) /\ ~missed[w] => ShowsBuild(w)

(* Every window gets there and stays there, whatever was edited, switched  *)
(* and controlled meanwhile, and in the reference shell the application is *)
(* loaded, too.                                                            *)
WindowFollows ==
  \A w \in Windows :
    <>[](frame[w] # "none" /\ ~missed[w] =>
           /\ frame[w] \in (IF shell = "real" THEN {"ready", "live"} ELSE {"live"})
           /\ ShowsHost(w) /\ (watched => ShowsBuild(w)))
=============================================================================
