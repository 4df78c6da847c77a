--------------------------- MODULE AppStoreProofs ---------------------------
(***************************************************************************)
(* Theorems about AppStore, for any set of jobs, processes, versions and   *)
(* names and any number of failures and deaths: what is under the          *)
(* application's own name is never half an installation, an installed      *)
(* application is never destroyed, and one process alone implements        *)
(* AppCatalog.                                                             *)
(***************************************************************************)
EXTENDS AppStore, TLAPS

(* A directory that exists has a version and a state.                      *)
LEMMA DirFacts ==
  /\ \A d \in Dirs : d # None /\ d.ver \in Versions
  /\ \A v \in Versions, st \in {"partial", "extracted", "whole"} :
       /\ Dir(v, st) \in Dirs
       /\ Dir(v, st).ver = v
       /\ Dir(v, st).state = st
  BY StoreAssumption DEF Dirs, Dir

(* What remove_dir_all leaves of a directory is nothing, or a part of it.  *)
LEMMA LeftoversType ==
  ASSUME NEW d \in Dirs \cup {None}
  PROVE  Leftovers(d) \subseteq Dirs \cup {None}
  BY DirFacts DEF Leftovers

(* Every step keeps every variable's type.                                 *)
LEMMA TypeStep == TypeOK /\ LocksAreHeld /\ [Next]_vars => TypeOK'
  <1>. SUFFICES ASSUME TypeOK, LocksAreHeld, [Next]_vars PROVE TypeOK'
    OBVIOUS
  <1>. USE StoreAssumption DEF vars, dirs, tasks, Goto
  <1>1. /\ target \in Dirs \cup {None}
        /\ staging \in [Names -> Dirs \cup {None}]
        /\ backup \in [Names -> Dirs \cup {None}]
        /\ lock \in [Procs -> Jobs \cup {Nobody}]
        /\ used \in [Procs -> SUBSET Names]
        /\ pc \in [Jobs -> {"idle"} \cup Running \cup Over]
        /\ job \in [Jobs -> [proc : Procs, ver : Versions \cup {None}, name : Names]]
        /\ had \in [Jobs -> BOOLEAN]
        /\ faults \in 0..MaxFaults
        /\ crashes \in 0..MaxCrashes
        /\ expected \in BOOLEAN
    BY DEF TypeOK
  <1>2. (Fault => faults' \in 0..MaxFaults)
        /\ \A p \in BOOLEAN : Fails(p) => faults' \in 0..MaxFaults
    BY <1>1 DEF Fault, Fails
  <1>3. \A j \in Jobs : Release(j) => lock' \in [Procs -> Jobs \cup {Nobody}]
    BY <1>1 DEF Release
  <1>4. \A j \in Jobs : Acquire(j) => lock' \in [Procs -> Jobs \cup {Nobody}]
    BY <1>1 DEF Acquire
  <1>5. \A j \in Jobs, st \in {"partial", "extracted", "whole"} :
          job[j].ver # None => Dir(job[j].ver, st) \in Dirs
    BY <1>1, DirFacts
  <1>6. \A j \in Jobs, from \in Running : GiveUp(j, from) =>
          /\ staging' \in [Names -> Dirs \cup {None}]
          /\ lock' \in [Procs -> Jobs \cup {Nobody}]
          /\ pc' \in [Jobs -> {"idle"} \cup Running \cup Over]
          /\ UNCHANGED <<used, job, had, crashes, expected>>
    <2>. SUFFICES ASSUME NEW j \in Jobs, NEW from \in Running, GiveUp(j, from)
                  PROVE  /\ staging' \in [Names -> Dirs \cup {None}]
                         /\ lock' \in [Procs -> Jobs \cup {Nobody}]
                         /\ pc' \in [Jobs -> {"idle"} \cup Running \cup Over]
                         /\ UNCHANGED <<used, job, had, crashes, expected>>
      OBVIOUS
    <2>1. job[j].name \in Names
      BY <1>1
    <2>2. Leftovers(staging[job[j].name]) \subseteq Dirs \cup {None}
      BY <1>1, <2>1, LeftoversType
    <2>. QED
      BY <1>1, <1>3, <2>1, <2>2 DEF GiveUp, Over
  <1>7. \A j \in Jobs : pc[j] \in Locked \ {"checking", "removing"} =>
          job[j].ver # None /\ \A st \in {"partial", "extracted", "whole"} :
                                  Dir(job[j].ver, st) \in Dirs
    BY <1>5 DEF LocksAreHeld
  <1>. HIDE DEF Running, Over
  <1>8. ASSUME NEW j \in Jobs, Refuse(j) \/ AskUninstall(j) PROVE TypeOK'
    <2>1. UNCHANGED <<dirs, lock, used, had, faults, crashes, expected>>
      BY <1>8 DEF Refuse, AskUninstall
    <2>2. job' \in [Jobs -> [proc : Procs, ver : Versions \cup {None}, name : Names]]
      BY <1>8, <1>1 DEF Refuse, AskUninstall
    <2>3. pc' \in [Jobs -> {"idle"} \cup Running \cup Over]
      BY <1>8, <1>1 DEF Refuse, AskUninstall, Running, Over
    <2>. QED
      BY <1>1, <2>1, <2>2, <2>3 DEF TypeOK
  <1>9. ASSUME NEW j \in Jobs, NEW p \in Procs, NEW v \in Versions, NEW n \in Names,
               AskInstall(j, p, v, n)
        PROVE  TypeOK'
    BY <1>9, <1>1 DEF AskInstall, TakeName, TypeOK, Running
  <1>10. ASSUME NEW j \in Jobs, Install(j) PROVE TypeOK'
    <2>1. Dir(job[j].ver, "partial") \in Dirs
      BY <1>10, <1>5 DEF Install
    <2>. QED
      BY <1>1, <1>4, <1>10, <2>1 DEF Install, TypeOK, Running, Locked
  <1>11. ASSUME NEW j \in Jobs, Extract(j) PROVE TypeOK'
    <2>1. Dir(job[j].ver, "extracted") \in Dirs
      BY <1>11, <1>7 DEF Extract, Locked
    <2>. QED
      BY <1>1, <1>11, <2>1 DEF Extract, TypeOK, Running, Locked
  <1>12. ASSUME NEW j \in Jobs, Record(j) PROVE TypeOK'
    <2>1. Dir(job[j].ver, "whole") \in Dirs
      BY <1>12, <1>7 DEF Record, RecordAs, Locked
    <2>. QED
      BY <1>1, <1>12, <2>1 DEF Record, RecordAs, TypeOK, Running, Locked
  <1>13. ASSUME NEW j \in Jobs, ExtractFails(j) PROVE TypeOK'
    BY <1>1, <1>2, <1>3, <1>13 DEF ExtractFails, TypeOK, Over
  <1>14. ASSUME NEW j \in Jobs, RecordFails(j) \/ StashFails(j) \/ RestoreFails(j)
        PROVE  TypeOK'
    <2>1. /\ UNCHANGED <<target, backup>>
          /\ faults' \in 0..MaxFaults
          /\ \E from \in {"recording", "stashing", "restoring"} : GiveUp(j, from)
      BY <1>14, <1>2 DEF RecordFails, StashFails, RestoreFails, CanStash, CanRestore
    <2>. QED
      BY <1>1, <1>6, <2>1 DEF TypeOK, Running, Locked
  <1>15. ASSUME NEW j \in Jobs, Stash(j) PROVE TypeOK'
    <2>1. target' \in Dirs \cup {None} /\ backup' \in [Names -> Dirs \cup {None}]
      BY <1>1, <1>15 DEF Stash, StashAs
    <2>. QED
      BY <1>1, <1>15, <2>1 DEF Stash, StashAs, TypeOK, Running, Locked
  <1>16. ASSUME NEW j \in Jobs, Activate(j) PROVE TypeOK'
    <2>1. job[j].name \in Names
      BY <1>1
    <2>. QED
      BY <1>1, <1>16, <2>1 DEF Activate, TypeOK, Running, Locked
  <1>17. ASSUME NEW j \in Jobs, ActivateFails(j) PROVE TypeOK'
    BY <1>1, <1>2, <1>17 DEF ActivateFails, CanActivate, TypeOK, Running, Locked
  <1>18. ASSUME NEW j \in Jobs, Restore(j) PROVE TypeOK'
    <2>1. job[j].name \in Names /\ GiveUp(j, "restoring")
      BY <1>1, <1>18 DEF Restore, RestoreAs
    <2>. QED
      BY <1>1, <1>6, <1>18, <2>1 DEF Restore, RestoreAs, TypeOK, Running, Locked
  <1>19. ASSUME NEW j \in Jobs, Clean(j) PROVE TypeOK'
    <2>1. job[j].name \in Names
      BY <1>1
    <2>2. Leftovers(backup[job[j].name]) \subseteq Dirs \cup {None}
      BY <1>1, <2>1, LeftoversType
    <2>3. backup' \in [Names -> Dirs \cup {None}]
      BY <1>1, <1>19, <2>1, <2>2 DEF Clean
    <2>. QED
      BY <1>1, <1>3, <1>19, <2>3 DEF Clean, TypeOK, Over
  <1>20. ASSUME NEW j \in Jobs, Uninstall(j) \/ NotInstalled(j) PROVE TypeOK'
    BY <1>1, <1>4, <1>3, <1>20 DEF Uninstall, NotInstalled, TypeOK, Running, Locked,
                                   Over
  <1>21. ASSUME NEW j \in Jobs, Remove(j) PROVE TypeOK'
    <2>1. Dir(target.ver, "partial") \in Dirs
      BY <1>1, <1>21, DirFacts DEF Remove
    <2>. QED
      BY <1>1, <1>21, <2>1 DEF Remove, TypeOK, Running, Locked
  <1>22. ASSUME NEW j \in Jobs, Removed(j) \/ RemoveFails(j) PROVE TypeOK'
    BY <1>1, <1>3, <1>2, <1>22 DEF Removed, RemoveFails, CanRemove, TypeOK, Over
  <1>23. ASSUME NEW p \in Procs, Crash(p) PROVE TypeOK'
    BY <1>1, <1>23 DEF Crash, TypeOK, Over
  <1>24. CASE UNCHANGED vars
    BY <1>24 DEF TypeOK
  <1>. QED
    BY <1>8, <1>9, <1>10, <1>11, <1>12, <1>13, <1>14, <1>15, <1>16, <1>17, <1>18, <1>19,
       <1>20, <1>21, <1>22, <1>23, <1>24 DEF Next, Begin, Step

(* Every step keeps the mutexes with the jobs at work.                     *)
LEMMA LocksStep == TypeOK /\ LocksAreHeld /\ [Next]_vars => LocksAreHeld'
  <1>. SUFFICES ASSUME TypeOK, LocksAreHeld, [Next]_vars PROVE LocksAreHeld'
    OBVIOUS
  <1>. USE StoreAssumption DEF vars, dirs, tasks, Goto, Locked, LocksAreHeld
  <1>1. /\ lock \in [Procs -> Jobs \cup {Nobody}]
        /\ pc \in [Jobs -> {"idle"} \cup Running \cup Over]
        /\ job \in [Jobs -> [proc : Procs, ver : Versions \cup {None}, name : Names]]
    BY DEF TypeOK
  <1>2. ASSUME NEW j \in Jobs, Begin(j) PROVE LocksAreHeld'
    BY <1>1, <1>2 DEF Begin, Refuse, AskUninstall, AskInstall
  <1>3. ASSUME NEW j \in Jobs, Install(j) \/ Uninstall(j) PROVE LocksAreHeld'
    <2>1. /\ lock[job[j].proc] = Nobody
          /\ lock' = [lock EXCEPT ![job[j].proc] = j]
          /\ job' = job
          /\ pc[j] = "waiting"
          /\ \A k \in Jobs : k # j => pc'[k] = pc[k]
      BY <1>1, <1>3 DEF Install, Uninstall, Acquire
    <2>2. \A k \in Jobs : pc[k] \in Locked => job[k].proc # job[j].proc
      BY <2>1
    <2>3. \/ pc'[j] = "extracting" /\ job[j].ver # None
          \/ pc'[j] = "checking" /\ job[j].ver = None
      BY <1>1, <1>3 DEF Install, Uninstall
    <2>. QED
      BY <1>1, <2>1, <2>2, <2>3
  <1>4. ASSUME NEW j \in Jobs, UNCHANGED <<lock, job>>, pc[j] \in Locked,
               \/ pc'[j] \in {"recording", "stashing", "activating", "restoring",
                              "cleaning"} /\ pc[j] \notin {"checking", "removing"}
               \/ pc'[j] = "removing" /\ pc[j] = "checking",
               \A k \in Jobs : k # j => pc'[k] = pc[k]
        PROVE  LocksAreHeld'
    BY <1>1, <1>4
  <1>5. ASSUME NEW j \in Jobs, Release(j), UNCHANGED job,
               pc[j] \in Locked, pc'[j] \in Over,
               \A k \in Jobs : k # j => pc'[k] = pc[k]
        PROVE  LocksAreHeld'
    <2>1. \A k \in Jobs : k # j /\ pc[k] \in Locked => job[k].proc # job[j].proc
      BY <1>5
    <2>. QED
      BY <1>1, <1>5, <2>1 DEF Release, Over
  <1>6. ASSUME NEW j \in Jobs,
               \/ Extract(j) \/ Record(j) \/ Stash(j) \/ Activate(j)
               \/ ActivateFails(j) \/ Remove(j)
        PROVE  LocksAreHeld'
    BY <1>1, <1>4, <1>6 DEF Extract, Record, RecordAs, Stash, StashAs, Activate,
                            ActivateFails, Remove
  <1>7. ASSUME NEW j \in Jobs,
               \/ ExtractFails(j) \/ RecordFails(j) \/ StashFails(j) \/ Restore(j)
               \/ RestoreFails(j) \/ Clean(j) \/ NotInstalled(j) \/ Removed(j)
               \/ RemoveFails(j)
        PROVE  LocksAreHeld'
    BY <1>1, <1>5, <1>7 DEF ExtractFails, RecordFails, StashFails, Restore,
         RestoreAs, RestoreFails, GiveUp, Clean, NotInstalled, Removed,
         RemoveFails, Over
  <1>8. ASSUME NEW p \in Procs, Crash(p) PROVE LocksAreHeld'
    BY <1>1, <1>8 DEF Crash, Running
  <1>9. CASE UNCHANGED vars
    BY <1>9
  <1>. QED
    BY <1>2, <1>3, <1>6, <1>7, <1>8, <1>9 DEF Next, Begin, Step

-----------------------------------------------------------------------------
(* What a job at work leaves alone: who it is and the names it was given,  *)
(* the other jobs, and the directories under other names.                  *)
LEMMA StepFrame ==
  ASSUME TypeOK, LocksAreHeld, NEW j \in Jobs, Step(j)
  PROVE  /\ UNCHANGED <<used, job, crashes>>
         /\ pc[j] \in Running
         /\ pc'[j] \in Locked \cup Over
         /\ \A k \in Jobs : k # j => pc'[k] = pc[k] /\ had'[k] = had[k]
         /\ \A n \in Names : n # job[j].name =>
              staging'[n] = staging[n] /\ backup'[n] = backup[n]
         /\ job[j].ver = None => UNCHANGED <<staging, backup>>
         /\ faults' >= faults
         /\ pc[j] # "recording" => UNCHANGED had
  <1>. USE DEF dirs, Goto, Running, Locked, Over
  <1>1. /\ staging \in [Names -> Dirs \cup {None}]
        /\ backup \in [Names -> Dirs \cup {None}]
        /\ pc \in [Jobs -> {"idle"} \cup Running \cup Over]
        /\ job \in [Jobs -> [proc : Procs, ver : Versions \cup {None}, name : Names]]
        /\ had \in [Jobs -> BOOLEAN]
        /\ faults \in Nat
    BY StoreAssumption DEF TypeOK
  <1>2. job[j].name \in Names
    BY <1>1
  <1>3. pc[j] \in Locked \ {"checking", "removing"} => job[j].ver # None
    BY DEF LocksAreHeld
  <1>4. \A from \in {"recording", "stashing", "restoring"} : GiveUp(j, from) =>
          /\ UNCHANGED <<used, job, had, crashes>>
          /\ pc[j] = from
          /\ pc'[j] = "failed"
          /\ \A k \in Jobs : k # j => pc'[k] = pc[k]
          /\ \A n \in Names : n # job[j].name => staging'[n] = staging[n]
    BY <1>1, <1>2 DEF GiveUp
  <1>5. CASE Install(j) \/ Extract(j) \/ ExtractFails(j)
    BY <1>1, <1>2, <1>3, <1>5 DEF Install, Extract, ExtractFails, Fault
  <1>6. CASE Record(j) \/ Stash(j) \/ Activate(j)
    BY <1>1, <1>2, <1>3, <1>6 DEF Record, RecordAs, Stash, StashAs, Activate
  <1>7. CASE Restore(j)
    BY <1>1, <1>2, <1>3, <1>4, <1>7 DEF Restore, RestoreAs
  <1>8. CASE RecordFails(j) \/ StashFails(j) \/ RestoreFails(j)
    <2>1. \/ faults' = faults
          \/ faults' = faults + 1
      BY <1>8 DEF RecordFails, StashFails, RestoreFails, Fails, Fault
    <2>2. /\ UNCHANGED backup
          /\ \E from \in {"recording", "stashing", "restoring"} : GiveUp(j, from)
      BY <1>8 DEF RecordFails, StashFails, RestoreFails
    <2>. QED
      BY <1>1, <1>2, <1>3, <1>4, <2>1, <2>2
  <1>9. CASE ActivateFails(j)
    BY <1>1, <1>3, <1>9 DEF ActivateFails, Fails, Fault
  <1>10. CASE Clean(j)
    BY <1>1, <1>2, <1>3, <1>10 DEF Clean
  <1>11. CASE Uninstall(j) \/ NotInstalled(j) \/ Remove(j) \/ Removed(j) \/ RemoveFails(j)
    BY <1>1, <1>11 DEF Uninstall, NotInstalled, Remove, Removed, RemoveFails,
       Fails, Fault
  <1>. QED
    BY <1>5, <1>6, <1>7, <1>8, <1>9, <1>10, <1>11 DEF Step

(* Names are given out once among live processes.                          *)
LEMMA NamesStep ==
  TypeOK /\ LocksAreHeld /\ NamesAreApart /\ [Next]_vars => NamesAreApart'
  <1>. SUFFICES ASSUME TypeOK, LocksAreHeld, NamesAreApart, [Next]_vars
                PROVE  NamesAreApart'
    OBVIOUS
  <1>. USE DEF NamesAreApart, Installs
  <1>1. /\ used \in [Procs -> SUBSET Names]
        /\ pc \in [Jobs -> {"idle"} \cup Running \cup Over]
        /\ job \in [Jobs -> [proc : Procs, ver : Versions \cup {None}, name : Names]]
    BY DEF TypeOK
  <1>2. {"idle"} \cap Running = {} /\ Over \cap Running = {} /\ "waiting" \in Running
    BY DEF Running, Over, Locked
  <1>3. ASSUME NEW j \in Jobs, Refuse(j) \/ AskUninstall(j) PROVE NamesAreApart'
    <2>1. /\ j \notin Installs'
          /\ used' = used
          /\ \A k \in Jobs : k # j => pc'[k] = pc[k] /\ job'[k] = job[k]
      BY <1>1, <1>2, <1>3 DEF Refuse, AskUninstall, Goto, Over
    <2>. QED
      BY <2>1
  <1>4. ASSUME NEW j \in Jobs, NEW p \in Procs, NEW v \in Versions, NEW n \in Names,
               AskInstall(j, p, v, n)
        PROVE  NamesAreApart'
    <2>1. /\ \A k \in Jobs : k # j => pc'[k] = pc[k] /\ job'[k] = job[k]
          /\ job'[j].proc = p /\ job'[j].name = n
          /\ n \in used'[p]
          /\ \A q \in Procs : used[q] \subseteq used'[q]
      BY <1>1, <1>4 DEF AskInstall, TakeName, Goto
    <2>2. \A k \in Installs : k # j => job[k].name # n /\ job[k].name \in used'[job[k].proc]
      BY <1>1, <1>4, <2>1 DEF AskInstall, TakeName
    <2>. QED
      BY <2>1, <2>2
  <1>5. ASSUME NEW j \in Jobs, Step(j) PROVE NamesAreApart'
    <2>1. Installs' \subseteq Installs /\ UNCHANGED <<used, job>>
      BY <1>5, <1>1, StepFrame
    <2>. QED
      BY <2>1
  <1>6. ASSUME NEW p \in Procs, Crash(p) PROVE NamesAreApart'
    <2>1. \A k \in Installs' : k \in Installs /\ job[k].proc # p
      BY <1>6, <1>1, <1>2 DEF Crash, Over
    <2>. QED
      BY <1>6, <1>1, <2>1 DEF Crash
  <1>7. CASE UNCHANGED vars
    BY <1>7 DEF vars, tasks
  <1>. QED
    BY <1>3, <1>4, <1>5, <1>6, <1>7 DEF Next, Begin

(* The staging directory of a job past its install.json is its package.    *)
LEMMA StagedStep ==
  TypeOK /\ LocksAreHeld /\ NamesAreApart /\ StagedIsWhole /\ [Next]_vars
    => StagedIsWhole'
  <1>. SUFFICES ASSUME TypeOK, LocksAreHeld, NamesAreApart, StagedIsWhole, [Next]_vars
                PROVE  StagedIsWhole'
    OBVIOUS
  <1>. USE DEF StagedIsWhole
  <1>1. /\ staging \in [Names -> Dirs \cup {None}]
        /\ pc \in [Jobs -> {"idle"} \cup Running \cup Over]
        /\ job \in [Jobs -> [proc : Procs, ver : Versions \cup {None}, name : Names]]
    BY DEF TypeOK
  <1>2. ASSUME NEW j \in Jobs, Begin(j) PROVE StagedIsWhole'
    <2>1. /\ pc'[j] \in {"waiting", "failed"}
          /\ staging' = staging
          /\ \A k \in Jobs : k # j => pc'[k] = pc[k] /\ job'[k] = job[k]
      BY <1>2, <1>1 DEF Begin, Refuse, AskUninstall, AskInstall, Goto, dirs
    <2>. QED
      BY <2>1
  <1>3. ASSUME NEW j \in Jobs, Step(j) PROVE StagedIsWhole'
    <2>1. /\ job' = job
          /\ \A k \in Jobs : k # j => pc'[k] = pc[k]
          /\ \A n \in Names : n # job[j].name => staging'[n] = staging[n]
          /\ job[j].ver = None => staging' = staging
          /\ pc[j] \in Running
      BY <1>3, StepFrame
    <2>2. ASSUME NEW k \in Jobs, k # j, pc[k] \in {"stashing", "activating"}
          PROVE  staging'[job[k].name] = staging[job[k].name]
      <3>1. k \in Installs /\ job[k].name \in Names
        BY <1>1, <2>2 DEF Installs, Running, Locked, LocksAreHeld
      <3>2. CASE job[j].ver = None
        BY <2>1, <3>2
      <3>3. CASE job[j].ver # None
        <4>1. j \in Installs
          BY <2>1, <3>3 DEF Installs
        <4>. QED
          BY <2>1, <2>2, <3>1, <4>1 DEF NamesAreApart
      <3>. QED
        BY <3>2, <3>3
    <2>3. pc'[j] \in {"stashing", "activating"} =>
            staging'[job[j].name] = Dir(job[j].ver, "whole")
      <3>0. job[j].name \in Names
        BY <1>1
      <3>1. CASE Record(j)
        BY <1>1, <3>0, <3>1 DEF Record, RecordAs
      <3>2. CASE Stash(j)
        BY <1>1, <3>2 DEF Stash, StashAs, Goto
      <3>3. CASE ~Record(j) /\ ~Stash(j)
        <4>1. pc'[j] \notin {"stashing", "activating"}
          BY <1>1, <1>3, <3>3 DEF Step, Install, Extract, ExtractFails, RecordFails,
             StashFails, Activate, ActivateFails, Restore, RestoreAs, RestoreFails,
             GiveUp, Clean, Uninstall, NotInstalled, Remove, Removed, RemoveFails,
             Goto
        <4>. QED
          BY <4>1
      <3>. QED
        BY <3>1, <3>2, <3>3
    <2>. QED
      BY <2>1, <2>2, <2>3
  <1>4. ASSUME NEW p \in Procs, Crash(p) PROVE StagedIsWhole'
    BY <1>4, <1>1 DEF Crash, dirs
  <1>5. CASE UNCHANGED vars
    BY <1>5 DEF vars, dirs, tasks
  <1>. QED
    BY <1>2, <1>3, <1>4, <1>5 DEF Next

-----------------------------------------------------------------------------
(* Jobs of one process do not work at the same time.                       *)
LEMMA OneAtATime ==
  ASSUME LocksAreHeld, NEW j \in Jobs, NEW k \in Jobs,
         pc[j] \in Locked, pc[k] \in Locked, job[j].proc = job[k].proc
  PROVE  j = k
  BY DEF LocksAreHeld

(* Two installs at work do not share a backup.                             *)
LEMMA BackupsAreApart ==
  ASSUME LocksAreHeld, NamesAreApart, NEW j \in Jobs, NEW k \in Jobs, j # k,
         pc[j] \in Locked \ {"checking", "removing"},
         pc[k] \in Locked \ {"checking", "removing"}
  PROVE  job[j].name # job[k].name
  BY DEF LocksAreHeld, NamesAreApart, Installs, Running

(* Ruins that are where they were stay accounted for.                      *)
LEMMA RuinsStay ==
  ASSUME RuinsAreUninstalls, target' = target, Holding' \subseteq Holding,
         \A k \in Holding' : backup'[job'[k].name] = backup[job[k].name],
         Uninstalls # {} => Uninstalls' # {},
         Left => Left'
  PROVE  RuinsAreUninstalls'
  BY DEF RuinsAreUninstalls, Ruin

(* Only Removed ends an uninstall without a trace.                         *)
LEMMA UninstallsStay ==
  ASSUME TypeOK, LocksAreHeld, [Next]_vars
  PROVE  /\ Left => Left'
         /\ Uninstalls # {} => Uninstalls' # {} \/ \E j \in Jobs : Removed(j)
  <1>. USE DEF Left, Uninstalls
  <1>1. /\ pc \in [Jobs -> {"idle"} \cup Running \cup Over]
        /\ job \in [Jobs -> [proc : Procs, ver : Versions \cup {None}, name : Names]]
    BY DEF TypeOK
  <1>2. ASSUME NEW j \in Jobs, Begin(j) PROVE Uninstalls \subseteq Uninstalls' /\ (Left => Left')
    <2>1. /\ pc[j] = "idle"
          /\ \A k \in Jobs : k # j => pc'[k] = pc[k] /\ job'[k] = job[k]
      BY <1>2, <1>1 DEF Begin, Refuse, AskUninstall, AskInstall, Goto
    <2>. QED
      BY <2>1
  <1>3. ASSUME NEW j \in Jobs, Step(j)
        PROVE  /\ Left => Left'
               /\ Uninstalls \subseteq Uninstalls' \/ Removed(j)
    <2>1. /\ job' = job
          /\ \A k \in Jobs : k # j => pc'[k] = pc[k]
          /\ pc[j] \in Running
      BY <1>3, StepFrame
    <2>2. pc[j] \notin {"botched", "dead"}
      BY <2>1 DEF Running, Locked
    <2>3. pc[j] = "removing" => Removed(j) \/ pc'[j] = "botched"
      BY <1>3, <1>1 DEF Step, Install, Extract, ExtractFails, Record, RecordAs,
         RecordFails, Stash, StashAs, StashFails, Activate, ActivateFails, Restore,
         RestoreAs, RestoreFails, GiveUp, Clean, Uninstall, NotInstalled, Remove,
         RemoveFails, Goto
    <2>. QED
      BY <2>1, <2>2, <2>3
  <1>4. ASSUME NEW p \in Procs, Crash(p)
        PROVE  Uninstalls \subseteq Uninstalls' /\ (Left => Left')
    <2>1. \A k \in Jobs : pc'[k] = "dead" \/ pc'[k] = pc[k]
      BY <1>4, <1>1 DEF Crash
    <2>2. job' = job /\ \A k \in Jobs : pc[k] \in {"botched", "dead"} => pc'[k] = pc[k]
      BY <1>4, <1>1 DEF Crash, Running, Locked
    <2>. QED
      BY <2>1, <2>2
  <1>5. CASE UNCHANGED vars
    BY <1>5 DEF vars, tasks
  <1>. QED
    BY <1>2, <1>3, <1>4, <1>5 DEF Next

(* A ruined directory is always an uninstall's.                            *)
LEMMA RuinsStep ==
  /\ TypeOK /\ LocksAreHeld /\ NamesAreApart /\ StagedIsWhole
  /\ RuinsAreUninstalls
  /\ [Next]_vars
  => RuinsAreUninstalls'
  <1>. SUFFICES ASSUME TypeOK, LocksAreHeld, NamesAreApart, StagedIsWhole,
                       RuinsAreUninstalls, [Next]_vars
                PROVE  RuinsAreUninstalls'
    OBVIOUS
  <1>. USE DEF Goto
  <1>1. /\ target \in Dirs \cup {None}
        /\ staging \in [Names -> Dirs \cup {None}]
        /\ backup \in [Names -> Dirs \cup {None}]
        /\ pc \in [Jobs -> {"idle"} \cup Running \cup Over]
        /\ job \in [Jobs -> [proc : Procs, ver : Versions \cup {None}, name : Names]]
        /\ had \in [Jobs -> BOOLEAN]
    BY DEF TypeOK
  <1>2. /\ Left => Left'
        /\ Uninstalls # {} => Uninstalls' # {} \/ \E j \in Jobs : Removed(j)
    BY UninstallsStay
  <1>3. \A j \in Holding : pc[j] \in Locked \ {"checking", "removing"}
    BY DEF Holding, Locked
  <1>4. ASSUME NEW j \in Jobs, Step(j), NEW k \in Holding, k # j
        PROVE  /\ job'[k] = job[k]
               /\ backup'[job[k].name] = backup[job[k].name]
    <2>1. /\ job' = job
          /\ pc[j] \in Running
          /\ \A n \in Names : n # job[j].name => backup'[n] = backup[n]
          /\ job[j].ver = None => backup' = backup
      BY <1>4, StepFrame
    <2>2. k \in Installs /\ job[k].name \in Names
      BY <1>4, <1>3, <1>1 DEF Holding, Installs, LocksAreHeld, Running
    <2>3. CASE job[j].ver # None
      <3>1. j \in Installs
        BY <2>1, <2>3 DEF Installs
      <3>. QED
        BY <1>4, <2>1, <2>2, <3>1 DEF NamesAreApart
    <2>. QED
      BY <2>1, <2>3
  <1>5. ASSUME NEW j \in Jobs, Step(j) PROVE Holding' \subseteq Holding \cup {j}
    BY <1>5, StepFrame DEF Holding
  <1>6. ASSUME NEW j \in Jobs, Begin(j) PROVE RuinsAreUninstalls'
    <2>1. /\ pc[j] = "idle" /\ pc'[j] \in {"waiting", "failed"}
          /\ UNCHANGED <<target, backup, had>>
          /\ \A k \in Jobs : k # j => pc'[k] = pc[k] /\ job'[k] = job[k]
      BY <1>6, <1>1 DEF Begin, Refuse, AskUninstall, AskInstall, dirs
    <2>2. ~ \E k \in Jobs : Removed(k)
      BY <1>6, <2>1, <1>1 DEF Removed
    <2>. QED
      BY <1>2, <2>1, <2>2, RuinsStay DEF Holding
  <1>7. ASSUME NEW j \in Jobs, Step(j), target' = target, ~Removed(j),
               j \in Holding' => j \in Holding /\ backup' = backup
        PROVE  RuinsAreUninstalls'
    <2>1. \A k \in Holding' : backup'[job'[k].name] = backup[job[k].name]
      BY <1>7, <1>4, <1>5, StepFrame
    <2>2. ~ \E k \in Jobs : Removed(k)
      BY <1>7, <1>1, StepFrame DEF Removed
    <2>. QED
      BY <1>7, <1>5, <1>2, <2>1, <2>2, RuinsStay
  <1>8. ASSUME NEW j \in Jobs, Stash(j), had[j] PROVE RuinsAreUninstalls'
    <2>1. /\ job[j].name \in Names /\ pc[j] = "stashing" /\ job' = job
          /\ target # None /\ target' = None
          /\ backup'[job[j].name] = target
      BY <1>8, <1>1 DEF Stash, StashAs, CanStash
    <2>2. Step(j) /\ j \notin Holding /\ UNCHANGED <<had, job>>
      BY <1>8, <2>1 DEF Step, Stash, StashAs, Holding
    <2>3. ~ \E k \in Jobs : Removed(k)
      BY <1>1, <2>1, <2>2, StepFrame DEF Removed
    <2>4. \A k \in Holding' : \/ k = j /\ backup'[job'[k].name] = target
                              \/ /\ k \in Holding
                                 /\ backup'[job'[k].name] = backup[job[k].name]
      BY <1>4, <1>5, <2>1, <2>2
    <2>. QED
      BY <1>2, <2>1, <2>3, <2>4 DEF RuinsAreUninstalls, Ruin
  <1>9. ASSUME NEW j \in Jobs, Activate(j) PROVE RuinsAreUninstalls'
    <2>1. /\ job[j].name \in Names /\ pc[j] = "activating"
          /\ target' = Dir(job[j].ver, "whole")
          /\ pc'[j] = "cleaning"
      BY <1>9, <1>1 DEF Activate, StagedIsWhole
    <2>2. Step(j) /\ j \notin Holding'
      BY <1>9, <2>1 DEF Step, Holding
    <2>3. ~ \E k \in Jobs : Removed(k)
      BY <1>1, <2>1, <2>2, StepFrame DEF Removed
    <2>4. \A k \in Holding' : /\ k \in Holding
                              /\ backup'[job'[k].name] = backup[job[k].name]
      BY <1>4, <1>5, <2>2
    <2>5. ~Ruin(target')
      BY <2>1 DEF Ruin, Dir
    <2>. QED
      BY <1>2, <2>3, <2>4, <2>5 DEF RuinsAreUninstalls, Ruin
  <1>10. ASSUME NEW j \in Jobs, Restore(j) PROVE RuinsAreUninstalls'
    <2>1. /\ job[j].name \in Names /\ pc[j] = "restoring" /\ had[j]
          /\ target = None
          /\ target' = backup[job[j].name]
          /\ pc'[j] = "failed"
      BY <1>10, <1>1 DEF Restore, RestoreAs, CanRestore, GiveUp
    <2>2. Step(j) /\ j \in Holding /\ j \notin Holding'
      BY <1>10, <2>1 DEF Step, Holding
    <2>3. ~ \E k \in Jobs : Removed(k)
      BY <1>1, <2>1, <2>2, StepFrame DEF Removed
    <2>4. \A k \in Holding' : /\ k \in Holding /\ k # j
                              /\ backup'[job'[k].name] = backup[job[k].name]
      BY <1>4, <1>5, <2>2
    <2>. QED
      BY <1>2, <2>1, <2>2, <2>3, <2>4 DEF RuinsAreUninstalls, Ruin
  <1>11. ASSUME NEW j \in Jobs, Remove(j) PROVE RuinsAreUninstalls'
    <2>1. /\ pc[j] = "checking" /\ pc'[j] = "removing" /\ job' = job
          /\ target' = Dir(target.ver, "partial")
          /\ UNCHANGED <<backup, had>>
          /\ \A k \in Jobs : k # j => pc'[k] = pc[k]
      BY <1>11, <1>1 DEF Remove
    <2>2. j \in Uninstalls'
      BY <2>1 DEF Uninstalls, LocksAreHeld
    <2>3. Holding' = Holding
      BY <2>1 DEF Holding
    <2>4. \A k \in Uninstalls : pc[k] # "removing"
      <3>. SUFFICES ASSUME NEW k \in Jobs, pc[k] = "removing" PROVE FALSE
        BY DEF Uninstalls
      <3>1. job[j].proc = job[k].proc
        BY <2>1 DEF LocksAreHeld
      <3>. QED
        BY <2>1, <3>1, OneAtATime DEF Locked
    <2>5. ~Left' => Uninstalls = {}
      BY <1>2, <2>4 DEF Left
    <2>6. ~Left' => \A k \in Holding : ~Ruin(backup[job[k].name])
      BY <2>5 DEF RuinsAreUninstalls
    <2>7. target'.state = "partial"
      BY <2>1 DEF Dir
    <2>. QED
      BY <2>1, <2>2, <2>3, <2>6, <2>7 DEF RuinsAreUninstalls, Ruin
  <1>12. ASSUME NEW j \in Jobs, Removed(j) PROVE RuinsAreUninstalls'
    <2>1. /\ pc[j] = "removing" /\ pc'[j] = "done" /\ job' = job
          /\ Ruin(target) /\ target' = None
          /\ UNCHANGED <<backup, had>>
          /\ \A k \in Jobs : k # j => pc'[k] = pc[k]
      BY <1>12, <1>1 DEF Removed, CanRemove, Ruin
    <2>2. Holding' = Holding
      BY <2>1 DEF Holding
    <2>3. CASE Left
      <3>1. Left' /\ Uninstalls' # {}
        BY <1>2, <2>3 DEF Left
      <3>. QED
        BY <2>1, <2>2, <3>1 DEF RuinsAreUninstalls, Ruin
    <2>4. CASE ~Left
      <3>1. \A k \in Holding : ~Ruin(backup[job[k].name])
        BY <2>1, <2>4 DEF RuinsAreUninstalls
      <3>. QED
        BY <2>1, <2>2, <3>1 DEF RuinsAreUninstalls, Ruin
    <2>. QED
      BY <2>3, <2>4
  <1>13. ASSUME NEW j \in Jobs, Step(j),
               ~(Stash(j) /\ had[j]), ~Activate(j), ~Restore(j), ~Remove(j), ~Removed(j)
        PROVE  RuinsAreUninstalls'
    <2>1. target' = target
      BY <1>13 DEF Step, Install, Extract, ExtractFails, Record, RecordAs,
         RecordFails, Stash, StashAs, StashFails, ActivateFails, RestoreFails,
         Clean, Uninstall, NotInstalled, RemoveFails, dirs
    <2>2. j \in Holding' => j \in Holding /\ backup' = backup
      BY <1>13, <1>1 DEF Step, Install, Extract, ExtractFails, Record, RecordAs,
         RecordFails, Stash, StashAs, StashFails, ActivateFails, RestoreFails,
         GiveUp, Clean, Uninstall, NotInstalled, RemoveFails, dirs, Holding
    <2>. QED
      BY <1>7, <1>13, <2>1, <2>2
  <1>14. ASSUME NEW p \in Procs, Crash(p) PROVE RuinsAreUninstalls'
    <2>1. /\ UNCHANGED <<target, backup, job, had>>
          /\ \A k \in Jobs : pc'[k] = "dead" \/ pc'[k] = pc[k]
      BY <1>14, <1>1 DEF Crash, dirs
    <2>2. ~ \E k \in Jobs : Removed(k)
      BY <1>1, <2>1 DEF Removed
    <2>. QED
      BY <1>2, <2>1, <2>2, RuinsStay DEF Holding
  <1>15. CASE UNCHANGED vars
    <2>1. UNCHANGED <<target, backup, job, had, pc>>
      BY <1>15 DEF vars, dirs, tasks
    <2>2. ~ \E k \in Jobs : Removed(k)
      BY <1>1, <2>1 DEF Removed
    <2>. QED
      BY <1>2, <2>1, <2>2, RuinsStay DEF Holding
  <1>. QED
    BY <1>6, <1>8, <1>9, <1>10, <1>11, <1>12, <1>13, <1>14, <1>15 DEF Next

-----------------------------------------------------------------------------
(* An installed application keeps a whole copy that nobody is about to     *)
(* clean away.                                                             *)
LEMMA CopyStep ==
  /\ TypeOK /\ LocksAreHeld /\ NamesAreApart /\ StagedIsWhole
  /\ CopyIsSafe
  /\ [Next]_vars
  => CopyIsSafe'
  <1>. SUFFICES ASSUME TypeOK, LocksAreHeld, NamesAreApart, StagedIsWhole,
                       CopyIsSafe, [Next]_vars
                PROVE  CopyIsSafe'
    OBVIOUS
  <1>. USE DEF Goto
  <1>1. /\ target \in Dirs \cup {None}
        /\ staging \in [Names -> Dirs \cup {None}]
        /\ backup \in [Names -> Dirs \cup {None}]
        /\ pc \in [Jobs -> {"idle"} \cup Running \cup Over]
        /\ job \in [Jobs -> [proc : Procs, ver : Versions \cup {None}, name : Names]]
        /\ had \in [Jobs -> BOOLEAN]
    BY DEF TypeOK
  <1>2. ASSUME expected' => expected, target' = target, backup' = backup,
               \A n \in Names : Cleaned(n)' => Cleaned(n)
        PROVE  CopyIsSafe'
    BY <1>2 DEF CopyIsSafe
  <1>3. ASSUME NEW j \in Jobs, Begin(j) PROVE CopyIsSafe'
    <2>1. /\ pc'[j] \in {"waiting", "failed"}
          /\ UNCHANGED <<target, backup, had, expected>>
          /\ \A k \in Jobs : k # j => pc'[k] = pc[k] /\ job'[k] = job[k]
      BY <1>3, <1>1 DEF Begin, Refuse, AskUninstall, AskInstall, dirs
    <2>. QED
      BY <1>2, <2>1 DEF Cleaned
  <1>4. ASSUME NEW j \in Jobs, Step(j), ~Activate(j), NEW n \in Names, Cleaned(n)'
        PROVE  Cleaned(n)
    <2>1. /\ job' = job
          /\ \A k \in Jobs : k # j => pc'[k] = pc[k] /\ had'[k] = had[k]
      BY <1>4, StepFrame
    <2>2. pc'[j] # "cleaning"
      BY <1>4, <1>1 DEF Step, Install, Extract, ExtractFails, Record, RecordAs,
         RecordFails, Stash, StashAs, StashFails, ActivateFails, Restore, RestoreAs,
         RestoreFails, GiveUp, Clean, Uninstall, NotInstalled, Remove, Removed,
         RemoveFails
    <2>. QED
      BY <1>4, <2>1, <2>2 DEF Cleaned
  <1>5. ASSUME NEW j \in Jobs, Activate(j) PROVE CopyIsSafe'
    <2>1. target' = Dir(job[j].ver, "whole") /\ job[j].ver \in Versions
      BY <1>5, <1>1 DEF Activate, StagedIsWhole, LocksAreHeld, Locked
    <2>2. target' # None /\ target'.state = "whole"
      BY <2>1, DirFacts
    <2>. QED
      BY <2>2 DEF CopyIsSafe
  <1>6. ASSUME NEW j \in Jobs, Stash(j), had[j] PROVE CopyIsSafe'
    <2>1. /\ job[j].name \in Names /\ pc[j] = "stashing" /\ pc'[j] = "activating"
          /\ job' = job /\ had' = had /\ expected' = expected
          /\ backup[job[j].name] = None
          /\ backup' = [backup EXCEPT ![job[j].name] = target]
      BY <1>6, <1>1 DEF Stash, StashAs, CanStash
    <2>2. Step(j) /\ ~Activate(j)
      BY <1>6, <2>1 DEF Step, Activate
    <2>3. ~Cleaned(job[j].name)
      <3>. SUFFICES ASSUME NEW k \in Jobs, pc[k] = "cleaning", job[k].name = job[j].name
                    PROVE  FALSE
        BY DEF Cleaned
      <3>. QED
        BY <2>1, BackupsAreApart DEF Locked
    <2>. QED
      BY <1>1, <1>4, <2>1, <2>2, <2>3 DEF CopyIsSafe
  <1>7. ASSUME NEW j \in Jobs, Restore(j) PROVE CopyIsSafe'
    <2>1. /\ job[j].name \in Names /\ pc[j] = "restoring" /\ pc'[j] = "failed"
          /\ job' = job /\ had' = had /\ expected' = expected
          /\ target = None /\ target' = backup[job[j].name]
          /\ backup' = [backup EXCEPT ![job[j].name] = None]
      BY <1>7, <1>1 DEF Restore, RestoreAs, CanRestore, GiveUp
    <2>2. Step(j) /\ ~Activate(j)
      BY <1>7, <2>1 DEF Step, Activate
    <2>. QED
      BY <1>1, <1>4, <2>1, <2>2 DEF CopyIsSafe
  <1>8. ASSUME NEW j \in Jobs, Clean(j) PROVE CopyIsSafe'
    <2>1. /\ job[j].name \in Names /\ pc[j] = "cleaning"
          /\ target' = target /\ expected' = expected
          /\ had[j] \/ backup' = backup
          /\ \A n \in Names : n # job[j].name => backup'[n] = backup[n]
      BY <1>8, <1>1 DEF Clean
    <2>2. Step(j) /\ ~Activate(j)
      BY <1>8, <2>1 DEF Step, Activate
    <2>3. had[j] => Cleaned(job[j].name)
      BY <2>1 DEF Cleaned
    <2>. QED
      BY <1>4, <2>1, <2>2, <2>3 DEF CopyIsSafe
  <1>9. ASSUME NEW j \in Jobs, Remove(j) PROVE CopyIsSafe'
    BY <1>9 DEF Remove, CopyIsSafe
  <1>10. ASSUME NEW j \in Jobs, Removed(j) PROVE CopyIsSafe'
    <2>1. /\ target.state # "whole" /\ pc'[j] = "done"
          /\ backup' = backup /\ expected' = expected
      BY <1>10, <1>1 DEF Removed, CanRemove
    <2>2. Step(j) /\ ~Activate(j)
      BY <1>10, <1>1, <2>1 DEF Step, Activate
    <2>. QED
      BY <1>4, <2>1, <2>2 DEF CopyIsSafe
  <1>11. ASSUME NEW j \in Jobs, Step(j),
               ~(Stash(j) /\ had[j]), ~Activate(j), ~Restore(j), ~Clean(j),
               ~Remove(j), ~Removed(j)
        PROVE  CopyIsSafe'
    <2>1. UNCHANGED <<target, backup, expected>>
      BY <1>11 DEF Step, Install, Extract, ExtractFails, Record, RecordAs,
         RecordFails, Stash, StashAs, StashFails, ActivateFails, RestoreFails,
         GiveUp, Uninstall, NotInstalled, RemoveFails, dirs
    <2>. QED
      BY <1>2, <1>4, <1>11, <2>1
  <1>12. ASSUME NEW p \in Procs, Crash(p) PROVE CopyIsSafe'
    <2>1. /\ UNCHANGED <<target, backup, expected, job, had>>
          /\ \A k \in Jobs : pc'[k] = "dead" \/ pc'[k] = pc[k]
      BY <1>12, <1>1 DEF Crash, dirs
    <2>. QED
      BY <1>2, <2>1 DEF Cleaned
  <1>13. CASE UNCHANGED vars
    BY <1>2, <1>13 DEF vars, dirs, tasks, Cleaned
  <1>. QED
    BY <1>3, <1>5, <1>6, <1>7, <1>8, <1>9, <1>10, <1>11, <1>12, <1>13 DEF Next

-----------------------------------------------------------------------------
(* The inductive invariant: types, mutexes, names, staged packages, ruins  *)
(* and the safe copy, in every reachable state.                            *)
THEOREM StoreInvariant == Spec => []StoreInv
  <1>1. Init => StoreInv
    <2>. SUFFICES ASSUME Init PROVE StoreInv
      OBVIOUS
    <2>. USE StoreAssumption, DirFacts DEF Init
    <2>1. target \in Dirs \cup {None} /\ ~Ruin(target)
      BY DEF Ruin
    <2>2. PICK n \in Names :
            job = [j \in Jobs |-> [proc |-> Daemon, ver |-> None, name |-> n]]
      BY DEF Init
    <2>3. \A j \in Jobs : pc[j] = "idle" /\ job[j].proc = Daemon /\ job[j].ver = None
      BY <2>2
    <2>4. TypeOK
      BY <2>2, <2>1 DEF TypeOK
    <2>5. LocksAreHeld /\ NamesAreApart /\ StagedIsWhole
      BY <2>3 DEF LocksAreHeld, NamesAreApart, StagedIsWhole, Installs, Running, Locked
    <2>6. RuinsAreUninstalls
      BY <2>1, <2>3 DEF RuinsAreUninstalls, Holding
    <2>7. CopyIsSafe
      BY <2>1 DEF CopyIsSafe, Ruin
    <2>. QED
      BY <2>4, <2>5, <2>6, <2>7 DEF StoreInv
  <1>2. StoreInv /\ [Next]_vars => StoreInv'
    BY TypeStep, LocksStep, NamesStep, StagedStep, RuinsStep, CopyStep DEF StoreInv
  <1>. QED
    BY <1>1, <1>2, PTL DEF Spec

(* install_bytes and uninstall: what is under the application's own name   *)
(* is complete, or an uninstall is or was at work on it.                   *)
THEOREM NeverHalf == Spec => []NeverHalfInstalled
  <1>1. StoreInv => NeverHalfInstalled
    BY DEF StoreInv, RuinsAreUninstalls, Ruin, Uninstalls, NeverHalfInstalled
  <1>. QED
    BY <1>1, StoreInvariant, PTL

(* install_bytes: whatever fails or dies, an application that was          *)
(* installed and not uninstalled is still on disk, whole.                  *)
THEOREM FilesSurvive == Spec => []AppFilesSurvive
  <1>1. StoreInv => AppFilesSurvive
    BY DEF StoreInv, CopyIsSafe, AppFilesSurvive, Copies
  <1>. QED
    BY <1>1, StoreInvariant, PTL

-----------------------------------------------------------------------------
(* A store that is one process's in the next state is in this one.         *)
LEMMA SoloBefore == StoreInv /\ [Next]_vars /\ Solo' => Solo /\ crashes' = 0
  <1>. SUFFICES ASSUME StoreInv, [Next]_vars, Solo' PROVE Solo
    BY DEF Solo
  <1>1. /\ pc \in [Jobs -> {"idle"} \cup Running \cup Over]
        /\ job \in [Jobs -> [proc : Procs, ver : Versions \cup {None}, name : Names]]
        /\ faults \in Nat /\ crashes \in Nat
    BY StoreAssumption DEF StoreInv, TypeOK
  <1>2. ASSUME NEW j \in Jobs, Begin(j) PROVE Solo
    <2>1. /\ pc[j] = "idle"
          /\ UNCHANGED <<faults, crashes>>
          /\ \A k \in Jobs : k # j => job'[k] = job[k]
      BY <1>2, <1>1 DEF Begin, Refuse, AskUninstall, AskInstall, Goto
    <2>2. job[j].proc = Daemon
      BY <2>1 DEF StoreInv, LocksAreHeld
    <2>. QED
      BY <2>1, <2>2 DEF Solo
  <1>3. ASSUME NEW j \in Jobs, Step(j) PROVE Solo
    <2>1. UNCHANGED <<job, crashes>> /\ faults' >= faults /\ faults' \in Nat
      <3>1. TypeOK'
        BY TypeStep DEF StoreInv
      <3>. QED
        BY <1>3, <3>1, StepFrame, StoreAssumption DEF StoreInv, TypeOK
    <2>. QED
      BY <1>1, <2>1 DEF Solo
  <1>4. ASSUME NEW p \in Procs, Crash(p) PROVE Solo
    BY <1>4, <1>1 DEF Crash, Solo
  <1>5. CASE UNCHANGED vars
    BY <1>5 DEF vars, tasks, Solo
  <1>. QED
    BY <1>2, <1>3, <1>4, <1>5 DEF Next

(* There, the job that takes a step is the only one in the mutex.          *)
LEMMA SoloAlone ==
  ASSUME StoreInv, Solo, NEW j \in Jobs, Step(j), NEW k \in Jobs, k # j
  PROVE  pc[k] \notin Locked /\ pc'[k] \notin Locked
  <1>. SUFFICES ASSUME pc[k] \in Locked PROVE FALSE
    BY StepFrame DEF StoreInv
  <1>1. lock[Daemon] = k /\ job[j].proc = Daemon /\ k # Nobody
    BY StoreAssumption DEF StoreInv, LocksAreHeld, Solo
  <1>2. CASE pc[j] \in Locked
    BY <1>1, <1>2, OneAtATime DEF StoreInv, Solo
  <1>3. CASE pc[j] = "waiting"
    <2>1. Acquire(j)
      BY <1>3 DEF Step, Install, Extract, ExtractFails, Record, RecordAs,
         RecordFails, Stash, StashAs, StashFails, Activate, ActivateFails, Restore,
         RestoreAs, RestoreFails, GiveUp, Clean, Uninstall, NotInstalled, Remove,
         Removed, RemoveFails, Goto
    <2>. QED
      BY <1>1, <2>1 DEF Acquire
  <1>. QED
    BY <1>2, <1>3, StepFrame DEF StoreInv, Running

(* There, the directory is as the job at work has left it.                 *)
LEMMA UndisturbedStep == StoreInv /\ Undisturbed /\ [Next]_vars => Undisturbed'
  <1>. SUFFICES ASSUME StoreInv, Undisturbed, [Next]_vars, Solo' PROVE Undisturbed'
    BY DEF Undisturbed
  <1>1. Solo /\ crashes' = 0
    BY SoloBefore
  <1>. USE DEF Goto
  <1>2. /\ pc \in [Jobs -> {"idle"} \cup Running \cup Over]
        /\ job \in [Jobs -> [proc : Procs, ver : Versions \cup {None}, name : Names]]
        /\ had \in [Jobs -> BOOLEAN]
        /\ faults \in Nat /\ crashes \in Nat
    BY StoreAssumption DEF StoreInv, TypeOK
  <1>3. ASSUME NEW j \in Jobs, Begin(j) PROVE Undisturbed'
    <2>1. /\ pc'[j] \in {"waiting", "failed"}
          /\ UNCHANGED <<target, had, faults>>
          /\ \A k \in Jobs : k # j => pc'[k] = pc[k]
      BY <1>3, <1>2 DEF Begin, Refuse, AskUninstall, AskInstall, dirs
    <2>. QED
      BY <1>1, <2>1 DEF Undisturbed
  <1>4. ASSUME NEW j \in Jobs, Step(j) PROVE Undisturbed'
    <2>1. \A k \in Jobs : k # j => pc'[k] \notin {"stashing", "activating", "restoring"}
      BY <1>1, <1>4, SoloAlone DEF Locked
    <2>2. /\ pc'[j] = "stashing" => (had'[j] <=> target' # None)
          /\ pc'[j] \in {"activating", "restoring"} => target' = None
          /\ pc'[j] = "restoring" => faults' = 1
      <3>1. CASE Record(j)
        BY <1>2, <3>1 DEF Record, RecordAs
      <3>2. CASE Stash(j)
        BY <1>2, <1>1, <3>2 DEF Stash, StashAs, Undisturbed
      <3>3. CASE ActivateFails(j)
        <4>1. target = None /\ target' = target
          BY <1>1, <3>3 DEF ActivateFails, Undisturbed, dirs
        <4>2. faults' = faults + 1
          BY <3>3, <4>1 DEF ActivateFails, Fails, Fault, CanActivate
        <4>3. faults' = 1
          BY <1>2, <4>2 DEF Solo
        <4>4. pc'[j] = "restoring"
          BY <1>2, <3>3 DEF ActivateFails
        <4>. QED
          BY <4>1, <4>3, <4>4
      <3>4. CASE ~Record(j) /\ ~Stash(j) /\ ~ActivateFails(j)
        <4>1. pc'[j] \notin {"stashing", "activating", "restoring"}
          BY <1>4, <1>2, <3>4 DEF Step, Install, Extract, ExtractFails,
             RecordFails, StashFails, Activate, Restore, RestoreAs, RestoreFails,
             GiveUp, Clean, Uninstall, NotInstalled, Remove, Removed, RemoveFails
        <4>. QED
          BY <4>1
      <3>. QED
        BY <3>1, <3>2, <3>3, <3>4
    <2>. QED
      BY <2>1, <2>2 DEF Undisturbed
  <1>5. ASSUME NEW p \in Procs, Crash(p) PROVE FALSE
    BY <1>5, <1>1, <1>2 DEF Crash
  <1>6. CASE UNCHANGED vars
    BY <1>6, <1>1 DEF vars, dirs, tasks, Undisturbed
  <1>. QED
    BY <1>3, <1>4, <1>5, <1>6 DEF Next

(* While one process has used the store, none has died and at most one     *)
(* operation has failed, each install or uninstall takes effect at once or *)
(* leaves what is installed alone: the store is an AppCatalog.             *)
THEOREM CatalogRefinement == Spec => ImplementsCatalog
  <1>1. Init => Catalog!Init
    <2>. SUFFICES ASSUME Init PROVE Catalog!Init
      OBVIOUS
    <2>1. PICK n \in Names :
            job = [j \in Jobs |-> [proc |-> Daemon, ver |-> None, name |-> n]]
      BY DEF Init
    <2>2. Holding = {} /\ Value(target) \in Versions \cup {None}
      BY DirFacts DEF Init, Holding, Value
    <2>3. Installed \in Versions \cup {None}
      BY <2>2 DEF Installed
    <2>4. \A j \in Jobs : Outcome(j) = "idle"
      BY DEF Init, Outcome
    <2>. QED
      BY <2>1, <2>3, <2>4 DEF Catalog!Init
  <1>2. Init => Undisturbed
    BY DEF Init, Undisturbed
  <1>3. StoreInv /\ Undisturbed /\ StoreInv' /\ Undisturbed' /\ [Next]_vars
          => [Solo' => Catalog!Next \/ UNCHANGED Catalog!vars]_vars
    <2>. SUFFICES ASSUME StoreInv, Undisturbed, StoreInv', Undisturbed', Next, Solo'
                  PROVE  Catalog!Next \/ UNCHANGED Catalog!vars
      OBVIOUS
    <2>1. Solo /\ crashes' = 0
      BY SoloBefore
    <2>2. /\ target \in Dirs \cup {None}
          /\ pc \in [Jobs -> {"idle"} \cup Running \cup Over]
          /\ job \in [Jobs -> [proc : Procs, ver : Versions \cup {None}, name : Names]]
          /\ had \in [Jobs -> BOOLEAN]
          /\ backup \in [Names -> Dirs \cup {None}]
          /\ staging \in [Names -> Dirs \cup {None}]
          /\ faults \in Nat /\ crashes \in Nat
      BY StoreAssumption DEF StoreInv, TypeOK
    <2>. DEFINE wants == [j \in Jobs |-> job[j].ver]
                outcome == [j \in Jobs |-> Outcome(j)]
    <2>3. ASSUME NEW j \in Jobs, Begin(j) PROVE Catalog!Next
      <3>1. /\ pc[j] = "idle" /\ pc'[j] \in {"waiting", "failed"}
            /\ UNCHANGED <<target, backup, had>>
            /\ \A k \in Jobs : k # j => pc'[k] = pc[k] /\ job'[k] = job[k]
        BY <2>3, <2>2 DEF Begin, Refuse, AskUninstall, AskInstall, Goto, dirs
      <3>2. Holding' = Holding
        BY <3>1 DEF Holding
      <3>3. \A k \in Holding : job'[k] = job[k]
        BY <3>1 DEF Holding
      <3>4. (CHOOSE k \in Holding : TRUE) \in Holding \/ Holding = {}
        OBVIOUS
      <3>5. Installed' = Installed
        BY <3>1, <3>2, <3>3, <3>4 DEF Installed, Value
      <3>6. \A k \in Jobs : k # j => Outcome(k)' = Outcome(k)
        BY <3>1 DEF Outcome
      <3>7. Outcome(j) = "idle"
        BY <3>1 DEF Outcome
      <3>8. CASE Refuse(j)
        <4>1. Outcome(j)' = "refused" /\ job' = job
          BY <2>2, <3>8 DEF Refuse, Goto, Outcome
        <4>2. Catalog!Refuse(j)
          BY <3>5, <3>6, <3>7, <4>1 DEF Catalog!Refuse
        <4>. QED
          BY <4>2 DEF Catalog!Next
      <3>9. CASE ~Refuse(j)
        <4>1. pc'[j] = "waiting" /\ job'[j].ver \in Versions \cup {None}
          BY <2>3, <2>2, <3>9 DEF Begin, AskUninstall, AskInstall, Goto
        <4>2. Outcome(j)' = "open"
          BY <4>1 DEF Outcome
        <4>3. wants' = [wants EXCEPT ![j] = job'[j].ver]
          BY <3>1
        <4>4. Catalog!Ask(j)
          BY <3>5, <3>6, <3>7, <4>1, <4>2, <4>3 DEF Catalog!Ask
        <4>. QED
          BY <4>4 DEF Catalog!Next
      <3>. QED
        BY <3>8, <3>9
    <2>4. ASSUME NEW j \in Jobs, Step(j)
          PROVE  Catalog!Next \/ UNCHANGED Catalog!vars
      <3>. USE DEF Goto
      <3>1. job[j].name \in Names
        BY <2>2
      <3>2. /\ job' = job
            /\ \A k \in Jobs : k # j => pc'[k] = pc[k] /\ had'[k] = had[k]
            /\ pc[j] \in Running
        BY <2>4, StepFrame DEF StoreInv
      <3>3. Holding \subseteq {j} /\ Holding' \subseteq {j}
        BY <2>1, <2>4, SoloAlone DEF Holding, Locked
      <3>4. Installed = IF j \in Holding THEN Value(backup[job[j].name])
                                         ELSE Value(target)
        <4>1. CASE j \in Holding
          <5>1. Holding = {j} /\ target = None
            BY <2>1, <3>3, <4>1 DEF Undisturbed, Holding
          <5>. QED
            BY <4>1, <5>1 DEF Installed
        <4>2. CASE j \notin Holding
          BY <3>3, <4>2 DEF Installed
        <4>. QED
          BY <4>1, <4>2
      <3>5. Installed' = IF j \in Holding' THEN Value(backup'[job[j].name])
                                           ELSE Value(target')
        <4>1. CASE j \in Holding'
          <5>1. Holding' = {j} /\ target' = None
            BY <3>3, <4>1 DEF Undisturbed, Holding
          <5>. QED
            BY <3>2, <4>1, <5>1 DEF Installed, Value
        <4>2. CASE j \notin Holding'
          BY <3>3, <4>2 DEF Installed, Value
        <4>. QED
          BY <4>1, <4>2
      <3>6. \A k \in Jobs : k # j => Outcome(k)' = Outcome(k)
        BY <3>2 DEF Outcome
      <3>7. ASSUME Installed' = Installed, Outcome(j)' = Outcome(j)
            PROVE  UNCHANGED Catalog!vars
        BY <3>2, <3>6, <3>7 DEF Catalog!vars
      <3>8. ASSUME Installed' = Installed, Outcome(j) = "open", Outcome(j)' = "refused"
            PROVE  Catalog!Next
        <4>1. Catalog!Refuse(j)
          BY <3>2, <3>6, <3>8 DEF Catalog!Refuse
        <4>. QED
          BY <4>1 DEF Catalog!Next
      <3>9. ASSUME Installed' = job[j].ver, Outcome(j) = "open", Outcome(j)' = "done"
            PROVE  Catalog!Next
        <4>1. Catalog!Take(j)
          BY <3>2, <3>6, <3>9 DEF Catalog!Take
        <4>. QED
          BY <4>1 DEF Catalog!Next
      <3>10. CASE Install(j) \/ Extract(j) \/ Record(j) \/ Uninstall(j)
        <4>1. /\ UNCHANGED target
              /\ j \notin Holding /\ j \notin Holding'
          BY <2>2, <3>10 DEF Install, Extract, Record, RecordAs, Uninstall, dirs, Holding
        <4>2. Outcome(j)' = Outcome(j)
          BY <2>2, <3>10 DEF Install, Extract, Record, RecordAs, Uninstall, Outcome
        <4>. QED
          BY <3>4, <3>5, <3>7, <4>1, <4>2
      <3>11. CASE ExtractFails(j) \/ RecordFails(j) \/ StashFails(j) \/ NotInstalled(j)
        <4>1. /\ UNCHANGED target
              /\ j \notin Holding /\ j \notin Holding'
          BY <2>2, <3>11 DEF ExtractFails, RecordFails, StashFails, GiveUp,
             NotInstalled, dirs, Holding
        <4>2. Outcome(j) = "open" /\ Outcome(j)' = "refused"
          BY <2>2, <3>11 DEF ExtractFails, RecordFails, StashFails, GiveUp,
             NotInstalled, Outcome
        <4>. QED
          BY <3>4, <3>5, <3>8, <4>1, <4>2
      <3>12. CASE Stash(j)
        <4>1. /\ j \notin Holding
              /\ j \in Holding' <=> had[j]
          BY <2>2, <3>12 DEF Stash, StashAs, Holding
        <4>2. /\ had[j] => backup'[job[j].name] = target
              /\ ~had[j] => target' = target
          BY <2>2, <3>1, <3>12 DEF Stash, StashAs
        <4>3. Outcome(j)' = Outcome(j)
          BY <2>2, <3>12 DEF Stash, StashAs, Outcome
        <4>. QED
          BY <3>4, <3>5, <3>7, <4>1, <4>2, <4>3
      <3>13. CASE Activate(j)
        <4>1. target' = Dir(job[j].ver, "whole") /\ job[j].ver \in Versions
          BY <2>2, <3>13 DEF Activate, StoreInv, StagedIsWhole, LocksAreHeld, Locked
        <4>2. Value(target') = job[j].ver
          BY <4>1, DirFacts DEF Value
        <4>3. j \notin Holding'
          BY <2>2, <3>13 DEF Activate, Holding
        <4>4. Outcome(j) = "open" /\ Outcome(j)' = "done"
          BY <2>2, <3>13 DEF Activate, Outcome
        <4>. QED
          BY <3>5, <3>9, <4>2, <4>3, <4>4
      <3>14. CASE ActivateFails(j)
        <4>1. UNCHANGED <<target, backup, had>> /\ (j \in Holding' <=> j \in Holding)
          BY <2>2, <3>14 DEF ActivateFails, dirs, Holding
        <4>2. Outcome(j)' = Outcome(j)
          BY <2>2, <3>14 DEF ActivateFails, Outcome
        <4>. QED
          BY <3>4, <3>5, <3>7, <4>1, <4>2
      <3>15. CASE Restore(j)
        <4>1. /\ j \in Holding /\ j \notin Holding'
              /\ target' = backup[job[j].name]
          BY <2>2, <3>15 DEF Restore, RestoreAs, CanRestore, GiveUp, Holding
        <4>2. Outcome(j) = "open" /\ Outcome(j)' = "refused"
          BY <2>2, <3>15 DEF Restore, RestoreAs, GiveUp, Outcome
        <4>. QED
          BY <3>4, <3>5, <3>8, <4>1, <4>2
      <3>16. CASE RestoreFails(j)
        <4>1. pc[j] = "restoring" /\ target = None /\ target' = target /\ faults = 1
          BY <2>1, <3>16 DEF RestoreFails, GiveUp, Undisturbed
        <4>2. ~CanRestore(j)
          BY <3>16, <4>1 DEF RestoreFails, Fails, Fault, Solo
        <4>3. j \notin Holding /\ j \notin Holding'
          BY <2>2, <3>16, <4>1, <4>2 DEF RestoreFails, GiveUp, CanRestore, Holding
        <4>4. Outcome(j) = "open" /\ Outcome(j)' = "refused"
          BY <2>2, <3>16 DEF RestoreFails, GiveUp, Outcome
        <4>. QED
          BY <3>4, <3>5, <3>8, <4>1, <4>3, <4>4
      <3>17. CASE Clean(j) \/ RemoveFails(j)
        <4>1. UNCHANGED target /\ j \notin Holding /\ j \notin Holding'
          BY <2>2, <3>17 DEF Clean, RemoveFails, dirs, Holding
        <4>2. Outcome(j)' = Outcome(j)
          BY <2>2, <3>17 DEF Clean, RemoveFails, Outcome
        <4>. QED
          BY <3>4, <3>5, <3>7, <4>1, <4>2
      <3>18. CASE Remove(j)
        <4>1. /\ target' = Dir(target.ver, "partial") /\ target.ver \in Versions
              /\ job[j].ver = None
          BY <2>2, <3>18, DirFacts DEF Remove, StoreInv, LocksAreHeld
        <4>2. Value(target') = None
          BY <4>1, DirFacts DEF Value
        <4>3. j \notin Holding'
          BY <2>2, <3>18 DEF Remove, Holding
        <4>4. Outcome(j) = "open" /\ Outcome(j)' = "done"
          BY <2>2, <3>18 DEF Remove, Outcome
        <4>. QED
          BY <3>5, <3>9, <4>1, <4>2, <4>3, <4>4
      <3>19. CASE Removed(j)
        <4>1. /\ target.state = "partial" /\ target' = None
              /\ j \notin Holding /\ j \notin Holding'
          BY <2>2, <3>19 DEF Removed, CanRemove, Holding
        <4>2. Value(target) = None /\ Value(target') = None
          BY <4>1 DEF Value
        <4>3. Outcome(j)' = Outcome(j)
          BY <2>2, <3>19 DEF Removed, Outcome
        <4>. QED
          BY <3>4, <3>5, <3>7, <4>1, <4>2, <4>3
      <3>. QED
        BY <2>4, <3>10, <3>11, <3>12, <3>13, <3>14, <3>15, <3>16, <3>17, <3>18, <3>19
           DEF Step
    <2>5. ASSUME NEW p \in Procs, Crash(p) PROVE FALSE
      BY <2>5, <2>1, <2>2 DEF Crash
    <2>. QED
      BY <2>3, <2>4, <2>5 DEF Next
  <1>. QED
    BY <1>1, <1>2, <1>3, StoreInvariant, UndisturbedStep, PTL DEF Spec, ImplementsCatalog

=============================================================================
