------------------------------ MODULE AppStore ------------------------------
(***************************************************************************)
(* Installing and removing one application (os/solweard/src/apps.rs,       *)
(* extract_to in package.rs), down to the file system operations, for the  *)
(* daemon and for `solweard install` run beside it: each process has an    *)
(* AppStore, so a mutex, of its own.                                       *)
(*                                                                         *)
(* A directory is the version its files come from and how complete they    *)
(* are: "partial" is one caught while it is written or removed, and        *)
(* "extracted" one without its install.json.  Any operation may fail, and  *)
(* a process may die between any two.                                      *)
(***************************************************************************)
EXTENDS Naturals

CONSTANTS
  Jobs,         \* install and uninstall calls
  Procs,        \* processes with an AppStore
  Daemon,       \* the one that also uninstalls
  Versions,     \* packages of this application that pass verification
  Names,        \* <pid>-<n> suffixes of .install- and .backup- directories
  None,         \* no directory; what an uninstall installs
  Nobody,       \* a free mutex
  MaxFaults,    \* bound on failing file system operations
  MaxCrashes    \* bound on processes that die

Dirs == [ver : Versions, state : {"partial", "extracted", "whole"}]
Dir(v, state) == [ver |-> v, state |-> state]

ASSUME StoreAssumption ==
  /\ MaxFaults \in Nat
  /\ MaxCrashes \in Nat
  /\ Daemon \in Procs
  /\ None \notin Versions \cup Dirs
  /\ Nobody \notin Jobs

VARIABLES
  target,     \* the application's directory
  staging,    \* .install-<name>
  backup,     \* .backup-<name>
  lock,       \* each process's `mutations`
  used,       \* names a live process has given out (pids may come back)
  pc,
  job,        \* process, wanted version and name of each job
  had,        \* had_previous
  faults, crashes,
  expected    \* history: the application was installed and not uninstalled

dirs  == <<target, staging, backup>>
tasks == <<lock, used, pc, job, had>>
vars  == <<dirs, tasks, faults, crashes, expected>>

Locked  == {"extracting", "recording", "stashing", "activating", "restoring",
            "cleaning", "checking", "removing"}
Running == {"waiting"} \cup Locked
Over    == {"done", "failed", "botched", "dead"}

TypeOK ==
  /\ target \in Dirs \cup {None}
  /\ staging \in [Names -> Dirs \cup {None}]
  /\ backup \in [Names -> Dirs \cup {None}]
  /\ lock \in [Procs -> Jobs \cup {Nobody}]
  /\ used \in [Procs -> SUBSET Names]
  /\ pc \in [Jobs -> {"idle"} \cup Running \cup Over]
  /\ job \in [Jobs -> [proc : Procs, ver : Versions \cup {None}, name : Names]]
  /\ had \in [Jobs -> BOOLEAN]
  /\ faults \in 0..MaxFaults
  /\ crashes \in 0..MaxCrashes
  /\ expected \in BOOLEAN

Init ==
  /\ target \in {None} \cup {Dir(v, "whole") : v \in Versions}
  /\ staging = [n \in Names |-> None]
  /\ backup = [n \in Names |-> None]
  /\ lock = [p \in Procs |-> Nobody]
  /\ used = [p \in Procs |-> {}]
  /\ pc = [j \in Jobs |-> "idle"]
  /\ \E n \in Names :
       job = [j \in Jobs |-> [proc |-> Daemon, ver |-> None, name |-> n]]
  /\ had = [j \in Jobs |-> FALSE]
  /\ faults = 0
  /\ crashes = 0
  /\ expected = (target # None)

-----------------------------------------------------------------------------
Goto(j, from, to) ==
  /\ pc[j] = from
  /\ pc' = [pc EXCEPT ![j] = to]

Acquire(j) ==
  /\ lock[job[j].proc] = Nobody
  /\ lock' = [lock EXCEPT ![job[j].proc] = j]

(* The guard is dropped on every way out.                                  *)
Release(j) == lock' = [lock EXCEPT ![job[j].proc] = Nobody]

Fault == faults < MaxFaults /\ faults' = faults + 1

(* A file system operation fails because it must, or for no reason of ours.*)
Fails(possible) ==
  \/ ~possible /\ UNCHANGED faults
  \/ possible /\ Fault

(* `let _ = remove_dir_all(...)`: whatever is left of a directory.         *)
Leftovers(d) == IF d = None THEN {None} ELSE {None, Dir(d.ver, "partial")}

(* The package is refused before the mutex is taken: it cannot be fetched, *)
(* or a pin, its signature, its publisher or its id is wrong.              *)
Refuse(j) ==
  /\ Goto(j, "idle", "failed")
  /\ UNCHANGED <<dirs, lock, used, job, had, faults, crashes, expected>>

(* Names are a process id and a counter: none is given out twice by live   *)
(* processes, but a directory a dead one left may be under it.             *)
TakeName(p, n) ==
  /\ \A q \in Procs : n \notin used[q]
  /\ used' = [used EXCEPT ![p] = @ \cup {n}]

(* install_bytes has checked the package and waits for the mutex.          *)
AskInstall(j, p, v, n) ==
  /\ Goto(j, "idle", "waiting")
  /\ TakeName(p, n)
  /\ job' = [job EXCEPT ![j] = [proc |-> p, ver |-> v, name |-> n]]
  /\ UNCHANGED <<dirs, lock, had, faults, crashes, expected>>

AskUninstall(j) ==
  /\ Goto(j, "idle", "waiting")
  /\ job' = [job EXCEPT ![j].proc = Daemon, ![j].ver = None]
  /\ UNCHANGED <<dirs, lock, used, had, faults, crashes, expected>>

(* It takes the mutex, and extract_to replaces the staging directory.      *)
Install(j) ==
  /\ job[j].ver # None
  /\ Goto(j, "waiting", "extracting")
  /\ Acquire(j)
  /\ staging' = [staging EXCEPT ![job[j].name] = Dir(job[j].ver, "partial")]
  /\ UNCHANGED <<target, backup, used, job, had, faults, crashes, expected>>

Extract(j) ==
  /\ Goto(j, "extracting", "recording")
  /\ staging' = [staging EXCEPT ![job[j].name] = Dir(job[j].ver, "extracted")]
  /\ UNCHANGED <<target, backup, lock, used, job, had, faults, crashes, expected>>

(* An error leaves the half-written staging directory behind.              *)
ExtractFails(j) ==
  /\ Goto(j, "extracting", "failed")
  /\ Fault
  /\ Release(j)
  /\ UNCHANGED <<dirs, used, job, had, crashes, expected>>

RecordAs(j, state) ==
  /\ Goto(j, "recording", "stashing")
  /\ staging' = [staging EXCEPT ![job[j].name] = Dir(job[j].ver, state)]
  /\ had' = [had EXCEPT ![j] = (target # None)]
  /\ UNCHANGED <<target, backup, lock, used, job, faults, crashes, expected>>

(* Mutant: install.json is left for later.                                 *)
RecordLater(j) == RecordAs(j, "extracted")

(* install.json is written; then the previous version is looked for.       *)
Record(j) == RecordAs(j, "whole")

(* The staging directory is given up and the call fails.                   *)
GiveUp(j, from) ==
  /\ Goto(j, from, "failed")
  /\ \E d \in Leftovers(staging[job[j].name]) :
       staging' = [staging EXCEPT ![job[j].name] = d]
  /\ Release(j)
  /\ UNCHANGED <<used, job, had, crashes, expected>>

RecordFails(j) ==
  /\ GiveUp(j, "recording")
  /\ Fault
  /\ UNCHANGED <<target, backup>>

(* rename(target, backup): the target must be there, the backup must not.  *)
CanStash(j) == target # None /\ backup[job[j].name] = None

StashAs(j, old) ==
  /\ Goto(j, "stashing", "activating")
  /\ IF had[j]
     THEN /\ CanStash(j)
          /\ backup' = [backup EXCEPT ![job[j].name] = old]
          /\ target' = None
     ELSE UNCHANGED <<target, backup>>
  /\ UNCHANGED <<staging, lock, used, job, had, faults, crashes, expected>>

(* Mutant: the old version is removed to make room.                        *)
StashNothing(j) == StashAs(j, None)

Stash(j) == StashAs(j, target)

StashFails(j) ==
  /\ had[j]
  /\ GiveUp(j, "stashing")
  /\ Fails(CanStash(j))
  /\ UNCHANGED <<target, backup>>

(* rename(staging, target): the new version is in place.                   *)
CanActivate == target = None

Activate(j) ==
  /\ Goto(j, "activating", "cleaning")
  /\ CanActivate
  /\ target' = staging[job[j].name]
  /\ staging' = [staging EXCEPT ![job[j].name] = None]
  /\ expected' = TRUE
  /\ UNCHANGED <<backup, lock, used, job, had, faults, crashes>>

ActivateFails(j) ==
  /\ Goto(j, "activating", "restoring")
  /\ Fails(CanActivate)
  /\ UNCHANGED <<dirs, lock, used, job, had, crashes, expected>>

(* The old version is put back, if that is possible; an error is ignored.  *)
CanRestore(j) == had[j] /\ target = None

RestoreAs(j, old) ==
  /\ GiveUp(j, "restoring")
  /\ CanRestore(j)
  /\ target' = old
  /\ backup' = [backup EXCEPT ![job[j].name] = None]
  /\ UNCHANGED faults

(* Mutant: the backup is dropped.                                          *)
RestoreNothing(j) == RestoreAs(j, None)

Restore(j) == RestoreAs(j, backup[job[j].name])

RestoreFails(j) ==
  /\ GiveUp(j, "restoring")
  /\ Fails(CanRestore(j))
  /\ UNCHANGED <<target, backup>>

(* The old version is removed, as far as it goes.                          *)
Clean(j) ==
  /\ Goto(j, "cleaning", "done")
  /\ IF had[j]
     THEN \E d \in Leftovers(backup[job[j].name]) :
            backup' = [backup EXCEPT ![job[j].name] = d]
     ELSE UNCHANGED backup
  /\ Release(j)
  /\ UNCHANGED <<target, staging, used, job, had, faults, crashes, expected>>

-----------------------------------------------------------------------------
(* AppStore::uninstall.                                                    *)
Uninstall(j) ==
  /\ job[j].ver = None
  /\ Goto(j, "waiting", "checking")
  /\ Acquire(j)
  /\ UNCHANGED <<dirs, used, job, had, faults, crashes, expected>>

NotInstalled(j) ==
  /\ Goto(j, "checking", "failed")
  /\ target = None
  /\ Release(j)
  /\ UNCHANGED <<dirs, used, job, had, faults, crashes, expected>>

(* remove_dir_all deletes the files one by one, in the application's own   *)
(* directory.                                                              *)
Remove(j) ==
  /\ Goto(j, "checking", "removing")
  /\ target # None
  /\ target' = Dir(target.ver, "partial")
  /\ expected' = FALSE
  /\ UNCHANGED <<staging, backup, lock, used, job, had, faults, crashes>>

(* Another process may have moved the directory away meanwhile.            *)
CanRemove == target # None /\ target.state = "partial"

Removed(j) ==
  /\ Goto(j, "removing", "done")
  /\ CanRemove
  /\ target' = None
  /\ Release(j)
  /\ UNCHANGED <<staging, backup, used, job, had, faults, crashes, expected>>

RemoveFails(j) ==
  /\ Goto(j, "removing", "botched")
  /\ Fails(CanRemove)
  /\ Release(j)
  /\ UNCHANGED <<dirs, used, job, had, crashes, expected>>

-----------------------------------------------------------------------------
(* A process dies.  Nothing it left is ever looked at again, except by a   *)
(* later process that is given the same names.                             *)
Crash(p) ==
  /\ crashes < MaxCrashes
  /\ crashes' = crashes + 1
  /\ pc' = [j \in Jobs |->
              IF pc[j] \in Running /\ job[j].proc = p THEN "dead" ELSE pc[j]]
  /\ lock' = [lock EXCEPT ![p] = Nobody]
  /\ used' = [used EXCEPT ![p] = {}]
  /\ UNCHANGED <<dirs, job, had, faults, expected>>

Begin(j) ==
  \/ Refuse(j) \/ AskUninstall(j)
  \/ \E p \in Procs, v \in Versions, n \in Names : AskInstall(j, p, v, n)

Step(j) ==
  \/ Install(j) \/ Extract(j) \/ ExtractFails(j) \/ Record(j) \/ RecordFails(j)
  \/ Stash(j) \/ StashFails(j) \/ Activate(j) \/ ActivateFails(j)
  \/ Restore(j) \/ RestoreFails(j) \/ Clean(j)
  \/ Uninstall(j) \/ NotInstalled(j) \/ Remove(j) \/ Removed(j) \/ RemoveFails(j)

Next ==
  \/ \E j \in Jobs : Begin(j) \/ Step(j)
  \/ \E p \in Procs : Crash(p)

Spec == Init /\ [][Next]_vars

-----------------------------------------------------------------------------
(* install_bytes builds a version next to the application and moves it in  *)
(* whole: what is under the application's own name is complete, install    *)
(* record included, or is being or was being uninstalled, whatever fails,  *)
(* dies or runs beside it.                                                 *)
NeverHalfInstalled ==
  target # None =>
    \/ target.state = "whole"
    \/ /\ target.state = "partial"
       /\ \E j \in Jobs : job[j].ver = None /\ pc[j] \in {"removing", "botched", "dead"}

(* An application that was installed and not uninstalled is somewhere on   *)
(* disk, whole: a crash between the two renames of an update hides it, but *)
(* does not destroy it.                                                    *)
Copies == {target} \cup {backup[n] : n \in Names}

AppFilesSurvive ==
  expected => \E d \in Copies : d # None /\ d.state = "whole"

-----------------------------------------------------------------------------
(* Why: the inductive invariant.                                           *)
Installs   == {j \in Jobs : job[j].ver # None /\ pc[j] \in Running}
Uninstalls == {j \in Jobs : job[j].ver = None /\ pc[j] \in {"removing", "botched", "dead"}}

(* A job that is at work holds its process's mutex, and only a job of one  *)
(* kind goes through the steps of that kind.                               *)
LocksAreHeld ==
  \A j \in Jobs :
    /\ pc[j] \in Locked => lock[job[j].proc] = j
    /\ pc[j] \in {"idle", "checking", "removing"} => job[j].ver = None
    /\ pc[j] \in Locked \ {"checking", "removing"} => job[j].ver # None
    /\ job[j].ver = None => job[j].proc = Daemon

(* No two installs in progress use the same staging and backup names.      *)
NamesAreApart ==
  /\ \A j \in Installs : job[j].name \in used[job[j].proc]
  /\ \A j, k \in Installs : job[j].name = job[k].name => j = k

(* What is about to be moved in is the package, all of it.                 *)
StagedIsWhole ==
  \A j \in Jobs :
    pc[j] \in {"stashing", "activating"} =>
      staging[job[j].name] = Dir(job[j].ver, "whole")

(* The old version an update in progress would put back is whole, or an    *)
(* uninstall of another process had begun on it; while none of those has   *)
(* been left undone, there is one such directory in all.                   *)
Holding == {j \in Jobs : pc[j] \in {"activating", "restoring"} /\ had[j]}
Ruin(d) == d # None /\ d.state # "whole"
Left    == \E j \in Uninstalls : pc[j] # "removing"

RuinsAreUninstalls ==
  /\ Ruin(target) => target.state = "partial" /\ Uninstalls # {}
  /\ \A j \in Holding :
       LET held == backup[job[j].name]
       IN  Ruin(held) => held.state = "partial" /\ Uninstalls # {}
  /\ ~Left =>
       /\ \A j \in Holding : Ruin(backup[job[j].name]) => ~Ruin(target)
       /\ \A j, k \in Holding :
            Ruin(backup[job[j].name]) /\ Ruin(backup[job[k].name]) => j = k

(* A whole copy is where no update in progress will clean it away.         *)
Cleaned(n) == \E j \in Jobs : pc[j] = "cleaning" /\ had[j] /\ job[j].name = n

CopyIsSafe ==
  expected =>
    \/ target # None /\ target.state = "whole"
    \/ \E n \in Names : /\ backup[n] # None
                        /\ backup[n].state = "whole"
                        /\ ~Cleaned(n)

StoreInv ==
  /\ TypeOK
  /\ LocksAreHeld
  /\ NamesAreApart
  /\ StagedIsWhole
  /\ RuinsAreUninstalls
  /\ CopyIsSafe

-----------------------------------------------------------------------------
Value(d) == IF d # None /\ d.state = "whole" THEN d.ver ELSE None

(* Between its two renames an update holds the old version in its backup.  *)
Installed ==
  IF target = None /\ Holding # {}
  THEN Value(backup[job[CHOOSE j \in Holding : TRUE].name])
  ELSE Value(target)

Outcome(j) ==
  CASE pc[j] = "idle"   -> "idle"
    [] pc[j] = "failed" -> "refused"
    [] pc[j] \in {"cleaning", "done", "removing", "botched"} -> "done"
    [] OTHER            -> "open"

Catalog == INSTANCE AppCatalog WITH
  installed <- Installed,
  wants     <- [j \in Jobs |-> job[j].ver],
  outcome   <- [j \in Jobs |-> Outcome(j)]

(* While one process has used the store, none has died and no more than    *)
(* one operation has failed, each call is atomic: an install or update     *)
(* that returns an error has left the version that was there, and one that *)
(* succeeds has replaced it.  A second failure may hit the rename that     *)
(* puts the old version back, whose error install_bytes ignores: it stays  *)
(* in its backup.                                                          *)
Solo ==
  /\ crashes = 0
  /\ faults <= 1
  /\ \A j \in Jobs : job[j].proc = Daemon

ImplementsCatalog ==
  /\ Catalog!Init
  /\ [][Solo' => Catalog!Next \/ UNCHANGED Catalog!vars]_vars

(* Why: nobody else touches the directory meanwhile.                       *)
Undisturbed ==
  Solo => \A j \in Jobs :
    /\ pc[j] = "stashing" => (had[j] <=> target # None)
    /\ pc[j] \in {"activating", "restoring"} => target = None
    /\ pc[j] = "restoring" => faults = 1

=============================================================================
