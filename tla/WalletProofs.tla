---------------------------- MODULE WalletProofs ----------------------------
(***************************************************************************)
(* Proofs about Wallet, for any number of calls, passphrases and crashes.  *)
(***************************************************************************)
EXTENDS Wallet, TLAPS

(* Every step of wallet.rs, of the file system under it and of a crash     *)
(* preserves the inductive invariant.                                      *)
LEMMA WalletInvStep ==
  ASSUME WalletInv, [Next]_vars
  PROVE  WalletInv'
<1> USE WalletAssumption DEF WalletInv, TypeOK, Files, PCs, KeyFileLoads,
        IdentityIsStable, LockedIsRecoverable, ProtectedOnDisk, InSet
<1>1. CASE CreateFile
  BY <1>1 DEF CreateFile, memory, calls, past
<1>2. CASE WriteSeed
  BY <1>2 DEF WriteSeed, calls, past
<1>3. CASE Load
  <2>1. CASE file = "seed"
    <3>1. born = 1 /\ doc' = NoDoc
      BY <1>3, <2>1 DEF Load
    <3>2. key' /\ key' \in BOOLEAN
      BY <1>3, <2>1, Zenon DEF Load
    <3> QED
      BY <1>3, <2>1, <3>1, <3>2 DEF Load, disk, calls
  <2>2. CASE file \in Passphrases
    <3>1. born = 1 /\ ~key' /\ doc' = file
      BY <1>3, <2>2 DEF Load
    <3>2. key' \in BOOLEAN
      BY <1>3, <2>2 DEF Load
    <3> QED
      BY <1>3, <2>2, <3>1, <3>2 DEF Load, disk, calls
  <2> QED
    BY <1>3, <2>1, <2>2 DEF Load
<1>4. CASE LoadFails
  BY <1>4 DEF LoadFails, vars, disk, memory, calls, past
<1>5. CASE Crash
  <2>1. /\ \A c \in Calls : pc'[c] = "idle"
        /\ pc' \in [Calls -> PCs] /\ seen' \in [Calls -> Passphrases \cup {NoDoc}]
    BY <1>5 DEF Crash
  <2>2. key' \in BOOLEAN /\ ~key'
    BY <1>5, Zenon DEF Crash
  <2>3. crashes' \in 0..MaxCrashes
    BY <1>5 DEF Crash
  <2> QED
    BY <1>5, <2>1, <2>2, <2>3 DEF Crash, disk
<1>6. ASSUME NEW c \in Calls, NEW p \in Passphrases, SetPassphrase(c, p)
      PROVE  WalletInv'
  BY <1>6 DEF SetPassphrase, BeginSet, Goto, disk, memory, past
<1>7. ASSUME NEW c \in Calls, NEW p \in Passphrases, UnlockBegin(c, p)
      PROVE  WalletInv'
  BY <1>7 DEF UnlockBegin, Goto, disk, memory, past
<1>8. ASSUME NEW c \in Calls, PrepareTemp(c) PROVE WalletInv'
  BY <1>8 DEF PrepareTemp, Prepare, Goto, past
<1>9. ASSUME NEW c \in Calls, WriteTemp(c) PROVE WalletInv'
  BY <1>9 DEF WriteTemp, Write, Goto, memory, past
<1>10. ASSUME NEW c \in Calls, Rename(c) PROVE WalletInv'
  BY <1>10 DEF Rename, Goto, memory, past
<1>11. ASSUME NEW c \in Calls, Commit(c) PROVE WalletInv'
  BY <1>11 DEF Commit, Goto, disk
<1>12. ASSUME NEW c \in Calls, SetFails(c) PROVE WalletInv'
  BY <1>12 DEF SetFails, Goto, disk, memory, past
<1>13. ASSUME NEW c \in Calls, LockBegin(c) PROVE WalletInv'
  BY <1>13 DEF LockBegin, LockUnasked, Goto, disk, memory, past
<1>14. ASSUME NEW c \in Calls, Lock(c) PROVE WalletInv'
  BY <1>14 DEF Lock, Goto, disk
<1>15. ASSUME NEW c \in Calls, UnlockRead(c) PROVE WalletInv'
  BY <1>15 DEF UnlockRead, Goto, disk, memory, past
<1>16. ASSUME NEW c \in Calls, Unlock(c) PROVE WalletInv'
  BY <1>16 DEF Unlock, Goto, disk
<1>17. CASE UNCHANGED vars
  BY <1>17 DEF vars, disk, memory, calls, past
<1> QED
  BY <1>1, <1>2, <1>3, <1>4, <1>5, <1>6, <1>7, <1>8, <1>9, <1>10, <1>11,
     <1>12, <1>13, <1>14, <1>15, <1>16, <1>17 DEF Next, Call

-----------------------------------------------------------------------------
(* The invariant holds of every behaviour of the keystore: whatever the    *)
(* calls, their interleaving and the crashes.                              *)
THEOREM WalletInvariant == Spec => []WalletInv
<1>1. Init => WalletInv
  <2> SUFFICES ASSUME Init PROVE WalletInv
    OBVIOUS
  <2>1. ~key /\ key \in BOOLEAN
    BY Zenon DEF Init
  <2>2. TypeOK
    BY <2>1, WalletAssumption DEF Init, TypeOK, Files, PCs
  <2> QED
    BY <2>1, <2>2, WalletAssumption DEF Init, WalletInv, KeyFileLoads,
       IdentityIsStable, LockedIsRecoverable, ProtectedOnDisk, InSet
<1>2. WalletInv /\ [Next]_vars => WalletInv'
  BY WalletInvStep
<1> QED
  BY <1>1, <1>2, PTL DEF Spec

(* The key file always loads once it has been created (replace_private).   *)
THEOREM KeyFileSound == Spec => []KeyFileLoads
<1>1. WalletInv => KeyFileLoads
  BY DEF WalletInv
<1> QED
  BY <1>1, WalletInvariant, PTL

(* A data directory is given one key, ever (load_or_create).               *)
THEOREM IdentitySound == Spec => []IdentityIsStable
<1>1. WalletInv => IdentityIsStable
  BY DEF WalletInv
<1> QED
  BY <1>1, WalletInvariant, PTL

(* A locked wallet always has the document an unlock needs (lock, unlock). *)
THEOREM LockSound == Spec => []LockedIsRecoverable
<1>1. WalletInv => LockedIsRecoverable
  BY DEF WalletInv
<1> QED
  BY <1>1, WalletInvariant, PTL

(* A wallet that says it is protected is protected on disk                 *)
(* (set_passphrase).                                                       *)
THEOREM ProtectionSound == Spec => []ProtectedOnDisk
<1>1. WalletInv => ProtectedOnDisk
  BY DEF WalletInv
<1> QED
  BY <1>1, WalletInvariant, PTL

-----------------------------------------------------------------------------
(* Every step is a step of WalletKey or changes nothing it can see.        *)
LEMMA PromiseStep ==
  ASSUME WalletInv, WalletInv', [Next]_vars
  PROVE  [Promise!Next]_(Promise!vars)
<1> USE WalletAssumption
<1>0. /\ file \in Files /\ file' \in Files
      /\ key \in BOOLEAN /\ key' \in BOOLEAN
  BY DEF WalletInv, TypeOK
<1> SUFFICES \/ Promise!Next \/ UNCHANGED Promise!vars
  OBVIOUS
<1>1. CASE CreateFile
  BY <1>1 DEF CreateFile, KeyFile, memory, past, Promise!vars
<1>2. CASE WriteSeed
  <2>1. /\ file = "torn" /\ doc = NoDoc /\ held = {} /\ opener = NoDoc /\ ~key
        /\ file' = "seed" /\ doc' = NoDoc /\ UNCHANGED <<held, opener>>
    BY <1>2 DEF WriteSeed, WalletInv, past
  <2>2. key' = TRUE
    BY <1>2 DEF WriteSeed
  <2>3. Promise!Create
    BY <1>0, <2>1, <2>2 DEF KeyFile, Promise!Create, Promise!Down
  <2> QED
    BY <2>3 DEF Promise!Next
<1>3. CASE Load
  <2>1. /\ doc = NoDoc /\ held = {} /\ opener = NoDoc /\ ~key
        /\ file' = file /\ opener' = NoDoc /\ held' = {file} \cap Passphrases
        /\ file \in Passphrases \cup {"seed"}
    BY <1>3 DEF Load, disk, WalletInv
  <2>2. key' = (file = "seed") /\ doc' = IF file = "seed" THEN NoDoc ELSE file
    BY <1>3, Zenon DEF Load
  <2>3. KeyFile = file /\ KeyFile' = file /\ file # "none"
    BY <2>1 DEF KeyFile
  <2>4. key' = (KeyFile = "seed")
    BY <2>2, <2>3, Zenon
  <2>5. Promise!Reload
    BY <2>1, <2>2, <2>3, <2>4, Zenon DEF Promise!Reload
  <2>6. Promise!Down
    BY <1>0, <2>1 DEF Promise!Down
  <2> QED
    BY <2>5, <2>6 DEF Promise!Next, Promise!Load
<1>4. CASE LoadFails
  BY <1>4 DEF LoadFails, KeyFile, vars, disk, memory, past, Promise!vars
<1>5. CASE Crash
  BY <1>5 DEF Crash, KeyFile, disk, Promise!Next, Promise!Die, Promise!Down
<1>6. ASSUME NEW c \in Calls, Rename(c) PROVE Promise!Next
  <2>1. pc[c] = "rename" /\ UNCHANGED <<doc, key, held, opener>>
    BY <1>6 DEF Rename, Goto, memory, past
  <2>2. key /\ file' = pass[c] /\ pass[c] \in Passphrases
    BY <1>6, <2>1 DEF Rename, WalletInv, TypeOK, InSet
  <2>3. Promise!Replace(pass[c])
    BY <2>1, <2>2 DEF Promise!Replace, KeyFile
  <2> QED
    BY <2>2, <2>3 DEF Promise!Next, Promise!Call
<1>7. ASSUME NEW c \in Calls, Commit(c) PROVE Promise!Next
  <2>1. /\ pc[c] = "commit" /\ file' = file
        /\ doc' = pass[c] /\ held' = held \cup {pass[c]}
        /\ UNCHANGED <<key, opener>>
    BY <1>7 DEF Commit, Goto, disk
  <2>2. key /\ file = pass[c] /\ pass[c] \in Passphrases
    BY <2>1 DEF WalletInv, TypeOK, InSet
  <2>3. Promise!Publish
    BY <2>1, <2>2 DEF Promise!Publish, KeyFile
  <2> QED
    BY <2>3 DEF Promise!Next, Promise!Call
<1>8. ASSUME NEW c \in Calls, Lock(c) PROVE Promise!Next
  <2>1. /\ pc[c] = "locking" /\ file' = file /\ key' = FALSE /\ opener' = NoDoc
        /\ UNCHANGED <<doc, held>>
    BY <1>8 DEF Lock, Goto, disk
  <2>2. doc # NoDoc
    BY <2>1 DEF WalletInv
  <2>3. Promise!Lock
    BY <2>1, <2>2 DEF Promise!Lock, KeyFile
  <2> QED
    BY <2>3 DEF Promise!Next, Promise!Call
<1>9. ASSUME NEW c \in Calls, Unlock(c)
      PROVE  Promise!Next \/ UNCHANGED Promise!vars
  <2>1. /\ pc[c] = "deriving" /\ file' = file
        /\ UNCHANGED <<doc, held>>
    BY <1>9 DEF Unlock, Goto, disk
  <2>2. doc # NoDoc /\ seen[c] \in held /\ pass[c] \in Passphrases
    BY <2>1 DEF WalletInv, TypeOK
  <2>3. CASE pass[c] = seen[c]
    <3>1. key' = TRUE /\ opener' = pass[c]
      BY <1>9, <2>3 DEF Unlock
    <3>2. Promise!Unlock(pass[c])
      BY <2>1, <2>2, <2>3, <3>1 DEF Promise!Unlock, KeyFile
    <3> QED
      BY <2>2, <3>2 DEF Promise!Next, Promise!Call
  <2>4. CASE pass[c] # seen[c]
    BY <1>9, <2>1, <2>4 DEF Unlock, KeyFile, Promise!vars
  <2> QED
    BY <2>3, <2>4
<1>10. ASSUME NEW c \in Calls,
              \/ PrepareTemp(c) \/ WriteTemp(c) \/ SetFails(c)
              \/ LockBegin(c) \/ UnlockRead(c)
              \/ \E p \in Passphrases : SetPassphrase(c, p) \/ UnlockBegin(c, p)
       PROVE  UNCHANGED Promise!vars
  BY <1>10 DEF PrepareTemp, Prepare, WriteTemp, Write, SetFails, LockBegin,
     LockUnasked, UnlockRead, SetPassphrase, BeginSet, UnlockBegin, disk,
     memory, past, KeyFile, Promise!vars
<1>11. CASE UNCHANGED vars
  BY <1>11 DEF KeyFile, vars, disk, memory, past, Promise!vars
<1> QED
  BY <1>1, <1>2, <1>3, <1>4, <1>5, <1>6, <1>7, <1>8, <1>9, <1>10, <1>11
     DEF Next, Call

(* The keystore keeps the promise Confirmation relies on: through every    *)
(* interleaving and crash it behaves as WalletKey.                         *)
THEOREM WalletRefinement == Spec => KeepsPromise
<1>1. Init => Promise!Init
  BY DEF Init, KeyFile, Promise!Init, Promise!Down
<1>2. WalletInv /\ WalletInv' /\ [Next]_vars => [Promise!Next]_(Promise!vars)
  BY PromiseStep
<1> QED
  BY <1>1, <1>2, WalletInvariant, PTL DEF Spec, KeepsPromise, Promise!Spec

=============================================================================
