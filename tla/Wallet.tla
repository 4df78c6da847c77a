------------------------------- MODULE Wallet -------------------------------
(***************************************************************************)
(* The device keystore (os/solweard/src/wallet.rs): the key file, the key  *)
(* and the encrypted document in memory, and the calls that set a          *)
(* passphrase, lock, unlock and sign, interleaved at the wallet's two      *)
(* mutexes and at every step the file system can be caught in.             *)
(*                                                                         *)
(* Cryptography is reduced to what it decides: a document is the           *)
(* passphrase that opens it.  The daemon may die between any two steps and *)
(* is started again on the files it left.                                  *)
(***************************************************************************)
EXTENDS Naturals

CONSTANTS
  Calls,         \* tasks that make wallet calls, one at a time each
  Passphrases,   \* passphrases a user may choose (8 characters or more)
  NoDoc,         \* an empty Option<EncryptedWallet>
  Nobody,        \* the signing_key mutex is free
  MaxCrashes     \* bound on daemon crashes

ASSUME WalletAssumption ==
  /\ MaxCrashes \in Nat
  /\ NoDoc \notin Passphrases
  /\ Nobody \notin Calls
  /\ {"absent", "torn", "seed", "none"} \cap Passphrases = {}

VARIABLES
  file,      \* wallet.key
  temp,      \* wallet.key.new
  up,        \* "down", "creating" the first key file, or "up"
  key,       \* signing_key holds a key
  doc,       \* encrypted
  holder,    \* the call that holds the signing_key mutex
  pc, pass,  \* where each call is, and the passphrase it was given
  seen,      \* the document an unlock cloned before it derived the key
  crashes,
  \* history
  born,      \* how many keys this data directory has been given
  held,      \* every document memory has had since the daemon started
  opener     \* the passphrase the key was last brought back with

disk   == <<file, temp>>
memory == <<key, doc>>
calls  == <<pc, pass, seen>>
past   == <<held, opener>>
vars   == <<disk, up, memory, holder, calls, crashes, born, past>>

Files == {"absent", "torn", "seed"} \cup Passphrases

PCs == {"idle", "prepare", "write", "rename", "commit", "locking", "reading",
        "deriving"}

TypeOK ==
  /\ file \in Files
  /\ temp \in {"absent", "torn"} \cup Passphrases
  /\ up \in {"down", "creating", "up"}
  /\ key \in BOOLEAN
  /\ doc \in Passphrases \cup {NoDoc}
  /\ holder \in Calls \cup {Nobody}
  /\ pc \in [Calls -> PCs]
  /\ pass \in [Calls -> Passphrases]
  /\ seen \in [Calls -> Passphrases \cup {NoDoc}]
  /\ crashes \in 0..MaxCrashes
  /\ born \in Nat
  /\ held \subseteq Passphrases
  /\ opener \in Passphrases \cup {NoDoc}

Init ==
  /\ file = "absent"
  /\ temp = "absent"
  /\ up = "down"
  /\ key = FALSE
  /\ doc = NoDoc
  /\ holder = Nobody
  /\ pc = [c \in Calls |-> "idle"]
  /\ pass \in [Calls -> Passphrases]
  /\ seen = [c \in Calls |-> NoDoc]
  /\ crashes = 0
  /\ born = 0
  /\ held = {}
  /\ opener = NoDoc

-----------------------------------------------------------------------------
(* Wallet::load_or_create.                                                 *)

(* No key file: a key is generated and write_private creates the file.     *)
CreateFile ==
  /\ up = "down" /\ file = "absent"
  /\ up' = "creating"
  /\ file' = "torn"
  /\ UNCHANGED <<temp, memory, holder, calls, crashes, born, past>>

(* Its 32 bytes are written and synced.                                    *)
WriteSeed ==
  /\ up = "creating"
  /\ up' = "up"
  /\ file' = "seed"
  /\ key' = TRUE
  /\ doc' = NoDoc
  /\ born' = born + 1
  /\ UNCHANGED <<temp, holder, calls, crashes, past>>

(* A raw seed loads unlocked, a document locked.                           *)
Load ==
  /\ up = "down" /\ file \in Passphrases \cup {"seed"}
  /\ up' = "up"
  /\ key' = (file = "seed")
  /\ doc' = IF file = "seed" THEN NoDoc ELSE file
  /\ held' = {file} \cap Passphrases
  /\ UNCHANGED <<disk, holder, calls, crashes, born, opener>>

(* Any other content is an error: the daemon exits and systemd tries again,*)
(* with the same result.                                                   *)
LoadFails ==
  /\ up = "down" /\ file = "torn"
  /\ UNCHANGED vars

(* The daemon dies with its memory, mutexes and calls.                     *)
Crash ==
  /\ up # "down" /\ crashes < MaxCrashes
  /\ crashes' = crashes + 1
  /\ up' = "down"
  /\ key' = FALSE
  /\ doc' = NoDoc
  /\ holder' = Nobody
  /\ pc' = [c \in Calls |-> "idle"]
  /\ seen' = [c \in Calls |-> NoDoc]
  /\ held' = {}
  /\ opener' = NoDoc
  /\ UNCHANGED <<disk, pass, born>>

-----------------------------------------------------------------------------
Goto(c, from, to) ==
  /\ up = "up"
  /\ pc[c] = from
  /\ pc' = [pc EXCEPT ![c] = to]

BeginSet(c, p, next) ==
  /\ holder = Nobody
  /\ \/ key /\ Goto(c, "idle", "prepare") /\ holder' = next
     \/ ~key /\ Goto(c, "idle", "idle") /\ UNCHANGED holder
  /\ pass' = [pass EXCEPT ![c] = p]
  /\ UNCHANGED <<disk, up, memory, seen, crashes, born, past>>

(* Mutant: the mutex is only held to look at the key.                      *)
SetPassphraseUnheld(c, p) == BeginSet(c, p, Nobody)

(* Wallet::set_passphrase takes the signing_key mutex, refuses a locked    *)
(* wallet, and keeps the mutex to the end.                                 *)
SetPassphrase(c, p) == BeginSet(c, p, c)

Prepare(c, newDoc) ==
  /\ Goto(c, "prepare", "write")
  /\ temp' = "torn"
  /\ doc' = newDoc
  /\ UNCHANGED <<file, up, key, holder, pass, seen, crashes, born, past>>

(* Mutant: the document in memory is replaced before the file.             *)
PreparePublished(c) == Prepare(c, pass[c])

(* replace_private: a leftover wallet.key.new is removed and a new one     *)
(* created.                                                                *)
PrepareTemp(c) == Prepare(c, doc)

Write(c, newTemp, newFile) ==
  /\ Goto(c, "write", "rename")
  /\ temp' = newTemp
  /\ file' = newFile
  /\ UNCHANGED <<up, memory, holder, pass, seen, crashes, born, past>>

(* Mutants: the document is written over wallet.key itself; wallet.key is  *)
(* removed to make room.                                                   *)
WriteInPlace(c)   == Write(c, pass[c], "torn")
WriteAndRemove(c) == Write(c, pass[c], "absent")

(* write_private fills wallet.key.new and syncs it.                        *)
WriteTemp(c) == Write(c, pass[c], file)

(* The synced document takes the place of wallet.key in one step.          *)
Rename(c) ==
  /\ Goto(c, "rename", "commit")
  /\ file' = temp
  /\ temp' = "absent"
  /\ UNCHANGED <<up, memory, holder, pass, seen, crashes, born, past>>

(* The document replaces the one in memory and the mutex is released.      *)
Commit(c) ==
  /\ Goto(c, "commit", "idle")
  /\ doc' = pass[c]
  /\ held' = held \cup {pass[c]}
  /\ holder' = Nobody
  /\ UNCHANGED <<disk, up, key, pass, seen, crashes, born, opener>>

(* An error in replace_private: the call fails, the mutex is released and  *)
(* files stay as they are, even if it was chmod that failed after the      *)
(* rename.                                                                 *)
SetFails(c) ==
  /\ pc[c] \in {"prepare", "write", "rename", "commit"}
  /\ Goto(c, pc[c], "idle")
  /\ holder' = Nobody
  /\ UNCHANGED <<disk, up, memory, pass, seen, crashes, born, past>>

(* Mutant: Wallet::lock does not ask whether there is a document.          *)
LockUnasked(c) ==
  /\ Goto(c, "idle", "locking")
  /\ UNCHANGED <<disk, up, memory, holder, pass, seen, crashes, born, past>>

(* Wallet::lock asks whether there is a document before it takes the key.  *)
LockBegin(c) == doc # NoDoc /\ LockUnasked(c)

Lock(c) ==
  /\ holder = Nobody
  /\ Goto(c, "locking", "idle")
  /\ key' = FALSE
  /\ opener' = NoDoc
  /\ UNCHANGED <<disk, up, doc, holder, pass, seen, crashes, born, held>>

(* Wallet::unlock: an unlocked wallet is left alone.                       *)
UnlockBegin(c, p) ==
  /\ holder = Nobody
  /\ Goto(c, "idle", IF key THEN "idle" ELSE "reading")
  /\ pass' = [pass EXCEPT ![c] = p]
  /\ UNCHANGED <<disk, up, memory, holder, seen, crashes, born, past>>

(* It clones the document, and works on the clone without any lock.        *)
UnlockRead(c) ==
  /\ doc # NoDoc
  /\ Goto(c, "reading", "deriving")
  /\ seen' = [seen EXCEPT ![c] = doc]
  /\ UNCHANGED <<disk, up, memory, holder, pass, crashes, born, past>>

(* A passphrase that opens the clone puts the key back.                    *)
Unlock(c) ==
  /\ Goto(c, "deriving", "idle")
  /\ \/ pass[c] = seen[c] /\ holder = Nobody /\ key' = TRUE /\ opener' = pass[c]
     \/ pass[c] # seen[c] /\ UNCHANGED <<key, opener>>
  /\ seen' = [seen EXCEPT ![c] = NoDoc]
  /\ UNCHANGED <<disk, up, doc, holder, pass, crashes, born, held>>

Call(c) ==
  \/ \E p \in Passphrases : SetPassphrase(c, p) \/ UnlockBegin(c, p)
  \/ PrepareTemp(c) \/ WriteTemp(c) \/ Rename(c) \/ Commit(c) \/ SetFails(c)
  \/ LockBegin(c) \/ Lock(c) \/ UnlockRead(c) \/ Unlock(c)

Next ==
  \/ CreateFile \/ WriteSeed \/ Load \/ LoadFails \/ Crash
  \/ \E c \in Calls : Call(c)

Spec == Init /\ [][Next]_vars

-----------------------------------------------------------------------------
(* replace_private: once the wallet has been created, the file under       *)
(* wallet.key always loads, whichever step of a passphrase change or of    *)
(* another call the daemon dies in.                                        *)
KeyFileLoads == born > 0 => file \in Passphrases \cup {"seed"}

(* "Reopening the same data directory yields the same identity"            *)
(* (tests/daemon.rs): no sequence of crashes makes load_or_create          *)
(* generate a second key.                                                  *)
IdentityIsStable == born <= 1

(* Wallet::lock: a running wallet without its key has a document to get it *)
(* back from, so "wallet has no encrypted document" is never the answer to *)
(* an unlock.                                                              *)
LockedIsRecoverable ==
  /\ up = "up" /\ ~key => doc # NoDoc
  /\ \A c \in Calls : pc[c] = "reading" => doc # NoDoc

(* set_passphrase: the file is replaced before the document is published,  *)
(* so a wallet that says it is protected never has its seed in the clear   *)
(* under wallet.key, also when a change fails or dies half way.            *)
ProtectedOnDisk == doc # NoDoc => file \in Passphrases

(* The inductive invariant: who is in set_passphrase holds the mutex and   *)
(* the key, its temporary file is complete before it is renamed, and a     *)
(* daemon that is not up has nothing in memory.                            *)
InSet == {"prepare", "write", "rename", "commit"}

WalletInv ==
  /\ TypeOK
  /\ up = "creating" => file = "torn"
  /\ up = "up" => born = 1
  /\ born = 0 => file \in {"absent", "torn"}
  /\ up # "up" => /\ ~key /\ doc = NoDoc /\ holder = Nobody
                  /\ held = {} /\ opener = NoDoc
                  /\ \A c \in Calls : pc[c] = "idle"
  /\ holder # Nobody => key
  /\ ~key => opener = NoDoc
  /\ \A c \in Calls :
       /\ pc[c] \in InSet <=> holder = c
       /\ pc[c] = "rename" => temp = pass[c]
       /\ pc[c] = "commit" => file = pass[c]
       /\ pc[c] \in {"locking", "reading", "deriving"} => doc # NoDoc
       /\ pc[c] = "deriving" => seen[c] \in held
  /\ doc # NoDoc => doc \in held
  /\ KeyFileLoads
  /\ IdentityIsStable
  /\ LockedIsRecoverable
  /\ ProtectedOnDisk

(* WalletKey sees the memory as it is, and the key file if it loads.       *)
KeyFile == IF file \in {"absent", "torn"} THEN "none" ELSE file

Promise == INSTANCE WalletKey WITH disk <- KeyFile

(* The files, mutexes and calls keep the promise of WalletKey to the rest  *)
(* of the daemon: a passphrase change replaces the file in one step and    *)
(* memory takes over the document that is on disk or, if the change failed *)
(* in between, keeps the one it had; the key goes only when there is a     *)
(* document to bring it back from, and comes back only with a passphrase   *)
(* whose document this daemon has held.                                    *)
KeepsPromise == Promise!Spec

(* "Once protected, locking drops the decrypted signing key from memory    *)
(* and signing cannot resume until a correct passphrase is supplied": the  *)
(* key comes back only for the passphrase of the current document.  Not    *)
(* so: an unlock that has cloned the document before another call replaces *)
(* it takes the old passphrase.                                            *)
UnlockNeedsCurrentPassphrase ==
  [][(up = "up" /\ ~key /\ key') =>
       \E c \in Calls : pc[c] = "deriving" /\ pc'[c] = "idle" /\ pass[c] = doc]_vars

=============================================================================
