----------------------------- MODULE WalletKey -----------------------------
(***************************************************************************)
(* What the keystore promises the rest of the daemon, whatever mutexes and *)
(* temporary files it uses: how what is on disk under wallet.key and what  *)
(* the running daemon has in memory may change.  A document is named by    *)
(* the passphrase that opens it.                                           *)
(*                                                                         *)
(* The file is replaced in one step; memory follows or, if the change      *)
(* fails in between, does not.  The key comes back only for a passphrase   *)
(* whose document this daemon has held: after a restart, for the one on    *)
(* disk.                                                                   *)
(***************************************************************************)
CONSTANTS
  Passphrases,
  NoDoc        \* no document in memory; no passphrase used

VARIABLES
  disk,        \* nothing that loads, a raw seed or a document
  doc,         \* the document an unlock will try, if there is one
  key,         \* whether the signing key is in memory
  held,        \* every document memory has had since the daemon started
  opener       \* the passphrase the key was last brought back with

vars == <<disk, doc, key, held, opener>>

TypeOK ==
  /\ disk \in {"none", "seed"} \cup Passphrases
  /\ doc \in Passphrases \cup {NoDoc}
  /\ key \in BOOLEAN
  /\ held \subseteq Passphrases
  /\ opener \in Passphrases \cup {NoDoc}

(* No daemon runs, or one that has not read its key file.                  *)
Down == doc = NoDoc /\ key = FALSE /\ held = {} /\ opener = NoDoc

Init == disk = "none" /\ Down

(* A first start gives the device its key.                                 *)
Create ==
  /\ disk = "none" /\ Down
  /\ disk' = "seed"
  /\ key' = TRUE
  /\ UNCHANGED <<doc, held, opener>>

Die == Down' /\ UNCHANGED disk

(* The daemon starts on a key file that loads.                             *)
Reload ==
  /\ disk # "none"
  /\ key' = (disk = "seed")
  /\ doc' = IF disk = "seed" THEN NoDoc ELSE disk
  /\ held' = {disk} \cap Passphrases
  /\ opener' = NoDoc
  /\ UNCHANGED disk

Load == Down /\ Reload

(* wallet.setPassphrase, refused without the key: the file is replaced ... *)
Replace(p) ==
  /\ key
  /\ disk' = p
  /\ UNCHANGED <<doc, key, held, opener>>

(* ... and the document in memory becomes the one on disk.                 *)
Publish ==
  /\ key
  /\ disk \in Passphrases
  /\ doc' = disk
  /\ held' = held \cup {disk}
  /\ UNCHANGED <<disk, key, opener>>

(* wallet.lock: refused when there is no document to unlock from.          *)
Lock ==
  /\ doc # NoDoc
  /\ key' = FALSE
  /\ opener' = NoDoc
  /\ UNCHANGED <<disk, doc, held>>

(* wallet.unlock with the passphrase p.                                    *)
Unlock(p) ==
  /\ doc # NoDoc
  /\ p \in held
  /\ key' = TRUE
  /\ opener' = p
  /\ UNCHANGED <<disk, doc, held>>

CanSign == key

(* What the daemon's calls may do to the keystore.                         *)
Call == Publish \/ Lock \/ \E p \in Passphrases : Replace(p) \/ Unlock(p)

Next == Create \/ Die \/ Load \/ Call

Spec == Init /\ [][Next]_vars

=============================================================================
