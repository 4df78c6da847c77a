----------------------------- MODULE Publishing -----------------------------
(***************************************************************************)
(* The life of a package: built, packaged, signed and published by the     *)
(* command line tool (sdk/cli/src), let into the registry by its validator *)
(* and verifier (store/registry), served by a host and installed by the    *)
(* daemon (os/solweard/src/apps.rs, package.rs, manifest.rs).  The three   *)
(* read manifests and signatures with code of their own.                   *)
(*                                                                         *)
(* A digest stands for the bytes it is of, so an entry's sha256 is the     *)
(* archive itself.  A manifest is an id, a version MAJOR.MINOR.PATCH and   *)
(* the one thing that is odd about it; the other files are a body, of so   *)
(* many entries (manifest.json among them) and with one oddity.            *)
(* Signatures are those signEntries makes; who holds a key is the          *)
(* developers' business.                                                   *)
(***************************************************************************)
EXTENDS Naturals, SequencesExt

CONSTANTS
  Devs,         \* projects, each with a working tree and a dist directory
  Keys,         \* publisher keys; a new one is none of those before
  Ids,          \* application ids; their order is that of the strings
  IdForm,       \* what is odd about each id
  Versions,
  Trees,        \* what a working tree may hold: a manifest and a body
  Spoilt,       \* a body no tree has: that of a damaged file
  Size, Shape,  \* the number of entries of each body, and its oddity
  MaxEntries,   \* MAX_ENTRIES of the daemon and of the registry's tool
  None,
  Other,        \* an application installed without pins, whatever it is
  MaxEdits, MaxSigns   \* bounds on edits of a tree and on signings

ManForms == {"plain", "no entry", "blank name", "no capabilities",
             "no author", "wallet face", "extra field", "other sdk",
             "long name", "doubled capability"}
IdForms  == {"plain", "hyphen root", "digit label", "reserved"}

Shapes   == {"plain", "spaced path", "colon path", "other page", "too large"}

Manifests == [id : Ids, ver : Versions, form : ManForms]
Bodies    == {t.body : t \in Trees}
Contents  == Bodies \cup {Spoilt}

ASSUME PublishingAssumption ==
  /\ Ids \subseteq Nat /\ Versions \subseteq Nat
  /\ IdForm \in [Ids -> IdForms]
  /\ \A t \in Trees : t = [man |-> t.man, body |-> t.body] /\ t.man \in Manifests
  /\ Spoilt \notin Bodies
  /\ Size \in [Contents -> Nat] /\ Shape \in [Contents -> Shapes]
  /\ MaxEntries \in Nat
  /\ None \notin Trees \cup Keys /\ Other # None
  /\ MaxEdits \in Nat /\ MaxSigns \in Nat

VARIABLES
  tree,      \* each project's sources
  key,       \* each developer's publisher.key.json
  made,      \* the keys there have been
  dist,      \* the files in dist, or None if it cannot be packaged
  swa,       \* the packages in dist, by file name
  branch,    \* the proposed index and the packages checked in with it
  main,      \* the published ones
  hosted,    \* what is served under the url of each name
  device,    \* what is installed under each id
  edits, signs

project == <<tree, key, made, dist, swa>>
store   == <<branch, main>>
vars    == <<project, store, hosted, device, edits, signs>>

(* An archive is files and the signature document that is with them: it is *)
(* made of its entries in the order of their paths, without a time.  What  *)
(* `solwear publish` leaves in dist is one file more, whatever it says: no *)
(* two signed archives are alike anyway.                                   *)
Names     == Ids \X Versions
Name(m)   == <<m.id, m.ver>>
Files     == [man : Manifests, body : Contents, entryFile : BOOLEAN]
Documents == [key : Keys, files : Files, at : 1..MaxSigns]
Archives  == [files : Files, sig : Documents \cup {None}]
Entries   == [man : Manifests, key : Keys, sha : Archives]
Catalogs  == [index : Seq(Entries), packages : [Names -> Archives \cup {None}]]

Empty     == [n \in Names |-> None]
Listed(c) == Range(c.index)

TypeOK ==
  /\ tree \in [Devs -> Trees]
  /\ key \in [Devs -> Keys]
  /\ made \subseteq Keys
  /\ dist \in [Devs -> Files \cup {None}]
  /\ swa \in [Devs -> [Names -> Archives \cup {None}]]
  /\ branch \in Catalogs
  /\ main \in Catalogs
  /\ hosted \in [Names -> Archives \cup {None}]
  /\ device \in [Ids -> Archives \cup {None, Other}]
  /\ edits \in 0..MaxEdits /\ signs \in 0..MaxSigns

Init ==
  /\ tree \in [Devs -> Trees]
  /\ key \in [Devs -> Keys]
  /\ made = Range(key)
  /\ dist = [d \in Devs |-> None]
  /\ swa = [d \in Devs |-> Empty]
  /\ branch = [index |-> << >>, packages |-> Empty]
  /\ main = branch
  /\ hosted = Empty
  /\ device = [i \in Ids |-> None]
  /\ edits = 0 /\ signs = 0

-----------------------------------------------------------------------------
(* createZip, and the entries it writes.                                   *)
Archived(files, sig) == [files |-> files, sig |-> sig]

FileCount(files) == Size[files.body] + (IF files.entryFile THEN 1 ELSE 0)

EntryCount(a) == FileCount(a.files) + (IF a.sig = None THEN 0 ELSE 1)

(* The three readers of a manifest.                                        *)
(* ID_PATTERN wants letters and digits in the first label; a missing entry *)
(* is taken to be index.html.                                              *)
CliParses(m) ==
  /\ IdForm[m.id] # "hyphen root"
  /\ m.form \notin {"blank name", "no capabilities", "doubled capability"}

(* Each label starts with a letter, and the shell's id is taken; entry and *)
(* name are required, capabilities are not.                                *)
DaemonParses(m) ==
  /\ IdForm[m.id] \notin {"digit label", "reserved"}
  /\ m.form \notin {"no entry", "blank name"}

(* What both schemas ask of an entry's fields: pattern, enum, maxLength.   *)
(* They know of no reserved id, and count a blank as a name.               *)
EntrySchemaTakes(m) ==
  /\ IdForm[m.id] # "digit label"
  /\ m.form \notin {"other sdk", "long name"}

(* And what manifest.schema.json asks: required, additionalProperties,     *)
(* uniqueItems.                                                            *)
SchemaTakes(m) ==
  /\ EntrySchemaTakes(m)
  /\ m.form \notin {"no entry", "no capabilities", "no author"}
  /\ m.form # "extra field"
  /\ m.form # "doubled capability"

(* A watchface may not sign.                                               *)
ManifestSemanticsOK(m) == m.form # "wallet face"

RegistryParses(m) == SchemaTakes(m) /\ ManifestSemanticsOK(m)

(* The document lists the archive's files, neither more nor other ones.    *)
Covers(doc, a) == doc.files = a.files

Verifies(a) == a.sig # None /\ Covers(a.sig, a)

(* Two readers of an archive set the same limits, to signature.json too,   *)
(* and differ in what a path may hold.  The tool's own reader sets none.   *)
DaemonReads(a) ==
  /\ EntryCount(a) <= MaxEntries
  /\ Shape[a.files.body] \notin {"colon path", "too large"}
  /\ DaemonParses(a.files.man)

(* Mutant: signature.json does not count.                                  *)
RegistryReadsOneMore(a) ==
  /\ FileCount(a.files) <= MaxEntries
  /\ Shape[a.files.body] \notin {"spaced path", "too large"}

RegistryReads(a) ==
  /\ EntryCount(a) <= MaxEntries
  /\ Shape[a.files.body] \notin {"spaced path", "too large"}

(* install_bytes, up to the directories.                                   *)
DaemonTakes(a, unsigned, pin) ==
  /\ pin # None => a = pin.sha
  /\ DaemonReads(a)
  /\ a.sig # None => Covers(a.sig, a)
  /\ a.sig = None => unsigned
  /\ pin # None => a.sig # None /\ a.sig.key = pin.key

(* verifyPackageEntries: index.html is required, whatever entry says.      *)
RegistryAccepts(a, e) ==
  /\ RegistryReads(a)
  /\ Shape[a.files.body] # "other page"
  /\ RegistryParses(a.files.man)
  /\ e.man = a.files.man
  /\ Verifies(a) /\ a.sig.key = e.key

(* Mutant: the digest is not compared.                                     *)
RegistryTakesAny(a, e) == RegistryAccepts(a, e)

(* verifyPackageBytes.                                                     *)
RegistryTakes(a, e) == a = e.sha /\ RegistryAccepts(a, e)

-----------------------------------------------------------------------------
(* The working tree changes.                                               *)
Edit(d, t) ==
  /\ edits < MaxEdits
  /\ edits' = edits + 1
  /\ tree' = [tree EXCEPT ![d] = t]
  /\ UNCHANGED <<key, made, dist, swa, store, hosted, device, signs>>

(* `solwear keygen --force`.                                               *)
Keygen(d, k) ==
  /\ k \notin made
  /\ made' = made \cup {k}
  /\ key' = [key EXCEPT ![d] = k]
  /\ UNCHANGED <<tree, dist, swa, store, hosted, device, edits, signs>>

(* What buildProject copies into an empty dist.                            *)
Built(d) == [man |-> tree[d].man, body |-> tree[d].body, entryFile |-> FALSE]

(* `solwear build`: dist, with any package in it, is made anew.            *)
Build(d) ==
  /\ CliParses(tree[d].man)
  /\ dist' = [dist EXCEPT ![d] = Built(d)]
  /\ swa' = [swa EXCEPT ![d] = Empty]
  /\ UNCHANGED <<tree, key, made, store, hosted, device, edits, signs>>

(* One that fails once dist has been emptied, that of package, publish or  *)
(* install, too: there is no manifest.json, and nothing to be packaged.    *)
BuildFails(d) ==
  /\ CliParses(tree[d].man)
  /\ dist' = [dist EXCEPT ![d] = None]
  /\ swa' = [swa EXCEPT ![d] = Empty]
  /\ UNCHANGED <<tree, key, made, store, hosted, device, edits, signs>>

Pack(d, files, others) ==
  /\ CliParses(files.man)
  /\ dist' = [dist EXCEPT ![d] = files]
  /\ swa' = [swa EXCEPT ![d] =
       [others EXCEPT ![Name(files.man)] = Archived(files, None)]]
  /\ UNCHANGED <<tree, key, made, store, hosted, device, edits, signs>>

(* `solwear package` builds first.  So do publish and install, which then  *)
(* refuse what they have packaged because it is not signed.                *)
Package(d) == CliParses(tree[d].man) /\ Pack(d, Built(d), Empty)

(* --no-build, of package, and of publish and install where dist has no    *)
(* package of the tree's name: the files are those of an earlier build,    *)
(* and registry-entry.json where something was published since.            *)
PackageNoBuild(d) ==
  /\ CliParses(tree[d].man)
  /\ dist[d] # None
  /\ Pack(d, dist[d], swa[d])

(* signEntries: an earlier signature.json is left out.                     *)
Document(k, files, now) == [key |-> k, files |-> files, at |-> now]

(* `solwear sign`: the package of the tree's name, or another by its path. *)
(* The time makes no two archives alike.                                   *)
Sign(d, n) ==
  /\ swa[d][n] # None
  /\ signs < MaxSigns
  /\ signs' = signs + 1
  /\ LET files == swa[d][n].files
     IN  swa' = [swa EXCEPT ![d][n] = Archived(files, Document(key[d], files, signs'))]
  /\ UNCHANGED <<tree, key, made, dist, store, hosted, device, edits>>

(* mergeIntoRegistry: pushed, then sorted by id and version, which takes   *)
(* the entry behind those that come before it in a sorted index.           *)
Before(e, f) ==
  \/ e.man.id < f.man.id
  \/ e.man.id = f.man.id /\ e.man.ver <= f.man.ver

(* Mutant: pushed and left there.                                          *)
AddedLast(index, e) == Append(index, e)

Added(index, e) ==
  LET earlier == {i \in 1..Len(index) : Before(index[i], e)}
  IN  InsertAt(index, Cardinality(earlier) + 1, e)

EntryOf(a) == [man |-> a.files.man, key |-> a.sig.key, sha |-> a]

(* publishCommand up to the registry: the entry is written into dist.      *)
WritesEntry(d, n) ==
  /\ CliParses(tree[d].man)
  /\ dist[d] # None
  /\ swa[d][n] # None
  /\ CliParses(swa[d][n].files.man)
  /\ Verifies(swa[d][n])
  /\ dist' = [dist EXCEPT ![d].entryFile = TRUE]

PublishAs(d, n, index) ==
  /\ WritesEntry(d, n)
  /\ branch' = [branch EXCEPT !.index = Added(index, EntryOf(swa[d][n]))]
  /\ UNCHANGED <<tree, key, made, swa, main, hosted, device, edits, signs>>

(* Mutant: a version published again takes the place of the earlier one.   *)
PublishAgain(d, n) ==
  PublishAs(d, n, SelectSeq(branch.index, LAMBDA e : Name(e.man) # n))

(* `solwear publish --package`, or --no-build where the package is there.  *)
Publish(d, n) ==
  /\ \A e \in Listed(branch) : Name(e.man) # n
  /\ PublishAs(d, n, branch.index)

(* --dry-run, or a version the index has: nothing is added.                *)
PublishDry(d, n) ==
  /\ WritesEntry(d, n)
  /\ UNCHANGED <<tree, key, made, swa, store, hosted, device, edits, signs>>

(* The package is put where its url points, or next to the index.          *)
Upload(d, n) ==
  /\ swa[d][n] # None
  /\ hosted' = [hosted EXCEPT ![n] = swa[d][n]]
  /\ UNCHANGED <<project, store, device, edits, signs>>

CheckIn(d, n) ==
  /\ swa[d][n] # None
  /\ branch' = [branch EXCEPT !.packages[n] = swa[d][n]]
  /\ UNCHANGED <<project, main, hosted, device, edits, signs>>

-----------------------------------------------------------------------------
(* checkRegistrySemantics: one entry per version, ascending, those of one  *)
(* id next to each other, under one key.                                   *)
SameId(e, f) == e.man.id = f.man.id

InOrder(index) ==
  \A i, j \in 1..Len(index) :
    i < j /\ SameId(index[i], index[j]) =>
      /\ index[i].man.ver < index[j].man.ver
      /\ \A k \in i..j : SameId(index[i], index[k])

(* Mutant: a change of key goes through.                                   *)
AnyKey(index) == TRUE

OneKey(index) ==
  \A i, j \in 1..Len(index) :
    SameId(index[i], index[j]) => index[i].key = index[j].key

(* validate.mjs.                                                           *)
IndexPasses(index) ==
  /\ \A e \in Range(index) : EntrySchemaTakes(e.man)
  /\ InOrder(index)
  /\ OneKey(index)

(* verify-packages.mjs --offline.                                          *)
PackagesPass(c) ==
  \A e \in Listed(c) :
    /\ c.packages[Name(e.man)] # None
    /\ RegistryTakes(c.packages[Name(e.man)], e)

Passes(c) == IndexPasses(c.index) /\ PackagesPass(c)

Merge ==
  /\ branch # main
  /\ Passes(branch)
  /\ main' = branch
  /\ UNCHANGED <<project, branch, hosted, device, edits, signs>>

(* The proposal is dropped.                                                *)
Close ==
  /\ branch # main
  /\ branch' = main
  /\ UNCHANGED <<project, main, hosted, device, edits, signs>>

-----------------------------------------------------------------------------
Install(a, unsigned, pin) ==
  /\ DaemonTakes(a, unsigned, pin)
  /\ device' = [device EXCEPT ![a.files.man.id] =
                  IF pin = None THEN Other ELSE a]
  /\ UNCHANGED <<project, store, hosted, edits, signs>>

(* What a download may bring: the hosted file, whole or damaged.           *)
Fetched(n) ==
  IF hosted[n] = None THEN {}
  ELSE {hosted[n], [hosted[n] EXCEPT !.files.body = Spoilt]}

(* apps.install with a url and what the published entry pins, or with no   *)
(* pins.  Its allowUnsigned defaults to what is local.                     *)
InstallPinned(e) ==
  \E a \in Fetched(Name(e.man)), unsigned \in BOOLEAN : Install(a, unsigned, e)

InstallUrl(n) ==
  \E a \in Fetched(n), unsigned \in BOOLEAN : Install(a, unsigned, None)

InstallFile(d, n) ==
  /\ swa[d][n] # None
  /\ \E unsigned \in BOOLEAN : Install(swa[d][n], unsigned, None)

(* `solwear install` takes --allow-unsigned and does not pass it on.       *)
CliInstall(d, n) ==
  /\ swa[d][n] # None
  /\ Install(swa[d][n], FALSE, None)

Uninstall(i) ==
  /\ device[i] # None
  /\ device' = [device EXCEPT ![i] = None]
  /\ UNCHANGED <<project, store, hosted, edits, signs>>

Develop(d) ==
  \/ \E t \in Trees : Edit(d, t)
  \/ \E k \in Keys : Keygen(d, k)
  \/ Build(d) \/ BuildFails(d)
  \/ Package(d)
  \/ PackageNoBuild(d)
  \/ \E n \in Names :
       Sign(d, n) \/ Publish(d, n) \/ PublishDry(d, n) \/ Upload(d, n)
         \/ CheckIn(d, n) \/ InstallFile(d, n) \/ CliInstall(d, n)

Next ==
  \/ \E d \in Devs : Develop(d)
  \/ Merge
  \/ Close
  \/ \E n \in Names : InstallUrl(n)
  \/ \E e \in Listed(main) : InstallPinned(e)
  \/ \E i \in Ids : Uninstall(i)

Spec == Init /\ [][Next]_vars

-----------------------------------------------------------------------------
(* What has been merged can be installed: the daemon takes the archive an  *)
(* entry is about, with the entry's pins (three implementations of the     *)
(* manifest rules, of the archive's limits and of the signature agree).    *)
(* Left out are the shell's own id, which neither the tool nor the         *)
(* registry knows to be reserved, and a colon in a path, which only the    *)
(* daemon refuses.                                                         *)
MergedIsInstallable ==
  \A e \in Listed(main) :
    IdForm[e.man.id] # "reserved" /\ Shape[e.sha.files.body] # "colon path"
      => DaemonTakes(e.sha, FALSE, e)

(* Whatever was signed again, uploaded late, replaced or damaged, an       *)
(* application installed with an entry's pins is the very archive the      *)
(* registry's checks have read, and still the one beside the index.        *)
StoreAppIsReviewed ==
  \A i \in Ids : device[i] \notin {None, Other} =>
    /\ main.packages[Name(device[i].files.man)] = device[i]
    /\ RegistryParses(device[i].files.man)

(* The index `solwear publish` writes is in the order validate.mjs wants,  *)
(* whatever order versions are published in.                               *)
ProposalIsInOrder == InOrder(branch.index)

(* An update with pins is signed by the key the version before it was      *)
(* signed by, though the daemon compares no keys.                          *)
KeyIsKept ==
  [][\A i \in Ids : device[i] \notin {None, Other} /\ device'[i] \notin {None, Other}
       => device[i].sig.key = device'[i].sig.key]_vars

(* A published version is immutable: no entry leaves the index or changes. *)
HistoryIsKept == [][Listed(main) \subseteq Listed(main')]_vars

=============================================================================
