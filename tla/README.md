# SolWear OS in TLA+

Models, model-checking runs and machine-checked proofs for the parts of SolWear
OS where order, failure and concurrency decide whether the watch is right. Every
definition is translated from the source; `PROJECT.json` names the lines.

## 1. The system

| Component | State | Operations | Interacts with |
| --- | --- | --- | --- |
| **solweard: state** (`os/solweard/src/state.rs`) | notifications, wallet activity, sequence counter, registered shells, waiting confirmations | post, list, record, register, push, request and resolve a confirmation | every RPC handler, the shells |
| **solweard: gate and dispatch** (`rpc.rs`, `server.rs`) | connections, one task per call, one writer per connection | resolve the caller, check the capability, dispatch | shells over WebSocket, all of the daemon |
| **keystore** (`wallet.rs`) | `wallet.key`, the key and the encrypted document in memory | load or create, set passphrase, lock, unlock, sign | file system, `sign_transaction` |
| **application store** (`apps.rs`, `package.rs`, `manifest.rs`, `main.rs`) | application directories, staging and backup directories, a mutex | install, update, uninstall, list | file system; also run as `solweard install` beside the daemon |
| **hardware abstraction** (`hal/`) | mock battery and sensors, or sysfs | read, set brightness, vibrate | dispatch |
| **shell** (`os/shell/src/shell.ts`) | view, surface, overlay, lists fetched from the daemon, watchface setting | gestures, navigation, rendering, events, timers | RPC client, application host |
| **shell RPC client** (`os/shell/src/rpc.ts`) | socket, pending calls, timers, back-off | connect, call, receive, drop | daemon, shell, application host |
| **application host** (`os/shell/src/bridge.ts`) | the current frame and its application | mount, unmount, broker messages | SDK in the frame, RPC client |
| **application SDK** (`sdk/runtime/src`) | context, pending calls, emitter | handshake, call, events | application host |
| **developer CLI** (`sdk/cli`) | a project's sources, `dist`, packages, the publisher's key | build, watch, run, package, keygen, sign, publish, install | registry checkout, the daemon over SSH, the emulator |
| **store registry** (`store/registry`) | `index.json`, checked-in packages | validate, verify packages, merge | CLI, CI, the host of the packages |
| **emulator** (`emulator/host`) | a mock daemon with its own wallet and confirmations, WebSocket connections, device profile and hardware values; a window with the shell in a frame | answer calls, ask for confirmation, switch profile, control, watch `dist`, reload | CLI (`solwear run`), the shell, a reference shell, browsers |
| **editor extension** (`sdk/vscode`), **applications** (`apps`), **image** (`image`), docs | pages; systemd units | | |

An application's call travels SDK -> `postMessage` -> AppHost -> RpcClient ->
WebSocket -> its own task in the daemon, and its answer the same way back. The
daemon also pushes events to every registered shell. The daemon's runtime has
several threads and each call is a task, so everything interleaves at locks and
awaits; a page is one thread and interleaves between handlers and at awaits.
systemd restarts a daemon that died (`image/systemd/solweard.service`).

What is hard, and what each component must keep:

* **Signing.** A prompt, the user's tap, a timeout, a lost shell, a locked
  wallet and a restarted daemon race. Right means: no signature without an
  approving tap, a refusal is final, every call ends, the record is kept.
* **Keystore.** A passphrase change is five steps on two files and two mutexes,
  and the daemon may die in any. Right means: the key file always loads, holds
  the same identity, and is encrypted once the wallet says so.
* **Store.** Renames, failures, deaths and a second process. Right means: what
  is under an application's name is whole, and a failed update changes nothing.
* **Bridge.** Frames are replaced while messages and calls are under way. Right
  means: a call carries its own application's id, and every call is settled.
* **Shell.** One surface and one hosted frame are shared by pages, applications
  and watchfaces. Right means: what is on screen is what the state says.
* **Packages.** Three programs judge a package with rules of their own, and
  between them it is signed again, rebuilt, moved and downloaded. Right means:
  what one lets through the next takes, and it is the same file throughout.
* **Tray.** Events and a fetched list cross. Right means: nothing stale, nothing
  missing.
* **Link.** The shell loses its socket, backs off, gives calls up and comes back
  while the daemon still works on them. Right means: one way to the daemon, an
  answer settles its own call, and what the shell shows catches up.
* **Emulator.** A daemon written a second time must ask like the first, its
  WebSocket must put messages together from any frames and chunks, and an edit
  must get through two builders, a watcher and a reload to every window. It
  serves one of two shells: the device's, when that has been built, or its own.

The complete list, by line, is under `hazards` in `PROJECT.json`.

## 2. Modules

| Module | Models |
| --- | --- |
| `SigningConsent` | abstract: what signing promises the owner of the watch |
| `Confirmation` | sign_transaction, request_confirmation, resolve_confirmation, record_wallet_activity, shell connections, the overlay |
| `WalletKey` | abstract: what the keystore promises the daemon; the wallet `Confirmation` sees |
| `Wallet` | wallet.rs down to file system steps |
| `AppCatalog` | abstract: an atomic install, update and uninstall |
| `AppStore` | apps.rs and extract_to down to file system steps, by several processes |
| `AppBridge` | AppHost and the SDK's bridge, with frames, documents and messages |
| `ShellView` | view, surface and hosted frame |
| `Tray` | the daemon's notification list and the shell's copy |
| `Publishing` | the life of a package: CLI commands, the registry's checks, the host, what the daemon takes |
| `ShellLink` | RpcClient: socket, back-off, calls, timeouts; the application list and the brightness kept over it |
| `EmulatorSigning` | the emulator's confirmations, wallet and connections, with both kinds of shells and other clients |
| `DevLoop` | `build --watch`, `solwear run`, the emulator's watcher, profile and brightness, and a window |
| `MessageChannel` | abstract: each message once, whole, in order |
| `WebSocket` | ws.mjs down to the bytes of frames |
| `MC*` | small instances of each for TLC |
| `*Proofs` | theorems for any instance, checked by TLAPS |

`Confirmation` composes with the keystore through `Key == INSTANCE WalletKey`,
and `Wallet` is shown to implement `WalletKey`: the signing path is checked
against the promise, the files against keeping it. `EmulatorSigning` is held to
the same `SigningConsent` as the device's daemon.

### Confirmation

`pc[r]` follows call `r` through its handler; each step is what runs between two
awaits or under one lock. A call stands for its application and payload. The
sequence number is `nextId`, which a restart sets back to 1. `pending` and
`slot` are the map of senders and the oneshot channels: an answer takes the
sender out (`ResolveConfirmation`) and counts if the receiver is still there.
`Expire` (tokio's timeout) and `Withdraw` (drop, remove, cancel) are separate,
because an answer can fall between them. Events to a shell are a queue per
connection; answers are a set, since the daemon handles each on its own task.
`Disconnect` loses a socket and keeps the page; `ReloadPage` loses both;
`WriterEnds` is the dead connection that still counts as a shell until its
writer task ends. `BeginRecord`/`EndRecord` are the file being emptied and
filled, under the mutex of the list; the code ignores the result of fs::write,
so the file may also stay as it is (it cannot be opened) or stay torn (the write
fails). `saved` is the list of the last write that could open the file and
`behind` says that entries have come since. The branch `Ok(Err(_))` of
request_confirmation is not an action: the sender is dropped only by the call
itself or after a send.

### Wallet

A document is the passphrase that opens it; a file is absent, torn, the seed or
a document. `holder` is the signing_key mutex, kept through the whole of
set_passphrase; the document has a mutex of its own, held only for single reads
and writes. A crash may come between any two steps; `SetFails` is an error at
any step of replace_private, the chmod after the rename included. `held` is
every document this daemon has had in memory and `opener` the passphrase the key
was last brought back with. `WalletKey` has the file, the document in memory and
the key as three variables, so that it tells a passphrase that is on disk from
one that an unlock will try; only a file that does not load is "none" to it.

### AppStore

One application's directory, and staging and backup directories by name. An
install is nine steps (wait, extract, record, stash, activate or restore,
clean), an uninstall three. A directory is partial while it is written or
removed. Any operation may fail (`MaxFaults`), a process may die between any two
(`MaxCrashes`), and names, being a process id and a counter, may come back after
a death but are unique among live processes.

### AppBridge

A frame belongs to one application for good and may load several documents; each
document's SDK counts its calls from 1. `toShell`/`toApp` are the posted
messages. `Broker` forwards under the id of the current frame's application,
`Deny` answers on the spot, `Finish` posts to whatever frame is current by then.
The load event and init may come before or after the handshake timeout.

### ShellView

Each handler is one action, with the render it ends in (`Rendered`). AppHost's
record and what is really on the surface are two variables: clearing the surface
removes a frame without AppHost being told. A list of applications arrives
(`TakeApps`) before it is drawn, in refreshAll three other calls later; `drawn`
is the list the surface was last drawn from, whose tiles and watchfaces can be
pressed. A tile's call to apps.launch and the event it causes are separate: the
call may fail, also by RpcClient's timeout, long after the user has gone
elsewhere, and then opens its application, listed or not (`LaunchFails`). What
trackPointer makes of a pointer's way is a direction at any time, since the
arrow keys give the same.

### Tray

A post changes the list under the mutex and pushes after it. Events and the
answer to notifications.list are two queues, because the connection's writer
takes from both in any order.

### Publishing

A digest stands for the bytes it is of, so an entry's `sha` is the archive, and
a signature document holds the files it lists. A manifest is an id, a version
and the one thing that is odd about it (`form`, `IdForm`): each reader
(`CliParses`, `DaemonParses`, `RegistryParses`) is the set of oddities it
refuses; `Shape` is the one thing that is odd about an archive (a path with a
space or a colon, a page beside the entry, too many bytes) and `Size` how many
files it has, so that each reader's count of entries (`EntryCount` and what
`RegistryReads` and `DaemonReads` make of it) meets the limit. publish leaves
registry-entry.json in `dist` (`Files.entryFile`), where a later `package
--no-build` finds it. `tree`, `dist` and `swa` are a project's sources, its dist
directory and the packages there; every command is an action on them. `branch`
and `main` are the proposed and the published index with the packages beside
them; `Passes` is what CI runs on a proposal. The host, the branch and its
merging are not code of the repository: anything may be uploaded or checked in
at any time, and a download may be damaged. Sources and keys are changed by hand
(`Edit`, `Keygen`); index.json is only changed by the tool. A build that fails
once dist has been emptied leaves nothing to be packaged (`BuildFails`).

### ShellLink

`socket`, `retries` and `backoff` are the client's; a call is an id in `pending`
and a request on `wire`, which the daemon serves on a task of its own: requests
of one connection take effect and are answered in any order, and go on after
their connection is gone (`mine` is then false). `nextId` grows for ever;
`Fresh` stands for it by ids that are in use nowhere. A change of the
applications and its event are two steps; `InstallBeside` is `solwear install`
on the device, which no event tells of. The list is a version number, taken over
as it comes.

### EmulatorSigning

The emulator is one JavaScript thread, so a message is one action; a connection
is a queue each way. `verdict` follows a call at the daemon, `pending` in its
client, and `asking` is the prompt a page shows. The reference shell asks with
confirm(), which holds its page up: it handles nothing, not even the close of
its socket, until the user has answered (`Free`). The device's shell (`Real`)
draws its prompt and carries on: a second prompt replaces it, and it is still
there when the socket is lost, the emulator started again and a new socket
opened. The emulator takes an answer from any connection (`Volunteer` is a
client that was asked nothing), and its ids start at 1 with each start. Prompts
and answers carry, for the properties only, the start of the emulator they are
of; `unasked` are the calls that were ended by an answer which no prompt of the
emulator, as it then ran, had drawn.

### DevLoop

The source is three version numbers: of the code, of the files that are copied,
and of the project, which is what findProject makes of manifest.json and the
presence of assets/. A builder finds the project (`build --watch` once, at its
start), empties dist, reads the code, writes the bundle and stages the rest: the
files and manifest.json as they are, but by the project it has found. Two
builders may do so at once. `Edit` is a save that a watch reports, `EditBelow`
one beside src/ below the root, which none does. The watches are assumed to lose
no change, but may be late and merge some (`touched`, `edited`); the emulator's,
which is on dist, may be lost when a build removes that directory (`watched`),
as it is on Linux and need not be elsewhere. The emulator reads the manifest
once (`served`). A window is its shell (`frame`), its event stream (`sub`,
`notices`) and what it shows (`seen`): the reference shell loads the application
by itself and shows no brightness; in the device's shell the user opens and
leaves the application, and events bring the brightness, which stands for the
values of the mock hardware.

### WebSocket

A client's frames become bytes, arrive in chunks cut anywhere and go through
`Iterate`, one turn of onData's loop. The lengths at which a header changes its
form and the limit on a payload are constants (126, 65536 and 8 MiB in the
code). `sent` and `got` are what the two ends of `MessageChannel` have seen;
`said` is what sendFrame was given, each frame with the place in `out` where it
ends. The numbers of a header go out and are read as the two- and eight-byte
fields they are (`UInt16`, `ReadUInt64`), so the assumptions `Short <= 126` and
`Medium <= 65536` are those the code's own limits meet.

## 3. Runs

| Run | Question | Bounds |
| --- | --- | --- |
| `confirm_core` | do ids, signatures, the list and the file agree; does the first daemon implement `SigningConsent`; does every call end and an expired prompt go | 2 calls, 1 shell, 1 lost connection, 1 restart, list of 1 |
| `wallet_core` | key file, identity, protection, promise of `WalletKey` | 2 tasks, 2 passphrases, 2 crashes |
| `store_core` | nothing half installed, nothing destroyed; does a process alone implement `AppCatalog` | 3 jobs, 2 processes, 2 versions, 3 names, 2 faults, 1 death |
| `bridge_core` | is a call made under its own application's id; is every call settled, and ready() | 2 applications, 2 frames, 1 call, 1 reload |
| `view_core` | is the opened application, and no other, on screen | 2 watchfaces, 1 application, 2 unsettled launches |
| `tray_core` | nothing of an earlier life; nothing missing | 3 notifications, room for 2, 3 connections and restarts |
| `publishing_core` | does the daemon take what the registry has let in; is an installed application the archive that was checked; are order, keys and published entries kept | 1 project, 2 keys, 1 id, 2 versions, 3 source trees, archives of up to 4 entries, 1 edit or new key, 2 signatures |
| `link_core` | one way to the daemon; an answer is its call's; does the shell catch up; is every call settled | 3 ids, 2 brightness settings, back-off of 2, 1 change, 1 slide, 1 fault |
| `emulator_signing` | does the emulator implement `SigningConsent`; are its waiting calls those in its map; does every call end and every caller hear | a page of each shell, 1 tool, 2 calls, 1 of: a lost connection or page, a restart, an answer of the tool |
| `dev_loop` | does dist end as the source; does a window show what the emulator has, and in the end always | 1 window, 2 profiles, 2 `run`s, 2 of: edits, failing builds, lost streams, switches, changes of brightness |
| `websocket` | does the connection implement `MessageChannel`; is nothing left; can what is sent be read | 3 frames of up to 3 bytes and one that is too long, header forms at 2 and 3, 1 message of the server |

Two calls are enough for the confirmation: the hazards are between a call and
another one's prompt, id, answer or record. One shell is where a refusal is
final; the theorems cover any number. Two passphrases tell a current document
from a stale one, and two crashes put one inside the recovery from another.
Three jobs let an update fail between two others, a second fault lets its way
back fail too, and a death lets a job meet what another has left. Two frames let
a message or an answer outlive the frame it belongs to, and a reload does the
same inside one frame. A list with room for one or two reaches its cap with two
or three entries. Two signatures let a package be signed again after it was
published, two versions and two keys let them come in the wrong order or under
another key, and the third source tree is one the CLI takes and the daemon does
not; other oddities of manifests and more ids are in the theorems only (so the
order of entries of several ids is in neither). A limit of four entries is met
by an archive with its manifest, its files, its signature and the entry that
publish has left behind. Three ids let two lists be under way beside another
call; one change and one slide are enough to be missed or overtaken by a lost
connection. A page of each shell and a tool are a prompt that outlives its
connection, one that does not and a caller without a screen; a restart gives the
first call's id to the second. Losses, restarts and unasked answers share one
bound in `emulator_signing`, as what happens to a window and to a build does in
`dev_loop`: each kind is met at every step of the others' normal work, and the
theorems have them in any number. Two edits put one inside the build of another
or of a `run`; an edit and a fault are a build that fails, or a stream that is
down, when it matters; and two `run`s have the second find what the first has
left. Three frames are a message in two fragments with a ping or close between,
and with both thresholds below the longest payload every header form is cut at
every byte. `confirm_reused_id`, `wallet_core`, `store_core`, `view_core` and
`publishing_core` use symmetric sets; no run with liveness does.

Runs with `CHECK_DEADLOCK FALSE`: the jobs of `AppStore`, the calls and frames
of `AppBridge`, the notifications of `Tray`, the edits and signatures of
`Publishing`, the edits, runs and controls of `DevLoop` and the frames of
`WebSocket` are each used once, so an instance ends when they are used up. The
others are checked for deadlock.

One run ends in a violation on purpose; the sentence of the repository that it
contradicts is under `findings`. In `confirm_reused_id` request ids repeat after
a restart of the daemon, and a tap on a prompt that was left on screen approves
another request.

Seven more claims of the repository are stated in the modules and refuted by TLC
on the instances above, without a run of their own:

| Property | Claim | What the code does |
| --- | --- | --- |
| `DisappearanceDenies` (`Confirmation`) | state.rs:254-255 "a shell that disappears mid-prompt" denies the request | the call outlives the shell, and can be approved when it is back |
| `UnlockNeedsCurrentPassphrase` (`Wallet`) | wallet.rs:5-7 signing needs "a correct passphrase" once locked | an unlock under way accepts the passphrase of before a change |
| `AnswerMatchesCall` (`AppBridge`) | sdk/runtime/src/protocol.ts:53 "The shell's answer to one `rpc` message" | the answer goes to the frame that is current when it comes, whose ids start at 1 too |
| `SelectedFaceIsOnScreen` (`ShellView`) | shell.ts:330 the built-in watchface is "used unless an installed watchface is selected" | rendering the watch view again removes the selected one and leaves nothing |
| `SignedIsApproved` (`EmulatorSigning`) | server.mjs:165 "No prompt, no signature", daemon.mjs:308 "Never sign without an affirmative action from the wearer" | an answer to a prompt is taken from any connection (server.mjs:123); and ids start at confirm-1 again (server.mjs:173), so a tap on the prompt that the device's shell has kept through a restart signs a call whose own prompt nobody approved |
| `ManifestIsPickedUp` (`DevLoop`) | build.ts:132 "Watching the project root as well picks up index.html and manifest.json" | the new manifest.json is copied, and the build goes by the project found at the start (build.ts:108) |
| `RebuildIsShown` (`DevLoop`) | server.mjs:354 "Watch the app build output and reload the window when it changes" | the watch can go with the directory a build removes (build.ts:47, server.mjs:365), and the window keeps the build of before |

The models also show these, which no property singles out:

* a second prompt replaces the first on screen, and a cancellation clears the
  overlay whatever call it is for (`HandleEvent`; shell.ts:142-149);
* a daemon that dies while wallet-activity.json is rewritten in place starts
  with an empty history (`Restart` on a torn file; state.rs:146);
* an init that comes after the handshake timeout sets the context but leaves
  ready() detached (`Receive`; sdk/runtime/src/bridge.ts:177);
* an event and the fetched list cross: the tray shows a notification twice, or
  loses it when the list replaces it (`HandlePosted`, `HandleReply`);
* `solwear publish` right after `solwear sign` (sdk/cli/README.md:26-29) builds
  and packages afresh: the signed package is removed and the new, unsigned one
  is refused; so does `solwear install` (`Package`; publish.ts:47,
  install.ts:91);
* `solwear install --allow-unsigned` does not pass the flag on, and the daemon
  refuses the package (`CliInstall`; install.ts:135);
* "a package that verifies here will be accepted there" (verify.ts:4-6) is not
  so for an id with a label that starts with a digit, a missing `entry`, or the
  id of the shell, which neither the CLI nor the registry knows to be reserved
  (`CliParses` against `DaemonParses`);
  nor is it for a path with a colon or an archive that is full before it is
  signed (`RegistryReads` against `DaemonReads`);
* the registry-entry.json that publish leaves in dist goes into the archive of
  the next `package --no-build` (`WritesEntry`; publish.ts:80);
* CI runs `verify-packages.mjs --offline`, so an entry whose package is not
  checked in cannot be merged, though store/registry/README.md:39-40 says that
  packages of third parties are not checked in (`Passes`);
* two answers to apps.list cross, and the older list stays until the next change
  (`Receive`; shell.ts:131-133): without `~unsure` QuietListIsCurrent is
  refuted;
* a change that fs.watch reports after esbuild has read the source is not built
  (`Notice`; build.ts:121, where help.ts:26 says "rebuild on every change"), nor
  is one inside assets/ until something else is saved (`EditBelow`), and
  `solwear run` and `build --watch` empty each other's dist (`doubt`);
* a running emulator gives every window the name, entry and capabilities of the
  manifest it has read at its start (`Start`; solwear-emulator.mjs:127);
* a wallet-activity.json that cannot be opened stays as it was, an older list,
  and a restart then goes back to it (`BeginRecord`; state.rs:146);
* a build that ends while a window's event stream is down is not shown until the
  next one, other windows keep their bezel when one switches the profile, and a
  switch forgets what the cockpit had set (`NotifyReload`, `SwitchProfile`);
* in the emulator a lock does not stop the signature of a prompt that is up,
  setPassphrase works on a locked wallet, of two windows only the first to have
  connected is asked, and a call whose socket is lost stays unsettled in the
  reference shell for ever (`SignTransaction`, `SetPassphrase`, `Orphaned`);
* when the rename of an update fails and the rename that puts the old version
  back fails as well, its error is ignored: the application is gone until it is
  installed again, its files are in .backup-* (`RestoreFails`; apps.rs:241-245).
  With `faults <= 1` left out of `Solo`, `ImplementsCatalog` is refuted;
* after the emulator's server has ended a connection it still reads what comes,
  one frame a chunk, and emits its messages after "close"; and only a length in
  the eight-byte form is ever refused as too long (`Iterate`, `FirstFrame`).

### Fairness

`Confirmation`: each handler's next step (the runtime polls ready tasks, the
timer fires) and the delivery of events on a connection that stays up. Users,
shells, the wallet and crashes are not fair. `AppBridge`: delivery of posted
messages, the handshake timer, and the end of rpc.call, which RpcClient's
timeout guarantees. The load event is not fair. `Tray`: posts run to their end,
the daemon answers and an open connection delivers; the fetch may fail instead.
`ShellLink`: the daemon serves or the timer fires for each call, the client
reconnects, and the page handles its events and its 15 s refresh; these two are
strongly fair, because they need a free id of the few the instance has, and the
counter of the code never runs out. `EmulatorSigning`: messages on an open
connection are delivered and handled, and the 60 s timer fires; no user has to
answer, no client to send an answer, and the device's shell's 30 s timer is not
needed. `DevLoop`: processes run, timers fire, pages handle what arrives and
subscribe again, and the reference shell loads the application by itself; no
developer has to edit, and nobody has to open an application in the device's
shell. `WebSocket` has none: `NothingIsLeft` says that its loop does not stop
early.

## 4. Proofs

All theorems hold for any constants that satisfy the modules' `ASSUME`s: any
number of calls, shells, passphrases, frames, notifications, crashes and so on.

* **`ConfirmationProofs`.** `SignatureAnswersTap` is not inductive: nothing in
  it says where a yes comes from. `ConfirmInv` adds that ids drawn in this life
  are distinct and below `nextId`; that a prompt of this life, wherever it is
  (queue, screen, tap, answer under way), names the call that holds its id; and
  that a handler with a yes in hand has it from an approving tap. A restart
  makes all ids of the old life worthless, which is why a tap of an earlier life
  is only required to carry the same id. `DiskSound` rests on
  `RecorderHoldsLock`: the recorder holds the mutex until its write has ended,
  and what it is writing is the list in memory or, if it could not open the
  file, nothing. `ReleasedIsRecorded` follows from `NewestAreRecorded`: the
  calls of this life that were recorded are its newest entries until there are
  more than the list has room for, which the cut keeps because it takes the
  oldest. `ConsentRefinement` maps steps of the system to steps of
  `SigningConsent` for as long as the first daemon runs (`restarts = 0`): after
  a restart the promise does not hold, as `confirm_reused_id` shows.
* **`WalletProofs`.** `WalletInv` adds that whoever is in set_passphrase holds
  the mutex and the key, that its temporary file is whole before it is renamed,
  that a document is on disk before it is in memory, that what an unlock has
  cloned is a document this daemon has held, and that a daemon that is not up
  has no memory. From it follow the four invariants and the refinement to
  `WalletKey`, in which Rename is Replace and Commit is Publish: in between the
  mutex keeps the key in memory and the file as it is.
* **`AppStoreProofs`.** Neither `NeverHalfInstalled` nor `AppFilesSurvive` is
  inductive: a step moves a directory from one name to another, so all names
  count. `StoreInv` (in `AppStore`) says that a job inside its steps holds its
  process's mutex (`LocksAreHeld`), that no two installs in progress share names
  (`NamesAreApart`), that what is about to be moved in is whole
  (`StagedIsWhole`), that a ruin in the target or in a backup that may be put
  back is the work of another process's uninstall, one at most until an
  uninstall has been left undone (`RuinsAreUninstalls`), and that a whole copy
  is where no update cleans it away (`CopyIsSafe`). `CatalogRefinement` adds
  `Undisturbed`, for a process that is alone: nothing comes between the two
  renames of an update. It holds for one failure at most, as section 3 says; the
  other two for any number.
* **`PublishingProofs`.** `StoreInv` says that an entry is about its archive
  (signed, listed exactly, read by the CLI), that the published index is a part
  of the proposal and has passed the checks, and that what is installed with
  pins is listed. The digest makes the installed archive the one that was
  checked, and one key per id in the index is what keeps the key on the device.
  `AddedListed` says what inserting an entry does to an index.
  `ProposalIsInOrder` rests on entries being inserted before the first later
  one, in an index that is in order, and holds for any limit on entries and any
  sizes and shapes of trees.
* **`ShellLinkProofs`.** `LinkInv` is the two invariants with the type
  invariant: a socket is dropped with its timer set in the same step, and
  `SendSound` says that a new call's id is on no request under way, so that none
  of them can settle it. `QuietListIsCurrent` is about a shell that waits for
  nothing; `ListInv` is about one that waits: unless lists have crossed it has
  one apps.list at most, and once it has nothing more to ask, the list it shows
  or the one on its way is no older than the last change it was told of.
* **`ShellProofs`.** `TrayInv` follows the notifications of this life from the
  list through the queues to the tray; lemmas say what cutting and reversing a
  list return. `ViewInv`: `OpenedAppIsOnScreen` and `BuiltinWhenNoFace`, which
  is about the list the surface was last drawn from and not the one that has
  arrived since, are inductive together with the type invariant; `RenderEffect`
  says what a render leaves in each view. `StampInv`, for the bridge, adds that
  a frame has one application for good and that a message is queued under its
  own frame.
* **`EmulatorProofs`.** For signing, `SigningInv` adds to
  `ConfirmationsAreWaiting` that a call is on its way once, by its own maker and
  only while new (`CallsAreNew`), that each has one confirmation, that a yes
  drawn by a prompt is a user's (`AnswersAreMeant`), and that each prompt, shown
  or sent or the origin of an answer, is of an earlier start of the emulator or
  has an id given out since this one, under which no other call waits
  (`PromptsAreKnown`). Nothing is said of the ids of earlier starts, which come
  again, nor of answers no prompt has drawn: this is why `EmulatorRefinement`
  holds in every life, but not for calls that such an answer ends (`unasked`),
  where the device's daemon has only `restarts = 0`. For the edit loop,
  `BuildInv` says what a build under way has made and of which source, `PlanInv`
  that `run` has found its project no earlier than the watch, and `WindowInv`
  that a window which does not show what the emulator has is still to be told,
  unless it missed the notice or the watch on dist is lost.

* **`WebSocketProofs`.** Two parts. The first is about bytes. `Decode`: given
  the beginning of any written frame, readFrame wants more or refuses; given the
  whole of it and anything behind, it returns that frame and what is behind, or
  refuses one that is too long. It rests on the writer's numbers reading back
  (`UInt16Read`, `UInt64Read`, for every natural number: the first field of the
  eight bytes is not cut to 16 bits, and no payload is long enough to tell), on
  masking twice being nothing (`Unmasked`) and on the three forms of a header
  (`HeaderForm`). The second is the connection. Neither `NothingIsLeft` nor the
  order of messages is inductive, and no conjunct about the variables makes them
  so, for the frames that have been read are in none of them. `Inv` therefore
  says that there is a log: every frame the client has ever sent, its mask,
  where it ends among all bytes sent, and, after it, which message is incomplete
  and how many are complete (`Chain`); and a number `k` of frames read, such
  that the buffer and then the wire hold the bytes after the first `k`, all of
  them unless a reset has lost the rest (`InFlight`), and that `got`,
  `fragments` and `fragmentOpcode` are what those `k` frames come to (`Heard`).
  The client adds an entry (`Transmits`), a chunk moves bytes (`ArriveStep`),
  and a turn of the loop, by `Decode`, finds entry `k + 1` and nothing else
  (`Received`, `IterateStep`). With readFrame wanting more whenever the loop is
  idle, `NothingIsLeft` follows, for a whole frame would have been found; and
  `IterateStep` is also the refinement, since `got` grows by the next message of
  `sent` or not at all. For the server's frames `Framed` is the same with `said`
  as the log. No proof goes by induction over the bytes: a log entry says where
  its frame is, and the step that adds it knows.

`ShellProofs` extends three modules and `EmulatorProofs` two that share no
variable; the names of `ShellView`, `AppBridge` and `DevLoop` (`ViewSpec`,
`BridgeSpec`, `LoopSpec`) are told apart for that.

`TypeCorrect`, `PendingSound` and `BuiltinSound` are proved beside what the runs
check.

Only model-checked: all liveness, which with ENABLED is beyond the prover, and
`SignedOnlyWhatWasApproved`, which is false. Every other property of a run is
stated by a theorem.

## 5. Not modelled, and the plan

Of `Publishing` there is left out: a build that fails while it copies what it
stages, which leaves a part of it in dist, the bytes of the zip format, the case
of digests and algorithm names, manifests with a key twice or invalid UTF-8
(which the readers' parsers treat differently), pre-release versions, name,
publisher, type and url of an entry, index.json edited by hand, and two
proposals merged as text. Of the emulator: a socket bound to an application that
names another, the capability gate, notifications that the cockpit injects, its
log and its polling, static files, and the QEMU image. Of the shell: what a page
shows.

Left out for good: the capability gate (one look at a manifest per call, without
state of its own), cryptography beyond what it decides, HTTP serving of static
files, parsing of configuration and arguments, sysfs access and the mock
hardware's numbers, page layout, the templates and bundled applications, the
documentation's generator, the build of images, and storage that loses a rename
the kernel has completed.
