# Peerline in TLA+

Peerline sends files from `peerline send` to `peerline recv`. The sender packs
its files into an archive. The receiver is found by address or by name. Routes
(direct TCP, libp2p, a public tunnel, Tor, I2P) carry the archive in
encrypted chunks, and the receiver keeps what it has of an interrupted archive
and resumes it. This directory holds the TLA+ specifications of that program,
the TLC models that check them, and proofs checked by TLAPS.

Source paths below are relative to the repository; `net` is
`crates/peerline-net/src`, `cli` is `crates/peerline-cli/src`.

## 1. Inventory

| Component | State | Operations | Talks to |
|---|---|---|---|
| Partial store (`net/resume.rs`) | one directory per descriptor: `archive.part`, `metadata.json` (`received_bytes`, `updated_at_unix`) | `resume_state`, `append_chunk`, `complete_partial`, `remove_partial`, `cleanup_expired` | called by every receiving path, on one destination |
| Direct TCP transfer (`net/direct.rs`, `net/protocol.rs`) | a stream per attempt; the listener's queue; the offset of the session | `send_prebuilt_direct`, `recv_once_bound`, `receive_stream` | store, archive, crypto |
| Port mapping (`net/direct.rs`) | a task per round: lease with a UPnP or NAT-PMP/PCP gateway, watch channel | map, renew, retry, remove | hands endpoints to `recv_libp2p`, which announces them |
| Secure frames (`net/protocol.rs`, `peerline-crypto`) | key, sequence number, ratchet epoch per direction | `write_secure`, `read_secure` | all stream routes |
| OPAQUE and hybrid handshake (`peerline-crypto`) | handshake transcript | intro, finish | all routes |
| Retry loops of send (`cli/main.rs`) | attempt number, last error | `direct_send_with_retries`, `named_send_with_retries`, `named_send_attempt` | routes, discovery |
| Receive loop (`cli/main.rs`, `cli/main/wait.rs`) | round, counters, idle deadline | start services and all paths, wait for the first, drop the rest; idle timeout, quit | routes, terminal |
| libp2p transfer (`net/libp2p_transfer/*`) | session per peer, pending result, outstanding requests | request handling, dial, round trips with timeout | store, swarm |
| Tunnel, Tor, I2P (`net/tunnel.rs`, `net/tunnel/i2p.rs`, `cli/main.rs`) | a helper process with its URL; a WebSocket per attempt | start the helper; the direct protocol over a WebSocket | store, helper |
| Discovery (`net/discovery*`) | snapshot: descriptors by peer, observed and local peers; what has answered | probe, query, merge, stop | rendezvous, pkarr, Kademlia, mDNS |
| pkarr publisher (`net/pkarr.rs`) | queue of requests, last payload | publish what has changed, and periodically, within a size budget | DHT |
| Rendezvous client (`net/rendezvous.rs`) | registration guard, keepalive task | register, renew, unregister on drop | service |
| Rendezvous service (`services/peerline-rendezvous`) | registrations with expiry and cookie, rate windows | register, discover, unregister, expire | client |
| Archive (`peerline-transfer`, `peerline-core/manifest.rs`) | entries scanned; the file being unpacked, the entries still expected | scan, build, unpack, persist | transfers, file system |
| Configuration and identity (`peerline-core`) | one file each | load, change, save | command line |
| Terminal interface, events (`peerline-tui`, `cli/main/terminal.rs`) | stage, active transfer, table; channels of the keys q and r | apply an event, handle a key | main, user |
| Doctor, setup, npm launcher | - | - | user |

What is hard:

* **One store, many sessions.** Every receiving path runs against the same
  directories. `append_chunk` appends to whatever is there. Two sessions for
  one archive (two routes of a named send, a retry overtaking the attempt it
  replaces) interleave their chunks.
* **Crashes inside a call.** The part file and its metadata are written one
  after the other; any prefix of that can be what the next start finds.
* **Expiry by bystanders.** `cleanup_expired` runs for whichever sender
  connects and deletes directories of others by their age.
* **Sender and receiver disagree about an attempt.** The sender gives up after
  ten seconds, the connection stays in the listener's queue, is accepted later
  and changes the store. The Ack may be lost after the archive was unpacked.
* **One connection at a time.** The listener serves connections in order and
  its reads have no timeout; a peer that disappears silently holds it.
* **Early work for strangers.** `resume_state`, which deletes files, runs
  before the peer has proved to know the code.
* **Errors as strings.** Whether an error ends the retry loop depends on what
  is left of it after routes have been joined into one message.
* **Services.** A rendezvous keepalive in flight when the guard deletes the
  registration; discovery answers cut at a limit.
* **Rounds overlap.** After each transfer everything is announced anew, with a
  new identity, while the port mapping, the publications and the records of the
  last round still have effects.
* **Old news.** A sender hears of a receiver from four sources, in any order,
  some of them outdated; a date decides, and not always the receiver's.
* **Files change.** The sender reads each file twice, the receiver writes into a
  directory its user works in, and the process may die between two files.
* **Third parties in the middle.** Tunnels, Tor and I2P put a helper process and
  a foreign network between the two ends; nobody watches either.
* **Channels between main and the interface.** Events, activity, quit and retry
  take four ways; each end may be gone when the other uses it.

`PROJECT.json` lists each of these hazards with its line and the properties
that would notice it go wrong.

What makes the parts correct: nothing but the sender's archive is ever
unpacked; bytes received are kept until they are used, expire or are damaged;
success is reported only for an archive that was unpacked, and only once;
every send ends; the listener always comes back; the registry eventually
forgets a receiver that is gone; a discovery client sees every registration; a
receiver that is up is found by what it announced last; files that appear are
the files that were sent, and nothing that was there is lost; commands end when
their user or their timeout says so.

## 2. Modules

| Module | Models |
|---|---|
| `PartialStore` | the operations of `resume.rs` as operators on a directory, whole and interrupted by a crash |
| `ResumeStore` | the sessions of all receiving paths over one store, with time, crashes and restarts |
| `Delivery` | what `peerline send` promises, without connections or resumption |
| `DirectTransfer` | senders with retries and one receiver over the direct TCP route; implements `Delivery` |
| `NamedTransfer` | senders by name, whose attempts race all routes over libp2p, and `recv_libp2p` with its sessions; implements `Delivery` on one route |
| `Rendezvous` | one shard of the rendezvous service, and the registration guards of a receiver's rounds |
| `Archive` | `create_archive` and `unpack_archive_from_reader`, with users who edit files on both sides |
| `Dashboard` | the interface's state and what an event does to it (operators) |
| `Console` | main, the event fanout and the interface of one `recv` or `send`; extends `Dashboard` |
| `Tunnel` | the WebSocket routes through a helper and an untrusted bridge, with the secure frames; implements `Delivery`, extends `PartialStore` |
| `PortMapping` | the port mapping tasks of a receiver's rounds, and the router |
| `Discovery` | the sender's snapshot, the rule to stop, and pkarr's packing (operators) |
| `Presence` | how a receiver announces itself and a sender finds it; composes `PortMapping` and `Discovery` |
| `MC...` | values of the constants for TLC |
| `ResumeStoreProofs`, `DirectTransferProofs`, `NamedTransferProofs`, `TunnelProofs`, `RendezvousProofs`, `ArchiveProofs`, `ConsoleProofs`, `PresenceProofs` | the invariants of the module each is named after, and its theorems (section 4) |

### PartialStore

A directory is a record: which of `archive.part`, `metadata.json` and
`metadata.json.tmp` exist, the bytes of the part file, and the two fields of
the metadata that vary (`received`, `updated`). The other fields are functions
of `resource_id`, a BLAKE3 hash, so `metadata_matches` always agrees for an
honest sender and is left out. Byte *i* of an archive is the number *i*: a byte
that is missing, repeated or out of place shows, and equality with
`Archive(r)` stands for equality of size and hash.

| Operator | Code |
|---|---|
| `CleanupExpired`, `Stale` | `cleanup_expired`: age strictly above `PARTIAL_RETENTION`, or unreadable metadata |
| `ResumeState`, `OpenDir`, `KeepOrRemove`, `ResumeOffset` | `resume_state`: clean up, keep or remove, write metadata when starting from zero |
| `AppendChunk`, `CanAppend` | `append_chunk`: append, then metadata; fails when the directory is gone |
| `CompletePartial` | `complete_partial`: cannot open, mismatch, whole |
| `RemovePartial` | `remove_partial_paths` |
| `Torn...` | the states of the disk if the process dies inside the operation |

`remove_dir_all` may delete in any order and stop anywhere, so `TornCleanup`
keeps any subset of the files. `write_metadata` writes a temporary file and
renames it, so metadata are old or new, never half.
A failing disk (a full disk, lost writes after a power cut) is not modelled:
a crash here is the death of the process.

### ResumeStore

`sess[s]` is a session of any route between `resume_state` and its end. The
paths are futures of one task and the store's functions do not await, so each
call is one atomic step; between two calls any other session may run.

| Action | Code |
|---|---|
| `OpenSession` | a `ClientIntro` is answered (`receive_stream`, `handle_inbound_request`, `receive_ws_stream`) |
| `ReceiveChunk` | an `ArchiveChunk` is stored |
| `Deliver`, `RejectArchive` | `Done`: verified and unpacked, or not; the partial is removed |
| `FailSession` | any error of the connection or of the store ends the session |
| `ReturnTransfer` | the path returns its transfer and `wait_for_receiver` drops the others |
| `Crash...` | the process dies, between or inside the calls |
| `Tick` | `now_unix()` advances |

`delivered` and `overlap` are history variables. `overlap` holds a resource
from the moment two sessions receive it at once until its part file and its
sessions are gone: the condition under which the code does **not** keep the
file in order, and must rely on the hash.

### DirectTransfer

`snd[s]` is the retry loop of a sender with its current attempt, `conn[c]` one
connection per attempt with a queue of frames each way, `backlog` the kernel's
queue of the listener, `rcv` the state of `receive_stream`, `disk` the store.
One action per frame each side handles, in the code's order:

| Sender (`send_prebuilt_direct`, retry loops) | Receiver (`recv_once_bound`, `receive_stream`) |
|---|---|
| `Connect`, `ConnectRefused` | `Accept` |
| `RecvServerIntro`, `RejectServerIntro`, `RecvVersionError` | `RejectVersion`, `RejectName`, `RecvClientIntro` |
| `SendChunk`, `SendDone` | `RecvClientFinish`, `RecvHeader`, `RecvChunk` |
| `RecvAck`, `RecvUnpackError` | `RecvDone` |
| `SenderError`, `OpenTimeout`, `LateAnswer` | `ReceiverError` |
| `Quit`, `Vanish` | `Crash`, `CrashInIntro`, `CrashInChunk`, `CrashInDone`, `Restart` |

`Break` cuts a connection. Writes into a connection that is gone are lost and
the error shows at the next read, as TCP allows. Closing is not a cut: frames
written before it are still read. `Vanish` is the peer that the other side
never hears of again.

Cryptography is reduced to its verdict: a sender with the wrong code fails when
it finishes OPAQUE. Frames of one connection arrive in order and unchanged.
Whether a retry loop recognises an error as fatal is taken from
`is_fatal_error`; where the recognition depends on wording that the model does
not carry (a named send joins its routes' errors; OPAQUE's own errors) both
outcomes are allowed.

### NamedTransfer

`send[s]` is `named_send_with_retries`; an attempt starts `send_prebuilt_libp2p`
on every route at once (`task`), each with a swarm, and so a peer id, of its
own. `link` is the connection of such a peer (`net` says whether it is up) with
the one request or response on it. The receiver is `path` (whether `recv_libp2p`
runs), its `sessions` map, and `owed`: the `ResponseSent` events still to come.
`delivered`, `others` (rounds that ended under an attempt of a sender with another
transfer), `faults` and `mixed` (archives that two sessions received at once) are
history variables.

| Sender | Receiver |
|---|---|
| `StartAttempt`, `DiscoverNothing`, `AttemptFails`, `Quit` | `HandleIntro`, `HandleFinish`, `HandleHeader` |
| `RecvServerIntro`, `RecvFinishAck`, `RecvStreamAck` | `HandleChunk`, `HandleChunkFails` |
| `RecvDoneAck`, `RecvError` | `HandleDone`, `HandleDoneUnpackError`, `HandleDoneFails` |
| `RequestFailed`, `RequestTimeout` | `WriteResponse`, `InboundFailure`, `ResponseSent`, `ReturnTransfer` |

`Break` cuts a connection, and `OtherPathReturns` is a transfer on another path,
after which `wait_for_receiver` drops this one and the loop starts it anew. A
request whose sender has given up may still arrive and be handled. An error
that leaves `handle_inbound_request` ends the path for **all** peers
(`PathFails`) until another path completes. The clock of the store stands still
and the process does not die: those are the subjects of `ResumeStore` and
`DirectTransfer`.

### Rendezvous

The service side is the tables `rows` (`registrations`), `seq` (its
`AUTOINCREMENT`) and `rate` (`rate_limits`); a Durable Object serves one request
at a time, so each is one step. `guard[p]` is the
`RendezvousRegistrationGuard` of one round (every round has a new peer id) with
its keepalive task: the watch channel (`changed`), the interval (`due`), and
whether a publish is under way (`waits`). `wire` holds requests that have not
been served, also those whose client has given up (`late`), was aborted (`cut`)
or left them to a task of their own (`spawned`).

| Receiver | Service |
|---|---|
| `StartRound`, `UpdateDescriptor`, `PublishTick`, `PublishChange` | `Serve` with `Register`: signature age, quota, descriptor, expiry, update or insert |
| `LeaveByUnregister`, `LeaveByDrop`, `DropWhileLeaving`, `LeaveByExit` | `Serve` with `Unregister` |
| `Lose`, `GiveUp` | `Poll`: discover with the cookie of the last answer |

`Tick` lets time pass when no client waits and no timer is due. That is the
assumption under which the leases are checked: a request is answered or given
up within `request_timeout`, and timers fire.

### Archive

`snd` is `create_archive` at work: scanning (`scan_sources`), then building
(`create_archive_body`). `rcv` is `unpack_raw_archive` at the next frame, `dest`
the receiver's directory, `source` the content of each input. A content is a
short sequence, and equality of contents stands for equality of hashes.

| Sender | Receiver |
|---|---|
| `StartSend`, `ScanRejects`, `ScanSkips`, `ScanDirectory` | `StartUnpack`, `ReadManifest` |
| `ScanFileSize`, `ScanFileHash`, `ScanEnds` | `UnpackDirectory`, `UnpackFileStart`, `UnpackChunk` |
| `BuildDirectory`, `BuildFileStart`, `BuildChunk`, `BuildFileEnd`, `BuildFails` | `UnpackFileEnd`, `UnpackEnd` |
| `FinishArchive`, `NextSend` | `IoError`, `Crash` |

`Edit` is the sending user, who writes into a file, replaces it (which leaves an
open one as it was) or deletes it; `Occupy` is the receiving user, who puts a
file or a directory where one will go. The transfer between the two is whole or
not at all, which is what `ResumeStore` proves. The race inside
`non_overwriting_path`, between finding a free name and moving the file, is one
step here.

### Dashboard and Console

`Console` is a process as its user sees it. `main` runs services and rounds
(`recv`) or attempts and the question to the user (`send`), `net`, `activity` and
`ui.queue` are the channels events take, `quit` and `retry` those of the keys.
What a path does is reduced to the events it emits (`Start`, `Header`, `Chunk`,
`Verify`, `Fail`, `RequestFails`, `Unpacked`, `Answered`, `PathStops`). `path` has a
place for the direct path, which serves one connection at a time, and one for each
of `Peers`: the libp2p path keeps a session per peer, and several may be under way.
They are one of the `Routes` that `wait_for_receiver` polls, and stop together.

Time is in ticks longer than a ready task needs to run: `Tick` waits for the
fanout and for main to read the activity channel. Only unpacking, a call without
an `await`, keeps main for longer (`Blocked`). `TerminalFails` ends the interface
with an error at any moment.

### Tunnel

The public tunnel, Tor and I2P share one protocol: that of the direct route over
a WebSocket, through a `helper` process on the receiver's side. `conn[c]` is a
bridged connection. Because the bridge is a third party's, it may `Tamper` with
frames for the receiver (lose, repeat, swap, damage, add a control or a text frame),
`Interject` frames towards the sender, `Break` the connection (cut it, or stall: keep
it and forward nothing), and the helper may die.

`ClientIntro`, `ServerIntro`, `Ack` and `Error` are not sealed, and neither the
descriptor nor `resume_offset` is part of the transcript. The bridge may write all of
them: the fault `altered` makes another intro of a sender's (`Rewritten`), or puts an
intro with any offset, an Ack or an Error behind or in the place of what the receiver
sends (`MadeUp`). The code takes their word, so the model records where it did:

* `spoiled` holds the partials that a session wrote to after the bridge had given
  the sender its offset (`by`) or had named another archive to the receiver;
* a sender that took an Ack for its own that was not the receiver's answer to its
  own intro ends `fooled`. The code has no such state: to it this is success.

The properties say what holds beside these two (section 3).

What the bridge cannot do is stated symbolically. A session key is a term made
of the connection, the code and the `Transcript`, so both ends have the same one
only if they agree on all of it. A secure frame carries the message key that
locked it, the chain key after the sequence numbers so far (`DeriveNext`), and
opens only for a receiver whose chain gives the same (`Decrypts`). That OPAQUE and
the key agreement do this is assumed.

### PortMapping, Discovery and Presence

`PortMapping`: `task[r]` is `run_direct_port_mapping` of round `r`, `open` the
rounds whose watch channel still has a receiver, `router` the router's address and
the ports it forwards. `Discovery` has the operators: `InsertDescriptors` and
`Candidates` of the snapshot, `KeepDiscovering` and `GoodEnough`, and `Packed`,
what `encode_with_budget` leaves of a descriptor: records that are too long for their
length byte (`MaxRecord`) and those that do not fit into the budget are left out.

`Presence` puts them together. `recv` is the part of `recv_libp2p` that announces,
`worker` its `PublishWorker`, `look` one `discover_peer_descriptors`.

| Receiver | Sender |
|---|---|
| `StartRound`, `EndRound` | `StartLook`, `Deadline`, `Grace` |
| `Interval`, `MappingChange`, `SwarmEvent`, `PointConnected` | `PkarrAnswer`, `HttpAnswer`, `HttpFails` |
| `PublishSkip`, `PublishStart`, `PublishOk`, `PublishFails` | `KadRecord`, `PointAnswer`, `Mdns`, `OtherEvent` |
| `MappingStep`, `MappingTrouble` | |

`pkarr` keeps the packet signed last; `records` is everything ever put into
Kademlia or handed to the HTTP service, any of which may be returned at any time;
`point` is a libp2p rendezvous registration. A `scene` fixes what there is (a
router, a sender, its clock, its enabled routes, rendezvous points), so that one
run looks at several settings.

## 3. Runs

| Run | Question | Bounds |
|---|---|---|
| `resume_store` | do the sessions of all routes keep the store in order? | 2 sessions, archives of 3 and 1 bytes, chunks of at most 2 |
| `direct_pair` | does the direct route keep the promise, and progress, under any two faults? | 2 senders of the same files, one of them welcome or of another version, name or code, 2 attempts each, 2 bytes, 2 faults of six kinds |
| `direct_live` | does every send end, also behind a peer that vanished; does the listener return; is every lost attempt due to a fault of its own? | the same without time and quitting |
| `name_mismatch` | is a name mismatch fatal, as the tests say? | 1 sender; violated, see section 5 |
| `named_pair` | does one libp2p route keep the promise for two senders whose rounds cut each other off? | 2 senders of different files, 2 attempts, 1 fault of any kind |
| `named_routes` | what can two racing routes of one send do to each other; does the send end? | 1 sender, 2 routes, 2 attempts, 1 fault |
| `relay_fallback` | does a relay route carry an archive only after the others failed? | 1 sender, 2 routes, no faults; violated, see section 5 |
| `rendezvous` | is a live receiver found and one that is gone forgotten; does polling by cookie miss anybody? | 2 rounds; lease 4, window 2 with 2 registrations, clock to 6, no faults; and lease, window and signature age 1, clock to 2, 1 fault |
| `archive` | what do files that change on either side do to an archive and its directory? | 6 command lines of 1 to 3 inputs, 2 sends, 2 edits, 1 I/O error or crash, contents of 1 or 2 chunks |
| `console` | do commands end when they should, and does the table tell the truth, with several transfers at once? | a receiver with an idle timeout of 2 ticks, the direct path and one peer on the libp2p path; one without, with 2 peers; 2 transfers, 1 row; sends with 2 attempts and 3 rounds |
| `tunnel` | what can a bridge do to a transfer; who gets a session? | 2 senders of the same files, one of which may differ in code, name, route or version, 2 attempts, an archive of 2 bytes that they send and one of 1 byte that the bridge may name, 1 fault of eleven kinds |
| `presence` | do announcements become true, and is a settled receiver found? | four scenes: 2 rounds behind a router with 2 troubles; a sender and changing addresses; two rounds in the sender's network; a sender whose clock is behind, with a rendezvous point |

What they show:

* `DeliveredIntact`: whatever sessions do to a shared file, only the sender's
  archive is unpacked. The hash check is what carries it: the mutant that
  checks the size alone is caught, because interleaved sessions leave a file of
  the right length with bytes out of place.
* `LoneSessionKeepsPrefix`, `FreshSessionKeepsPartial`: as long as one session
  at a time receives an archive, no crash leaves a byte out of place, and
  nobody's cleanup takes a file away that is not over age. "Fresh" matters: a
  resumed session keeps the old `updated_at_unix` until its first chunk, so
  close to 24 hours another sender's cleanup does delete the directory of a
  session just opened, and the chunk fails.
* `DoneMeansWhole`: on the direct route alone the hash check never fails. The
  listener's order is the reason: a retry is served after the attempt it
  replaces is over.
* `ImplementsDelivery`: no success without an unpacked archive, no copy after
  success. `CopiesNeedFaults`: more copies than one only through lost Acks and
  crashes.
* `ProgressKept`: the part file shrinks only on completion, by age, or after a
  crash that interrupted a write to it; `resume_state`, which runs before the
  peer has proved to know the code, does not cost a good send its bytes.
* `AttemptsNeedFaults`: one failure does not cause the next.
* `SendersFinish`, `ListenerReturns`: liveness. `SendersFinish` also holds when
  a vanished peer holds the listener for ever, by the open timeout.
  `ListenerReturns` excepts such a peer: the receiver's reads have no timeout.
* `ImplementsDelivery` and `CopiesHaveCauses` for `NamedTransfer`: the round ends
  only at the `ResponseSent` whose request id is that of `Done`. With any other
  event of that peer (the mutant `MatchesAny`) the Ack is dropped with the swarm
  and a send without faults is unpacked twice. A copy after the first has a fault for
  a cause, or a round that ended under the attempt with another transfer: that of
  another sender, or of an earlier attempt of the same sender whose `Done` arrived
  late. Both properties are about a single route: with two, the slower one can open
  its session between the unpacking and the end of the round, and a second copy can
  follow success. `ImplementsDelivery` holds on one route within the bounds of the
  run; section 5 has what happens beyond them.
* `PathSurvives`: the errors that stop the path for everybody need two sessions
  on one archive. Resumed, repeated and dropped sessions do not reach them.
* `FailuresHaveCauses`: a send fails without a fault, or a round that ended under it,
  only if two sessions wrote one part file. This does happen: two routes of one attempt interleave their
  chunks, `complete_partial` fails and the path stops, so that the attempts
  left find nobody until another path completes a transfer.
* `LiveDescriptorFound`: the interval of `normalize_registration_keepalive` ends
  before the lease also when a longer one is configured, and a window without
  quota is followed by one with it before the lease is over. That takes a lease
  with room for a window (`RoomToRenew`): a window is no longer than what the
  interval leaves of the lease, and two of them fit into it, which the defaults
  (60 s, 120 s) meet exactly. The property also needs an address that no
  other receiver of the same name and code shares, and no more registrations than
  a discover answer holds.
* `GoneReceiverForgotten`: a POST of an aborted keepalive can be served after the
  DELETE and register the receiver again. With signed requests the time until
  it is forgotten is bounded by the age a signature may have plus the lease;
  with client certificates instead of signatures only by how long a
  request can be under way.
* `CursorSkipsNobody`: cookies of deleted rows do not return. The property
  excludes answers that were cut at their limit: their cookie is past the rows
  that were left out.
* `OnlyVerifiedFiles`, `DoneMeansAll`, `ExistingKept`: a file changed between scan
  and reading never appears at the receiver, and a repeated or interrupted
  unpacking neither overwrites nor skips. `FailureHasCause` lists what makes a
  receiver refuse; one cause is the sender's own, two inputs with the same
  relative path, which `create_archive` accepts.
* `SameFilesSameArchive`: resumption across two runs of `peerline send` rests on
  it, and it rests on the sort in `scan_sources`.
* `IdleMeansQuiet`: an idle timeout is one, except that unpacking can hold main
  beyond the deadline; then `select!` may take the deadline although activity
  is queued. `IdleReceiverStops`, `QuitEnds`: the Shutdown event is what ends
  the interface, because the log layer keeps a clone of its sender.
* `DashboardAgrees`: the table is right as long as events of two sessions do not come
  in between each other, and no transfer goes on after a request of it failed. Both can
  happen, also within the libp2p path, which has a session for each peer: stages
  carry no transfer, and then one's failure is shown in another's row. What is left is
  that transfers which follow each other, on any path or peer, are never mixed up, as
  long as the first is over or has been reported when the next begins.
* `SendReturns`, `RoundsNeedKeys`: a send ends, or waits for a user whose interface
  still runs. The exception is in section 5.
* `PartIsArchive`: what a bridge does to sealed frames never reaches the disk, over
  all resumed sessions. It does not hold of a partial that a session wrote to whose
  offset, or whose descriptor, came from the bridge (`spoiled`): its chunks open, and
  land in the wrong place. The hash at `Done` keeps such a partial from being
  unpacked; until then it is resumed like any other.
* `ImplementsDelivery` for `Tunnel`: an Ack that is the receiver's answer to the
  sender's own intro means an unpacked archive, and nothing is unpacked after it. An
  Ack that the bridge wrote (`fooled`) promises nothing: it counts as a failure here,
  although `peerline send` reports success.
* `OnlyAgreedPeers`: the key binds code, name, route and version, whatever the bridge
  writes into the intros. The route label keeps a sender that meant another route out
  when a forgotten helper forwards it.
* `SendEndsUnlessStalled`: the open timeout covers the dial and the intro. After
  that nothing bounds a send through a bridge that stalls.
* `DeadEndpointsHaveCauses`, `EndpointsHeal`: announced endpoints that lead nowhere
  are the router's doing, or that of the task of the round before, which unmaps
  the port the new round has mapped. They go away, unless a renewal brought another
  address or port: that is never announced.
* `AnnouncementsSettle`: failed and skipped publications are repaired by the forced
  one of the interval.
* `SettledReceiverFound`, `StaleOnlyIfRedated`: dates written by the receiver order
  its descriptors correctly. Dates written by others do not: a rendezvous point's
  registration is dated by the sender and replaces the full descriptor, a packet is
  dated when it is signed, and a sender whose clock is behind clamps all dates to
  its own.

**Bounds.** An archive of 2 or 3 bytes with chunks of 1 or 2 has every case of
the offset arithmetic: no byte, some, all but one, all, and a chunk torn in its
middle. With `Retention = 0` and a clock of two values an age is below, at or
above the limit. A second resource in `resume_store` is there for cleanup by
bystanders; more of them never interact. Two attempts are needed for an attempt
and its replacement to coexist.
In `Rendezvous` a second round is needed for requests of one round to meet
those of the next; the clock runs until the last lease that can matter is over.
`MaxFaults` bounds faults, not steps: free steps (timeouts of blocked senders,
rejections) are not counted. In `Archive` two sends are needed for one to resume or
repeat the other, and `MaxCopy` is above the number of names two sends and an edit
can take. `MaxBacklog` and `maxQueue` cut queues that the code does not bound: a
path or an event waits until there is room. A queue of one is enough for
`AnnouncementsSettle`, because a publication in flight and one that waits is all
that has to be out of step. `console` has one row so that the table overflows with
the second transfer. Sessions of two peers overlap within the libp2p path as any
session does with one on the direct path; the idle deadline does not tell them apart,
so the second peer comes only to the receiver without one. In `tunnel` one fault is one
thing the bridge does: a forged offset, descriptor, Ack or Error, or one damaged frame, each at every moment of
both attempts of either sender.

Every module has a `TypeOK`. `resume_store` and `direct_pair` check theirs; those of
the others hold on the same instances and are left out of the configurations, where
the other invariants would fail on a wrongly typed state all the same.

**Fairness.** `WF(ReceiverStep)` and `WF(SenderStep(s))` in `DirectTransfer` and
`Tunnel`: the runtime schedules each process, sockets wake their readers, timers
fire, and a receiver that died is started again (the loop restarts by hand or by a
supervisor; a sender whose receiver never comes back is the `ConnectRefused` case).
Faults, including late answers, are never fair. `OpenTimeout` is part of
`SenderStep` but enabled only while the listener serves somebody else or the bridge
stalls: then ten seconds do pass. For any other reason a timeout is the fault
`late`. In `NamedTransfer` `WF(SenderStep(s))` and `WF(SwarmStep(p))`: every task is
scheduled and the swarm polls each connection. Timeouts are faults there, and the
failure of a request on a connection that is gone is an event the swarm reports.
`Console` has weak fairness for its tasks, channels and the clock, for unpacking and
for the attempts of a send, which end (`SendersFinish`, `SendEndsUnlessStalled`);
none for users, peers and errors. `Presence` has weak fairness for the receiver's
tasks and strong fairness for `Interval` and `MappingChange`: they are disabled
again and again by the bound on the publisher's queue, which the code does not have,
and `select!` picks among ready branches at random. `Rendezvous` states bounds on
time instead of liveness and needs no fairness; `Archive` has safety properties only.

**Deadlock** is checked in all runs. `Finished` is the only stuttering step of
`DirectTransfer`, `NamedTransfer`, `Archive` and `Tunnel` and needs all sends to be
over (or, in `Tunnel`, stuck behind a stalled bridge); `Rests` is that of `Console`.
`ResumeStore` always can open another session. `Over` is the end of `Rendezvous`'
clock with all rounds ended. A receiver in `Presence` publishes for ever.

Each property has a mutant in `PROJECT.json`: a definition of the model
replaced by an operator with a plausible mistake, under which TLC reports the
property violated.

## 4. Proofs

Everything below is proved for every value of the constants the named assumptions
allow: any number of senders, peers, routes, attempts, rounds and faults, archives
and files of any size, any clock. The models bound attempts, faults and clocks by
constants; the theorems hold for each such bound. Two theorems have a hypothesis
of their own: a single route, and no archive shared by two sessions.

| Module | Theorems | Invariant |
|---|---|---|
| `ResumeStoreProofs` | `TypeCorrect`, `OnlyWholeArchives`, `PrefixKept`, `FreshPartialKept` | `StoreInv` |
| `DirectTransferProofs` | `DirectTypes`, `DoneIsWhole`, `PartialsAreKept`, `DirectImplementsDelivery`, `CopiesTakeFaults`, `AttemptsTakeFaults` | `DirectInv`; `KeptInv`, `AckInv`, `CopiesInv`, `AttemptsInv` |
| `NamedTransferProofs` | `PathKeepsRunning`, `FailuresTakeCauses`, `CopiesTakeCauses`, `NamedImplementsDelivery` | `NamedInv`; `CleanInv`, `CopiesInv`, `AckInv` |
| `TunnelProofs` | `PartFilesAreArchives`, `OnlyAgreedPeersSend`, `TunnelImplementsDelivery` | `TunnelInv`, `OrderInv` |
| `RendezvousProofs` | `GoneIsForgotten`, `PollingMissesNobody`, `SettledDescriptorsAreFound` | `GoneInv`, `CursorInv`, `LiveInv` |
| `ArchiveProofs` | `SuccessMeansAll`, `OnlyAnnouncedFiles`, `NothingOverwritten`, `FailuresTakeACause`, `SameFilesMakeOneArchive` | `ArchiveInv`; `CauseInv`, `MadeInv` |
| `ConsoleProofs` | `RoundsAreAskedFor`, `IdleIsQuiet`, `DashboardShowsTransfers` | `KeysInv`, `IdleInv`, `DashInv` |
| `PresenceProofs` | `DeadEndpointsAreExplained`, `StaleAreRedated`, `SettledReceiversAreFound` | `MappedInv`, `FoundInv` |

Each theorem has the property it states in `PROJECT.json`.

**ResumeStore.** `LoneSessionKeepsPrefix` is not inductive: a chunk lands in place
only because the session's offset is the length of the file, and that is so only
because nobody else has appended to it or removed it. `StoreInv` therefore adds, for
every resource outside `overlap` (`Lone`): its part file is intact, and a
session that receives it is in step with it (`InStep`), that is, either the
metadata are there, written when the session says, and the file is as long as
the session's offset, or the directory has been cleaned up and the session's
age exceeds the retention time, in which case its next append fails. That two
sessions share a resource only inside `overlap`, that no session is beyond the
end of its archive, and that an absent part file reads as empty (`DirOK`) are
the remaining conjuncts.

The proof has one lemma per action. `StepRule` takes a step's effect on
directories and sessions and concludes `StoreInv'`, so that each action only
shows what it does to the directories it touches. `CloseAllStep` does the same
for the actions that end every session (a path returns, the process dies); they
need only that torn directories are intact. The lemmas about `ResumeState`,
`AppendChunk` and the `Torn...` operators open the module; the direct, named and
tunnel proofs begin with those of them that they need.

**DirectTransfer.** `DoneMeansWhole` speaks of the moment `Done` is read, but what
makes it true was decided earlier and elsewhere. `DirectInv` says where the frames
are: on the connection being served they take the session from where the receiver is
to where the sender is, without a gap (`SessionOK`); a connection that waits in the
listener's queue holds nothing but the intro (`LinkOK`); and the attempts of one
sender are in line in the order they were made (`QueueOK`), so that a retry never
overtakes the attempt it replaces. From there:

* `KeptInv`: unless a crash tore it, a partial has metadata that record its length.
  Without it `resume_state` could discard what `ProgressKept` says is kept.
* `AckInv`: where an Ack is on its way, the archive was unpacked and every connection
  in line is a later attempt of its sender; where a sender has succeeded, none of its
  connections is in line. Each step is then one of `Delivery` or a stutter.
* `CopiesInv`: the copies of a sender are at most the faults, plus one if the sender
  has been or is about to be rewarded. The second conjunct covers the `Done` that is
  still to be read when its sender cannot hear of it any more: its fault is paid before
  the copy is made.
* `AttemptsInv`: at every point of an attempt, the number of attempts is at most the
  faults, plus one while its connection is up. It rests on the fact that a sender
  nobody came between finds a listener that serves it at once.

**NamedTransfer.** `NamedInv` relates, per route, the request or response on the
connection and the session at the receiver: a request finds the session at the stage
and offset it is meant for, also after its sender has given up, and after a
response the next request will (`PeerOK`). For an archive that no two sessions
shared, the partial is as long as its one session believes (`LoneOK`), so that
`append_chunk` and `complete_partial` succeed and the path runs on.

* `CleanInv`: a sender that met no cause has all routes of its attempt healthy, or
  one of them has the Ack. It is the strengthening of `FailuresHaveCauses`.
* `CopiesInv`: copies, plus requests of abandoned attempts still under way (each of
  which may become a copy), are at most the causes, plus one where a copy was made
  whose Ack is on its way or has arrived. A request is abandoned only through a fault
  or a round that ended with another transfer, which pays for it.
* `AckInv`: once an Ack is on its way, a copy was made, and as long as no archive was
  shared, no late `Done` is left. This is where the hypothesis `[](mixed = {})` of
  `NamedImplementsDelivery` comes from: see the observation in section 5.

`CopiesTakeCauses` and `NamedImplementsDelivery` assume `SingleRoute`; with two routes
both properties are false for the reason given in section 3.

**Tunnel.** The bridge reorders, repeats and damages frames, so no invariant on their
order holds. `TunnelInv` says instead what may be in a queue after all of that: a
secure frame that opens was sealed by this connection's sender, and its body is fixed
by its sequence number and the offset its sender was given (`Base`). If that is the
receiver's offset and the intro named the sender's archive, what opens next can
therefore only be the next piece; if not, the partial is `spoiled` as soon as a chunk
is appended. `OrderInv` is the counterpart of
`QueueOK` and `AckInv` above, for an Ack that is the receiver's. That a frame which opens was sealed with the same key is
how the cryptography is modelled, not a result.

**Rendezvous.** `GoneInv` counts requests on the way as well as rows: each was signed
before its receiver left, so its registration cannot outlive the signature's age and
the lease. Who is lost, late or overtaken plays no part. `CursorInv`: no cookie, the
poller's neither, is above the sequence it came from. The proof needs least and
greatest elements of finite sets of numbers; the library's induction theorem takes an
operator parameter, so `Least` is proved from the well-foundedness of finite sets under
inclusion.

`LiveInv` is about time. For a live receiver it relates three things: the request
that its keepalive has under way, which is younger than the next tick; the timer,
which is due an interval after the last registration that was let pass; and the
quota. The counter of the receiver's address is above zero only because a
request was counted in this window, and the first one counted is let pass: a receiver
that is refused has a registration that began with this window or after it. An
interval and a window fit into the lease (`RoomMeans`), so the tick that follows the
refusal comes before the lease is over. The rounds of a receiver share the counter,
so the invariant also keeps them in order (`RoundsOK`): nothing of an earlier round is
served after a registration of a later one unless it was counted before. All of it
holds while there were no faults and `RoomToRenew` holds, as the property says.

**Archive.** `ArchiveInv` ties the receiver to the manifest: the expected entries are
the archive's, no two share a path, an open file belongs to one of them, and each entry
that is no longer remaining is in its place. The last conjunct is what makes success
mean all. The two action properties follow from the invariant and one step.

`CauseInv` says what the frames of an undisturbed send are: for each entry its header,
its contents and its hash, in the order of the manifest, so that the body is a walk
over the entries (`WholeInv`); and that the receiver stands at a place of this walk
that agrees with its own state. It expects what comes next, and what is left to
refuse is one of the causes. `MadeInv` says of every archive made that it has the
entries of the selected files, each once, with their contents' hashes, in ascending
order. That there is one such arrangement (`OneOrder`) needs no induction: where two
sorted sequences of one set differ first, each would hold the lesser entry later.

**Console.** The invariants account for what is still in a channel: an `r` that waits
in the retry channel has begun no round (`KeysInv`); activity since the deadline was
last moved is an event for the fanout or a message for main, or main was kept by an
unpacking (`IdleInv`); and the events that are still to be shown, applied to the
dashboard one after the other, lead to one that agrees with the transfers (`DashInv`).
`Walk` is that sequence of dashboards; a producer adds to its end, the interface takes
from its beginning.

**Presence.** `MappedInv`: one round is open at a time, its tasks of later rounds have
not begun, and what the task of an open round has told it is leased and leads to the
receiver, or somebody undid it (`ValueOK`). Any number of tasks of rounds that ended
may still unmap the port meanwhile; each such step is one of the causes.

`FoundInv` follows a descriptor from the receiver into a snapshot. At the receiver,
dates follow versions (`DatedOK`); in the snapshot, there is one descriptor per peer,
no older than any that was given (`SnapOK`), because `insert_descriptor` discards what
is earlier. `StaleAreRedated` needs no more. For `SettledReceiversAreFound`,
`SettledOK` adds what being settled means until the receiver changes again: what is
queued, on its way and published has its present routes, and the packet is dated
after all descriptors with other routes (`Newer`). What the sender keeps of
the receiver is then no older than the packet, so it has the receiver's
routes, or those of the packet. That there is a payload as `encode_with_budget`
makes it (`PayloadExists`) is proved from the well-foundedness of finite sets under inclusion.
The two theorems keep the premises of their properties: no clock behind the
receiver's, no registration dated by the sender, and `MinDiversity <= 1`: one peer is
diversity enough, the default, which nothing in the code changes.

**Assumptions.** `StoreAssumption`: an archive has at least its manifest, so its size
is not 0. `SessionAssumption`: there is a resource, chunks are not empty.
`DirectAssumption`, `NamedAssumption`, `TunnelAssumption`: every sender has an archive,
there is at least one attempt and, in the second, one route; terms and faults are of
the kinds listed; nobody has the name `direct-ip`, which the transcript has for an
intro without a name. `RendezvousAssumption`: leases and rounds are numbers, the
service's and the client's maximum lease are not 0. `ArchiveAssumption`: paths are
sequences of names closed under non-empty prefixes, contents are sequences of chunks.
`ConsoleAssumption`: types of the command line. `MappingAssumption`,
`DiscoveryAssumption`: the protocols and troubles are of the kinds listed, every kind of
endpoint takes space in a packet, and an address in the local network fits. `PresenceAssumption`: a receiver has finitely many
endpoints, of the kinds listed. TLC evaluates each of them in the runs
of its module.

**Only model-checked**, and why:

* All liveness properties (`SendersFinish`, `ListenerReturns`, `SendReturns`, `QuitEnds`,
  `IdleReceiverStops`, `SendEndsUnlessStalled`, `EndpointsHeal`, `AnnouncementsSettle`):
  fairness and ENABLED are out of the prover's reach.
* `ImplementsDelivery` of `NamedTransfer` without the condition on `mixed` holds within
  the bounds of `named_pair` and not beyond them.

`NameMismatchIsFatal` and `RelayIsFallback` belong to runs that refute them.

## 5. Findings

`name_mismatch`. `is_fatal_error` in `cli/main.rs` lists "name mismatch" among
the texts that end the retry loop, and a test in the same file asserts that it
does. On the direct route (and on the tunnel) the receiver checks the name
and returns an error **without** sending it: the sender reads the end of the
stream, which is no fatal error, and repeats all its attempts. The libp2p
receiver does send the error frame. `PROJECT.json` quotes the lines.

`relay_fallback`. The repository's README calls relay routes a fallback.
`named_send_attempt` starts every allowed route of the sorted list at once and
takes the first that succeeds, so a relay route can be in the middle of the
archive while the others are still at it. Order matters only for what the
user sees. `PROJECT.json` quotes the lines.

Observations without a run of their own; the properties named state the limit:

* On one libp2p route, a send can be unpacked again after it reported success
  (`ImplementsDelivery` of `NamedTransfer`). It takes four attempts, of which three are
  abandoned with their request under way, an intro, a chunk and a `Done`, and these
  three arriving in that order between the `Ack` of the fourth and the end of the
  round. TLC finds it with `MaxAttempts = 4` and three faults `late`, beyond the bounds
  of `named_pair`; the proof shows that two sessions sharing an archive is the only
  way.
* A session that resumes at an offset above zero does not refresh
  `updated_at_unix` (`FreshSessionKeepsPartial`). An archive that fails
  verification on the direct route is closed without a frame, so that the sender
  can only start over.
* `wait_for_retry_or_quit`: when the interface dies of a terminal error while main
  asks, and the closed retry channel is seen before the closed quit channel, main
  waits for ever (`SendReturns`).
* Stages carry no transfer id (`DashboardAgrees`).
* On the tunnel, Tor and I2P routes `resume_offset`, the descriptor, `Ack` and `Error`
  travel unprotected through a third party, and both ends believe them
  (`PartIsArchive`, `ImplementsDelivery`).
* `named_send_attempt` joins the errors of its routes into one text, and with it the
  fatal kind is lost. No property depends on it: the attempts run out either way.
* With a shorter lease than the service's rate window allows for, such as
  `PEERLINE_RENDEZVOUS_TTL_SECS=30`, descriptor updates that use up the quota let the
  registration lapse until the next window (`RoomToRenew` in `LiveDescriptorFound`).
* An open session through a stalled bridge has no timeout on either side, and the
  listener serves nobody else meanwhile (`SendEndsUnlessStalled`). The URL of a
  helper that ended, even before it was announced, stays announced.
* Mapping tasks of successive rounds unmap each other's port
  (`DeadEndpointsHaveCauses`); a renewal with another address or port is never
  announced (`EndpointsHeal`). With port 0 the mapping task ends at once and
  `wait_for_direct_mapping_change` returns at once ever after, so that the loop of
  `recv_libp2p` spins.
* A registration at a libp2p rendezvous point, dated by the sender, replaces the
  full descriptor of the same peer and loses its direct, tunnel, Tor and I2P routes;
  a sender whose clock is behind cannot order descriptors at all
  (`SettledReceiverFound`, `StaleOnlyIfRedated`).

## 6. Not modelled

Not at all: configuration and identity (a small file read, changed and written by
one command), doctor and setup (single passes of external commands), the npm
launcher, vendored libp2p-webrtc. `PROJECT.json` has the full list with the parts
that are modelled in part.

Left to symbols or verdicts: OPAQUE, the key agreement and the AEAD (`Tunnel`),
compression, the SAM dialogue, Kademlia. Wording, progress figures and drawing of
the interface are left out.

Within the modelled parts: a failing or full disk during a transfer, clocks that
run backwards, two `peerline recv` on one destination, several rendezvous endpoints,
routes of different kinds in one attempt of a send, the port probe of
`send_prebuilt_direct_probe`, peers that know the code and do not follow the
protocol. In `Tunnel`, connections are those that senders open: the bridge dials
nobody itself. Material of the login that it changes is modelled by its effect, an
attempt that fails; changed numbers in the descriptor of the same archive, which make
the receiver remove the partial or turn chunks away, are left out.

Some hazards in `PROJECT.json` have no property although the modules contain them,
because the properties near them except them or do not depend on them: a renewed mapping with another endpoint, and the
fatal kind lost in `named_send_attempt`, and the two unprotected frames above. Each
has a note.

## 7. Plan

Every safety property of the passing runs is proved, the refinement by
`NamedTransfer` on the condition stated in section 4. What remains is to model:

* the direct and the libp2p route of one attempt together, on one store;
* several rendezvous endpoints, whose answers a client merges;
* the pages of a rendezvous answer cut at its limit, for a poller that starts late;
* the configuration file, when two processes change it at once.
