# A verification project for nullseal/cli-rs

TLA+ modules that model the program's own logic, TLC runs that check them on
small instances, and proofs checked by TLAPS. Paths below are relative to the
repository; `connection.rs` and the like are under `src/src/`.

## 1. Inventory

`nullseal` shares a secret, a file or a folder. `share` (the sender) and `get`
(the recipient) run in one of three modes: upload to a server, peer to peer
with a signaling server (`run_p2p`), and `--local`, where the sender embeds the
signaling server (`run_local`).

| component | state it keeps | operations | interacts with |
|---|---|---|---|
| `p2p/connection.rs` ConnectionMachine | phase, retry budget, armed timer and deadline, pending join, peer ever present, resume point | `handle(event)` returns actions | fed by the attempt loops; a host with real timers in the web client |
| `commands/share.rs`, `commands/get.rs` attempt loops, `p2p_stages.rs`, `retry.rs` | stage of the attempt, cached resume point, the recipient's committed plaintext | await ready/offer/answer/channel, transfer, back off, re-join, prompt | the machine, the control client, the peer |
| `p2p/sender_engine.rs`, `sender_adapter.rs` | `base`, `next`, `end_sent`, `finished` | open, ack, request, pump, complete | frames to the peer; acks and requests from signaling |
| `p2p/receiver_engine.rs`, `receiver_adapter.rs` | `expected`, `acked_through`, `done` | chunk, end, tick | frames from the peer; acks and requests to signaling |
| `local_server.rs` relay | presence and arming of both roles, ack checkpoint, socket roles | join, relay, ack, complete, disconnect | both control clients |
| `crates/p2p-control`, `crates/socketio` | one unbounded queue per event; alive flag | emit, dispatch, ping, close | relay or server |
| `webrtc/event_loop.rs`, `sender.rs`, `receiver.rs` | pending frames, closing mark, drain start, TURN permissions | send, ICE, close, drain, refresh | str0m library, UDP socket |
| `transfer/engine.rs`, `protocol.rs`, `commands/sync_flow.rs` folder sync | source list, plan, retry set, the open part file, summaries | hello, list and answer in batches, file begin/chunk/end, ok or fail, delete, done | a channel or a TCP stream, the file system |
| `commands/sync_tcp.rs` | listening slot, deadline | accept and shake hands, connect | local relay's metadata event |
| `crates/turn`, `webrtc/turn.rs` | allocation | allocate, permission, refresh | TURN server |
| `walker.rs`, `archive.rs` | -- | walk with excludes, pack, extract | file system |
| `commands/check.rs` | probe results | probes, verdict | network |
| `api.rs`, `commands/manage.rs`, `crypto.rs`, `main.rs`, display, log, mDNS | -- | requests, encryption, parsing | server, libraries |

What is hard here, and hardly reached by the repository's tests: two attempt
loops that fail and re-join at their own pace; per-event queues that keep
messages of an old attempt over a re-join; a checkpoint kept by a third party;
a completion decision taken from what was sent rather than from what arrived; a
retry budget that several events clear; timers and answers that come late. The
list with lines is `hazards` in `PROJECT.json`.

What makes each component correct:

* machine: a flapping link spends its budget and stops; a reconnecting machine
  always has something to wake it; a stopped one is quiet.
* attempt loops: the backoff table in order, no unbounded wait on a re-attempt,
  giving up only when the retries are spent, an end to every climb.
* chunk transfer and relay: in-order arrival, an intact payload on success, a
  resume point the recipient holds, cursor arithmetic that does not wrap, an end
  to every transfer, agreement of both sides on how it ended.
* event loop: accepted frames keep their order through three queues, a loop that
  ends by itself has written them all, and who waits for it comes back.
* the two loops together: no message of an earlier negotiation is taken for the
  current one, a fresh offer is not thrown away, and the loops never wait for
  each other for ever.
* TURN client: the handshake fails for a cause only, the allocation and its
  permissions live as long as they are used.
* data port: frames arrive whole and in order however the network cuts the
  stream, noise on the LAN does not cost the connection, a stranger that speaks the
  protocol gets no frame through, every wait ends.
* folder sync: on success the destination holds the sender's list and only what
  was not to be deleted besides; the sender never claims a success the recipient
  does not have; an interrupted run leaves no half-written file under its final
  name and deletes nothing early; a repeat sends nothing; repeats converge.
* check: the verdict names a thing that is broken in itself and the exit code
  says whether the server's own chain works.
* server shares: what `get` leaves on the disk is the share and nothing else of
  the user's is touched, a failed extraction cleans up after itself, a directory
  is never shared as the text of its path, a type that is asked for is stored.
* codec, address: what is built is what the other side reads; a peer advertises
  an address of its LAN when it has one.

## 2. Modules

| module | models | state and actions |
|---|---|---|
| `ConnectionMachine` | `p2p/connection.rs` | one variable per field, plus `acts` and `delay` for what `handle()` returned; one action per event, with the helpers inlined |
| `ConnectionHost` | the runtime the machine's unit tests stand for (not in the repository) | a dial, unanswered joins, a PeerConnection, a peer that leaves; one action per delivered event, executing the returned actions |
| `RetryFlow` | the loops of `share.rs` and `get.rs`, online and local (chosen in `Init` by `sender` and `online`) | `stage` is the place in the loop; each action feeds the machine what the loop feeds it there; `slept`, `manual` are history |
| `Rendezvous` | both loops at once, their sockets and the relay: `share.rs`, `get.rs`, `p2p_stages.rs`, `local_server.rs`, the two client crates | `at`, `attempt`, `pc` per role are the loops; `up`, `alive` the sockets; `joined`, `ready`, `offers`, `answers`, `gone` the event queues; `room`, `armed`, `undetected` the relay; one action per await that returns |
| `ResumableTransfer` | engines, adapters, the payload loops of `run_local` at both sides, the relay | see its header: `sst`/`rst` the two loops, `base`/`next`/... the engines, `up` the recipient's socket, `sAcks`... the sender's queues, `wire` the channel, `checkpoint`/`sArmed`/`rArmed` the relay; `scene`, chosen in `Init`, holds the size of the transfer and what may befall it |
| `PeerLoop` | `webrtc/event_loop.rs`, `sender.rs`, `receiver.rs` and the way `share.rs` and `get.rs` shut a peer down | `style` is the owner (`local`, `online`, `recipient`), `cmds` the bounded queue, `pending` and `written` the frames before and after SCTP, `closing` and `grace` the end of the loop; one action per turn of the inner loop |
| `TurnRelay` | `crates/turn/src/allocate.rs`, `webrtc/turn.rs`, the relay's part of `event_loop.rs`, the candidates of `webrtc/mod.rs` | `machine`, `captured`, `resent` the handshake, `broken` an error of its socket, `permitted`, `refreshIn` the loop's relay, `up`/`down` datagrams, `nonce`, `granted`, `permits` the server |
| `SyncDataPort` | `commands/sync_tcp.rs` | `pc` of both ends, `backlog` and `slot` of the accept loop, `flight` and `arrived` the bytes of a stream, `index` and `got` the sealed frames, `broken` a listener that has failed |
| `FolderSync` | both loops of a folder sync, run after run | `sst`/`rst` the loops, `manifest`/`acks`/`plan`/`stale` the sender's lists, `opened`/`sent` the file being read, `local`/`declared`/`current`/`got` the recipient's, `dest` the destination with its part files, `toR`/`toS` the two directions of the channel; one action per frame handled |
| `FolderMirror` | what `FolderSync` promises | the regular files of the destination, an offer, what has been read of a source, what has arrived, a verdict: only what was read to its end, no deletion without consent or before everything offered is in place |
| `CommandLine` | the flags of `share` and `manage`: `main.rs`, the validators of `share.rs`, the stored type | operators over every set of flags |
| `ServerShare` | `share`, `manage` and `get` against a server: `api.rs`, the server-side halves of the commands, saving, `archive.rs` | `share` the server's record, `owner` and `get[g]` where each command is, `disk` the directory the recipients save into |
| `Connectivity` | `commands/check.rs` | `world` what works in itself, `todo` the probes to come, `results`; one action per probe |
| `StunCodec` | `crates/turn/src/message.rs`, `attr.rs` | operators on sequences of bytes |
| `LocalAddress` | `webrtc/net.rs` | operators on addresses |
| `Commands` | the dispatch of `main.rs` for the commands of single requests | `subject` is what a behaviour is about: a check, a share, a datagram, an address |
| `ConnectionHostProofs`, `RendezvousProofs`, `ResumableTransferProofs`, `PeerLoopProofs`, `FolderSyncProofs`, `TurnRelayProofs`, `SyncDataPortProofs` | theorems about the modules they are named for, see §5 | |
| `ShareGetProofs` | theorems about `RetryFlow` and about `ServerShare` with `CommandLine` | |
| `MC*` | constants for TLC | |

How they fit. `ConnectionHost` and `RetryFlow` extend `ConnectionMachine` and are
its two environments. `Rendezvous` composes two loops, two sockets and the relay;
`ResumableTransfer` composes both engines, both payload loops and the relay below
it; `PeerLoop` is what carries its frames, `TurnRelay` one of the paths below
that. `FolderSync` runs over a channel that either a `PeerLoop` or a
`SyncDataPort` provides, and implements `FolderMirror`. `ServerShare` extends
`CommandLine`; `Commands` composes it with `Connectivity` and two algorithms.

### Abstractions

**Transfer.** A chunk is its index, and the payload is intact when the buffer is
`<<0, .., Total-1>>`; the checksum of `get.rs` is that comparison. Metadata frames
carry the resume index only. Offer, answer and the opening of the channel are one
step (`Connect`), as `Rendezvous` has them, and the retry budget is absent, as
`RetryFlow` has it. A control socket of the recipient stays alive as long as its
process; the sender and the relay are one process. `SenderFlushBreaks` may happen
at any time while streaming, where the code can only meet it during a flush. The
latch `full` holds both `payload_fully_sent` and `recipient_done`, which are only
ever read together.

**Rendezvous.** A negotiation is the number of the sender's offer; candidates
are left out, the queue of offers and the queue of answers are kept. The machine
is its projection on the retry budget, the payload is the one step `Finish`, and
`p2p:error` is `RetryFlow`'s. Nobody answers the manual prompt. The online server
is not in the repository; it is assumed to keep the rules of the embedded relay,
which says it mirrors it, and to outlive the sender. A socket that dies takes
what it had emitted and not delivered with it; `late` is the relay that notices
a dead socket after its successor has joined. Ping and pong are inside "dies".

**PeerLoop.** A frame is its number. `str0m` and the network are the room in the
SCTP buffer, acknowledgements, and the state of the link. One action of the loop
is one turn: the pump, the test of the grace period, and one output or one arm
of the select.

**TurnRelay.** One tick is 150 s, so a lifetime is 4, a permission 2. A nonce is a
number and a realm changes with it. Each direction keeps its order and may lose
any datagram. The HMAC's key is right when the nonce is. Any call on the socket
within `allocate()` may fail and ends it; a server may have a name that does not
resolve. The event loop's own calls on the socket do not fail.

**SyncDataPort.** A byte is a number, a length prefix two digits to the base 4, a
key the number of a salt and a password. What the frames say is `FolderSync`'s.
A stranger says at once all that it will say, and what the sender writes to it is
not followed. It may stay silent or say something that is no hello, a hello of
another version, one whose metadata makes no key, or one that is right, after
which it stays, closes, or seals a frame under a key of its own. Only the sender
meets strangers: the recipient connects to the address it was given.

**FolderSync.** A content is the sequence of versions its chunks were read from
and is its own hash; a file whose rewrite truncates it while it is read travels
shorter than it was. A file that grows while it is read, and a scan that meets an
edit, are left out. A frame is too large when it names more than `MaxStale` stale
paths; a manifest batch of 512 entries with very long paths could be too large as
well and is left out. A lost channel takes a suffix of each direction with it, and
an error of the file system ends a run as `?` does. The handshake before the
channel opens is part of `StartRun`, and so is the scan: a source that changes
between the scan and the recipient's arrival changes after `StartRun`. Path
validation, protocol versions, file modes and excluded names are left out. Nobody
but the recipient writes the destination. A killed process during a deletion is a
deletion of some files, then a death (two troubles, one more than the run
allows). The history variables `before`, `travelled`, `arrived`, `undeleted`,
`edited` and `steady` are read by no action's guard. `MirrorPromise` maps the
destination to its files without the part suffix, for which the code promises
nothing: they are deleted at the start of each run.

**ServerShare.** The server is external: one share, a challenge that is good for
one version of it, a one-time share consumed on delivery, answers that may be
lost. Sizes are small numbers around the limit. A file that another run has
written over may be an archive, of any of the contents. A directory has three names a
share may be saved under and a folder with three names inside; a file there is
`None`, `Mine`, `Part` or a version. An archive has two entries, of which the
second may be a link or leave the folder.

**Connectivity.** A world is a record of independent things that work or not; a
probe fails when one of those it depends on does not. A URL is unset, one in which
`host_port` finds no host, or whole.

**StunCodec.** HMAC-SHA1 and CRC32 are a sum of the bytes they cover: what is
checked is which bytes those are, and which length field is among them.

## 3. Runs

| run | question | bounds |
|---|---|---|
| `host` | under any order of events: flaps spend the budget, a stopped machine is quiet; with prompt signaling: a reconnecting machine has a wake-up and stops when its peer is gone (liveness) | 2 retries, backoff of 2 entries, 2 joins under way |
| `flow` | schedule, bounded waits, deserved failure, end of a climb, for all four loops | 3 retries and the real backoff table (in seconds) |
| `rendezvous` | is a negotiation ever mixed up with an earlier one, and do the loops meet or end? | both modes, 2 retries, 2 broken channels, 1 dead socket |
| `rendezvous_discard` | is a fresh offer kept? violated: a re-join drains it | local mode, no deaths, no timeout within a negotiation |
| `transfer` | order and integrity with ticks, late acks, a lost channel, a restart; exact resumption and an end when the relay keeps up | five scenes: 3 chunks with ticks and either 1 loss or 1 death; 2 chunks with ticks and both; 4 chunks without ticks and both; 6 chunks and a relay that keeps up, with 3 losses and 2 early timeouts; window 2, batch 2 |
| `peer` | do frames keep their order, does a loop that ends by itself write all of them, do a shutdown and an abandoned loop end? | 4 frames, command queue 2, pending 2, batch 2, SCTP 2, grace 1, 2 candidates |
| `peer_hang` | does `wait_closed()` return? violated for the online sender | same |
| `turn` | does the handshake fail for a cause only; do allocation and permissions live? | 3 retransmits, 1 stale retry, 3 nonces, 2 peers, 3 datagrams a direction |
| `dataport` | do frames arrive whole and from the recipient only, is noise harmless, does every wait end? | 1 stray connection of ten kinds, 2 frames each way |
| `sync` | success means a mirror, on both sides; the destination changes only as `FolderMirror` allows; a repeat sends nothing; every run ends; repeats converge | 4 names, 3 sources, 4 old destinations, 2 versions, 2 chunks, lists in batches of 1, a Delete frame of 1 path, 1 edit, 1 trouble, any number of runs |
| `commands` | verdict of the check; what the flags do to a directory; what `get` leaves on the disk; datagrams and addresses | 2 runs of `get` in one directory, 1 run of `manage`; every world, every command line, the listed messages and machines |
| `share_pwd` | is `--pwd` stored as a password? violated | 1 run of `get`, no `manage` |

Why the bounds are enough. The machine compares `attempt` with `MaxRetries` and
indexes a table, so two or three retries reach every branch; `Offsets` of two
values separate a growing resume point from a repeated one. `AttemptMax` stands
for `u32::MAX` and is above every reachable count. For the transfer, six chunks
with window and batch of two give three windows: a resume on, before and after a
batch boundary, and a loss in each. `WordSize` only has to exceed every
difference of cursors. The code's window of 256 and batch of 64 satisfy the
assumption `Window >= Batch`; with a smaller window nothing would ever be
acknowledged, as the CLI recipient never calls `tick` (`ticks = FALSE`; `TRUE`
stands for the web recipient of the same protocol). Ticks multiply the states,
so the scenes with ticks are small and take a loss and a death in turn, and a
scene without them has both over more chunks; what needs no relay that keeps up
is then proved for every size (§5).

Two retries of each loop let each side fail while the other is in any stage, and
two broken channels let a loop come back to its first wait with a budget that was
spent and given back. In `peer` four frames are twice each of the queues: a full
command queue, a full pending queue and a full SCTP buffer all happen, at once
too. In `turn` three retransmits of the first request are the code's; one stale
retry and three nonces reach the branch that gives up; two peers are needed for
a permission that fails while another is kept. In `dataport` a second stray only
repeats the first, which the slot of one connection already makes wait, or comes
after the port has closed; any number of them is proved (§5). In
`commands` two recipients are needed for a name that is taken between its choice
and the write; what any number of them leave on the disk is proved (§5). They are
interchangeable, which the symmetry set says; the run has no liveness property.

The four names of `sync` are a file `a`, a file whose name is `a`'s part name, a
file `a/f` below a directory of the same name, and `b`: a conflict of kinds, a
collision with the part suffix, and two files together, so that lists have two
batches and a plan two files. The source holds nothing, the first two or the last
two before the first run, and the MC module names the destinations; later runs
start from whatever the earlier ones left.
A Delete frame that holds one path and destinations with two stale files reach
both sides of the limit on a frame. Two chunks make a torn read and a file cut short
after none or one of them; one edit and one trouble may fall in one run, in
consecutive ones, or between them; since a run keeps nothing but the destination,
a later trouble meets a state of the same kind.

### What the properties leave out

* `ReconnectingHasWakeup` and `GonePeerStops` are claimed for `prompt` (a variable
  chosen in `Init`: a join is answered before the link fails again), because a
  late `p2p:joined` cancels the timer of the failure before it.
* `BufferAligned`, `ResumePointHeld` and `WindowArithmetic` are claimed for
  `Steady`: scenes with `settle` (the relay has the old attempt's acknowledgements
  before it is joined again: the backoff is a second, the path is the LAN), without
  ticks and without a recipient that dies. Without `settle` they fail, see §4; a
  resend asked for on a timer truncates a buffer that was acknowledged further on;
  a new recipient process may be resumed at the checkpoint of the one that died.
  `TransferEnds` is claimed for `settle`.
* `MeetOrEnd` is claimed for `~late`, and leaves out a loop on its first wait for
  a peer whose process has ended: the code waits there without a bound on
  purpose. With `late` both loops can wait on that first wait for each other: the
  late disconnect disarms the socket that had just replaced the dead one.
* `GatherFailsForCause` counts as causes a server without a usable address and any
  one error of the socket (`turn.rs:53`, 85, 107-109, 115): both end `allocate()`
  at once, and no other server is tried.
* `AcceptFailsForCause` counts as causes a silent stranger in the only slot, for
  whose hello the accept loop waits until the whole deadline is over; a hello whose
  metadata makes no key, on which `wire_from` fails after the loop (`sync_tcp.rs:399`);
  and an `accept()` that fails (380-383).
* A stranger that says magic, version and metadata takes the sender's wire
  (`parse_handshake`): the header of `sync_tcp.rs` (28-32) leaves the gate to the seal, and
  so does `FramesArriveWhole`, which says that nothing comes through that wire. The
  recipient then fails for want of a port.
* `SessionEnds` leaves out an end on an established wire whose peer lost power, or is
  a stranger that speaks and then stays silent: no read has a deadline there.
* `SyncConverges` leaves out a path that is a file on one side and a directory on the
  other (`Obstructed`) and more stale files than a Delete frame can name
  (`TooStale`): both stop every run, see §4.
* `AllocationKept` and `DropsHaveACause` leave out a refresh that was lost or came
  with a stale nonce, and a permission that was lost, refused or ran out: the
  code asks once and does not read the answer.
* `BlockerIsRootCause` has two exceptions: a web host whose name does not resolve
  counts as DNS and blocks (§4), and `check turn` calls a dead host an API that does
  not answer.
* `FailedExtractCleansUp` allows the entry at hand to stay half written in a folder
  that was there, as the code leaves it (§4).
* `SavedWhole` is about runs that end without a warning: a file that
  `--replace-delete` cannot delete is one. `SavedWhole` and `FailedExtractCleansUp`
  are claimed for a run that had the directory to itself: two that choose a name at
  once overwrite each other. `SavedWhole` also needs a free name: `deduplicate_path`
  tries 999 numbers and then returns the name it was given, which `write` overwrites
  (`mod.rs:105-111`). The model has three names and, in the run, two recipients, so
  that one is always free; its theorem has `RoomLeft` as a hypothesis.

`CHECK_DEADLOCK FALSE` everywhere: the systems end (done, failed, stopped with
nobody to retry, one datagram built).

### Fairness

* `ConnectionHost`: timers fire, dials end, joins are answered; the deadline is
  strongly fair because it runs on the wall clock while re-dials keep unsettling
  the socket. A person, a peer and a failure are never forced.
* `RetryFlow`: every stage is bounded by a timeout of the code except the first
  waits and the prompt, and those are not fair; a transfer breaks or progresses
  (ICE reports a dead path).
* `Rendezvous`: both loops and the relay run, a channel between two peers of one
  negotiation opens and carries the payload unless it breaks; a peer alone on its
  negotiation fails (timeout), a socket dies when the relay is gone. Deaths and
  breaks are never forced.
* `ResumableTransfer`: both processes and the relay run, and a recipient nobody
  will answer times out; losses, deaths and ticks are never forced.
* `PeerLoop`: the owner sends and waits, the loop turns, time passes, and the far
  SCTP acknowledges while the link is up. A link that comes up or breaks, and an
  owner that gives up, are never forced.
* `TurnRelay`: the client reads or times out, the server answers. A loss is never
  forced.
* `SyncDataPort`: both processes run, their deadlines pass, bytes that were sent
  arrive. A loss of power is never forced.
* `FolderSync`: both processes run, a lost channel is reported (ICE consent, or a
  closed socket) and the cron job comes again. A TCP peer that loses power is in
  `SyncDataPort`, not here.
* `Commands` states none: its properties are about steps and states.

## 4. Disagreements

Shown by a run, with the lines in `findings` of `PROJECT.json`:

* `peer_hang`: the online sender queues its Close with `close()`, which drops it
  when the command queue is full, and then waits for the loop (`share.rs:1624`);
  the local sender was changed for that reason (`share.rs:797-798`).
* `rendezvous_discard`: a recipient whose wait timed out is still armed; a sender
  that re-joins in that backoff offers at once, and the recipient's next re-join
  drains the offer first (`get.rs:855`, against `get.rs:889-892`).
* `share_pwd`: `--pwd` reaches `resolve_content_type` as `password`, which it
  does not know, and the share is stored as text (`share.rs:137`, against
  `README.md:95`).

Met while modelling, stated at the properties or hazards concerned, without a run
of their own:

* before a first channel the retry budget is given back at each join
  (`connection.rs:141`), so there are more than the three retries of
  `README.md:15`; after one, `BackoffSchedule` bounds them;
* an error event during the wait for the answer aborts the transfer
  (`p2p_stages.rs:256`) where the comment at 39-43 calls it transient;
* an acknowledgement of the old attempt that reaches the relay after its re-join
  (`local_server.rs:134`), or stays in the sender's queue over it (`share.rs:516`),
  moves the checkpoint away from the recipient's buffer; the drain at
  `share.rs:511-516` leaves out exactly the acknowledgements, and one from a
  recipient that died, applied to the attempt of the next, takes `base` past
  `next`, so that `next - base` (`sender_engine.rs:63`, on `u64`) underflows,
  against `sender_engine.rs:25` ("max chunks in flight ahead of `base`");
* the resume point cached at the sender's join (`share.rs:582`) is used after an
  unbounded wait; a recipient that was restarted in it holds less
  (`local_server.rs:168-171` clears only its own copy);
* the sender reports a success once all frames are with the transport
  (`share.rs:630`, against 616-619), and a failure when the recipient finished and
  left (`share.rs:776`, against 612-613);
* a path that is a file on one side and a directory on the other stops every
  folder sync, with `--replace-delete` too (`sync_flow.rs:810`, against 262-264);
* the stale paths travel in one Delete frame, the only list that is not cut into
  batches (`sync_flow.rs:390-396`), and `encode_frame` refuses more than 1 MiB
  (`protocol.rs:180-182`), against `protocol.rs:29-32` ("manifests are batched ..., so
  1 MiB is far above anything legitimate"). A destination with more stale names than
  that fails every run at its end, also without `--replace-delete`, since the frame is
  sent either way; no repeat gets past it;
* a failed extraction into a folder that was there leaves the half of the entry at
  hand, possibly in place of the user's file: a file counts as written once it is
  complete (`archive.rs:182-186`, 212-214), against `archive.rs:124-125` ("partial
  output is deleted: ... otherwise every file this run wrote");
* a web host whose name does not resolve is reported as Blocked, because its probe
  is on the critical DNS layer (`check.rs:663-665`), against `check.rs:77-81` and
  169-170 (a web failure "never blocks"); a web host that resolves and is down is
  informational, as they say;
* a late join cancels a timer, and three events take the machine out of
  `Completed` (`connection.rs:134-140`).

## 5. Proofs

Each theorem holds for every value of the constants that the module's named
assumption admits: `MachineAssumption` (a finite table, a bound on `attempt` above
`MaxRetries`), `HostAssumption`, `FlowAssumption`, `RendezvousAssumption`,
`TransferAssumption` (a batch no larger than the window, cursors that fit the word),
`PeerAssumption` (queues of at least one place), `TurnAssumption` (numbers, and a
server that grants at least a tick: a lifetime of zero is how an allocation is
deleted), `DataPortAssumption` (strays that are not the recipient) and
`FolderAssumption` (a finite set of names; any limit on a frame, also of no path;
part names that differ from their file and from each other, sort behind it and are
no directory; contents that are neither `Absent` nor `Folder`). `ServerShare`
assumes nothing. TLC evaluates all of them, and has checked each inductive invariant
before it was proved. None of the properties below is inductive as it stands, but
for `DirectoryIsNeverSentAsText`.

* **Machine and host.** `HostInvariant`: the conjunction of `TypeOK`,
  `FlapsConsumeBudget`, `StoppedIsQuiet` and what they need: a count of flaps needs
  to know that a channel that is live has spent no retry mark, otherwise
  `schedule_retry` would return early and not charge it. `HostTypeCorrect`,
  `FlapsAreCharged` and `StoppedStaysQuiet` follow. `ReconnectingIsAwake` needs
  `Wakeful` besides: while a dial or a join is under way the deadline is armed, as
  the timer that led to it is gone, and an idle machine is untouched.
* **Attempt loops.** `FlowInvariant`: `Place` (what the machine looks like at each
  stage: no mark or timer pending when the loop is not in backoff, attempts equal
  to sleeps once a channel has opened, none before) and `History`. That the next
  delay is the table's next entry needs `attempt = Len(slept)`, and that no delay
  is skipped needs `~timerArmed` at every failing stage. `SleepsFollowTable`,
  `ReattemptsAreBounded`, `GivingUpIsEarned` and `FlowTypeCorrect` follow.
* **Rendezvous.** `OneNegotiationAtATime`: an offer and the answer it becomes are
  one token (`OneToken`). It is in one queue of one socket, of the relay or of a
  peer, carries the number of the current negotiation, and exists only while the
  sender waits for the answer or has ended. `NoNegotiationIsStale` follows. The
  token has to be followed through the relay's queues and through dead sockets;
  that neither loop acts on an old number says nothing of what is still on its way.
* **Transfer.** `ChannelIsOrdered`: types, and `Ordered`, a chain: each frame of
  the channel fits the one before it, the first fits what the recipient expects,
  and what the sender sends next fits the last. `NoGapOnAChannel` and
  `AssembledIsIntact` follow, with every loss, death, tick and late
  acknowledgement. `TransferInvariant` adds, for `Steady`, `InStep`: no resend is
  asked for; the one metadata frame comes first and announces the relay's
  checkpoint; what is acknowledged, wherever the acknowledgement is, is held and was
  sent. `BufferStaysAligned`, `ResumePointIsHeld` and `CursorsNeverWrap` follow;
  each alone depends on the acknowledgements in all three queues between the two.
* **Peer.** `PeerInvariant`: types, the order, and that nothing follows a Close
  in the queue and nobody sends after it (`CloseIsLast`), so that a loop with a
  grace period has drained all there ever was. `FramesAreKept` says that written,
  pending and queued frames are the accepted ones, each once; `FlushedIsWritten`
  that a loop which ends by its grace period has written them all. The frames of the
  bounded queue are a recursive function of its length: what a command adds to it or
  a turn takes from it is proved by induction on the set of lengths for which it
  holds (`UpFromZero`).
* **Folder sync.** `FolderInvariant`: types, true summaries, and for as long as the
  recipient has not failed `InStep`: a run is in one of eight phases, and the phase
  says where both loops are and which frames are under way. While the lists are
  exchanged what is in each direction is a window of that side's script of batches;
  while a file is carried it is what comes next of begin, chunks and end, and the
  part file is what came before; then it is the prune and the two summaries. A lost
  channel leaves a shorter window, an edit changes only what is read later, and a
  dead sender leaves its last phase behind, which is why a phase does not require
  that the sender lives. `SuccessIsShared` and `SuccessIsAMirror` follow.
  `MirrorIsKept` is the refinement of `FolderMirror`: a start is a `Begin`, a rename
  to a name without the part suffix a `Place`, the deletions one `Prune`, the end of
  the recipient a `Succeed` or a `Fail`, and every other step changes nothing a user
  sees; the comparison and each source file read to its end are a `Read`. The commit and the prune
  need the invariant, for what is renamed is all that was read of an offered file,
  and everything offered is in place, only because of the phase. `RepeatIsFree`
  needs two runs at once: while the source is not edited what was offered, read and
  carried is what it holds (`RunsAgree`), and the sender's comparison ends only with
  all of the recipient's list, also if the recipient has failed meanwhile
  (`AnswerIsHeeded`).
* **TURN client.** `TurnInvariant`. Along the way from the server to the client and
  back nonces only get newer (`NoncesGrow`), so that a request with the nonce of the
  handshake is one the server has taken. While `allocate()` runs nothing but its
  requests is under way, none of a later transaction than the machine's
  (`OnlyAllocates`), and none vanishes unnoticed: those of the first request are in
  flight, answered or counted as lost, and the one the machine waits for is in
  flight unless it was lost (`NothingVanishes`). With `RefusalsAreNoted` this gives
  `GatheringFailsForCause`; an error of the socket, the one cause that leaves no
  datagram to follow, is what `broken` records.
  `AllocationIsKept` needs the two timers tied together: what is left of the
  allocation is at least what is left to the next refresh and the other half of the
  lifetime, and while a refresh is under way no time passes (`RefreshedInTime`).
  `DropsAreExcused` needs the order of the queue: ahead of the first Send indication
  to a peer is the request for its permission, until that is served or lost
  (`SendsAreCovered`).
* **Data port.** `PortInvariant`: for each end whose session lasts, the bytes under
  way to it and in its reader are those of a window of the other end's messages,
  from the ones it has read to the ones that were written (`InTransit`). However the
  network cuts the stream, a length prefix is read where one begins, because the
  window gives each message its offset in closed form (`Offset`): sizes depend on
  the number of a frame only. An end at the other end's wire knows its salt, one at
  a stranger's wire the stranger's, and an end without a wire has sent no frame
  (`Introduced`); no frame unseals under a stranger's salt. The recipient's
  connection stays in the backlog or the slot until the port closes or a stranger
  has taken the wire (`Queued`), because what comes of any other stranger's
  connection leaves the others where they are. `FramesAreWhole` and
  `NoiseIsHarmless` (an action property) follow; the proof of the second shows that
  a step that ends the wait in failure is the deadline's, that of a hello without a
  key or that of the listener, and that a recipient with the right hello in the slot
  is never taken for noise.
* **Server share.** `DirectoryStaysADirectory`: from `FolderFlagsAgree`, for every
  record of flags. `StoreInvariant`: a run of `get` that is saving and has been
  alone in the directory finds there what was there when it took its name, changed
  by exactly what it has written so far (`Finds`): the archive under its name, then
  the entries it has come to. If a run is alone no other is saving (`Sole`), and no
  step of a run that is not saving touches the disk. A folder that is not there
  holds nothing (`IsDisk`): without this the cleanup that removes the folder would
  not restore what was there. `FailuresAreCleanedUp` follows, and
  `SharesAreSavedWhole` with `NameWasFree`. The attempt to prove `IsDisk` found
  that `ExtractFails` must create a folder that another run has removed meanwhile
  before it leaves half an entry there, as `create_dir_all` does; TLC sees a
  consequence of the omission with three recipients only.

Only model-checked:

* every liveness property: the prover has no rules for fairness and ENABLED;
* `BlockerIsRootCause` and `LanAddressAdvertised`, which search lists with
  `SelectSeq`: what it returns for lists of any length is an induction over data.
  `Connectivity` has no constants, and the run visits every world; of the machines
  it visits those with two interfaces of the seven listed;
* `DatagramsDecode`: `StunCodec` uses the bit operations of `Bitwise`, and a loop
  over the attributes of a message;
* that `Commands`, which reaches `StunCodec`, leaves the server share as it is while
  it is about something else. The theorems on `ServerShare` are about its own
  specification `StoreSpec`, whose steps `Commands` takes one by one.

## 6. Plan

The plan is carried out. What would come next, were the code to grow: the manual
retry within `Rendezvous`; a third socket of a role at the relay; and a refinement
from `TurnRelay` to a channel that loses datagrams for a cause only, which
`PeerLoop` could then run over.

## Not modelled

Display, logging and service discovery (mDNS): no state that a property is about.
The ignore rules of the walker are the `ignore` crate's. The frames of Socket.IO,
its ping and pong and the parsing of event names and payloads: a socket lives or
dies, an event is delivered or not. The manual retry within `Rendezvous` (it is in
`RetryFlow`), the check of a session before the loops, `--relay-only` outside
`TurnRelay`, a third socket of a role at the relay, and `p2p:delete`. `str0m`
(ICE, DTLS, SCTP), AES-GCM, PBKDF2, the TURN server and the web server are
external: what the code relies on is modelled from how it uses them.
