# PenguinSync: specification and proofs

PenguinSync connects one Linux daemon (which listens) with any number of Android
phones (which dial) over QUIC: a phone is paired by scanning a QR code with a
single-use, 60-second token and by a human's confirmation on the desktop; afterwards
the two sides keep a control stream alive and exchange clipboards over it. This
directory holds TLA+ modules of its protocol-bearing parts, the TLC configurations
that check them on small instances, and theorems checked by TLAPS.

Run `tlc -config X.cfg M` for a run (`PROJECT.json` names M and X) and
`tlapm M_proofs.tla` for the proofs about M. `PROJECT.json` also maps each definition
to the lines it models.

## The system

| part | state it keeps | operations | talks to |
|---|---|---|---|
| orchestrator + D-Bus service (`daemon/orchestrator.rs`, `dbus.rs`, `shared.rs`) | token slot, pending confirmations, three maps of connections, Device1 objects | one listener event at a time; `StartPairing`, `ConfirmPairing`, `Unpair` as concurrent calls | listener (channel), trust store, state file, clients (signals) |
| trust store (`net/tls.rs`) | pins, end of the pairing window | pin, unpair, open/close window, verify a certificate | read by every TLS handshake |
| saved devices (`daemon/state.rs`) | devices.json and its copy in memory | load, upsert, remove, save by rename | orchestrator and `Unpair` |
| pairing token (`protocol/pairing.rs`) | bytes, issue time, `redeemed` | issue, redeem; QR URI codec | token slot |
| listener (`net/listener.rs`) | one task per connection | accept, drain | orchestrator's channel |
| session, ConnectionMachine (`net/session.rs`, `protocol/connection.rs`) | phase, last and pending ping | handshake, ping/pong, timeout, clipboard, close | its peer over an ordered stream; its owner by events |
| framing and codec (`net/framing.rs`, `protocol/message.rs`) | bytes read so far | read and write a frame | session |
| reconnect loop (`net/reconnect.rs`, `protocol/backoff.rs`) | token, attempt number | connect, drain, back off | session; forwarder's channel |
| FFI core (`ffi/core.rs`, `state.rs`) | pins, peers.json, `active_session` | pair, cancel, send, forward events | Kotlin |
| Android app (`PenguinSyncApp.kt`, `ConnectionStatus.kt`) | connection handle, folded status | startPairing, send, receive | core, by calls and callbacks |
| clipboard sync (`daemon/clipboard.rs`, `gnome-extension/`) | last hash | watch and broadcast, receive and write | orchestrator, sessions, GNOME over D-Bus |
| TUI (`cli/tui.rs`) | QR on screen, prompt, rows, cursor | keys, refresh tick, signals | daemon over D-Bus |
| commands (`cli/main.rs`, `dbus_client.rs`) | none that lasts | pair, list, unpair by prefix | daemon over D-Bus |
| identity (`net/identity.rs`) | key and certificate files | load or generate, save | start-up; pins elsewhere |
| configuration, addresses, endpoint, start-up (`daemon/config.rs`, `net_addrs.rs`, `main.rs`) | config.toml, port, bus name | load, bind, own the name | everything at start |

What is hard, and what makes each part correct:

- **Orchestrator.** Its event loop is sequential, but it awaits: a human's answer for
  up to 65 s, locks, a file. D-Bus calls run in between, and the ends of sessions queue
  up. Its maps are keyed by addresses that change hands and filed under ids that are only
  claimed: they must not point at ended sessions or other phones' and must not lose live
  ones; a yes must count for the prompt it answers and for no other.
- **Token and window.** Two `StartPairing` calls overlap; the window and the slot are
  set by different statements. A token must lead to one prompt.
- **State file.** Two writers, crashes, failed saves. What a restarted daemon trusts
  must be what a human agreed to.
- **Connection.** Timeouts in ticks on two unsynchronised sides; a link that goes dark
  silently. A dead peer must be noticed in bounded time, a live one never given up.
- **Framing.** One task reads and writes. Its reader is a branch of `select!` and can be
  dropped halfway through a frame; two writers can fill both windows. Nothing may be
  garbled but by a dropped read, and nobody may hang for ever.
- **Phone.** Two worker threads, a dialer and a forwarder per `pair()` call, all
  writing one slot; cancellation at any await; process death. The slot and the status
  must end up true, the token must go out once, and dialing must never stop.
- **Clipboard.** Two tasks share one hash, a selection that is read after it was said to
  have changed, and a fan-out, and one of them runs before the other can; a clip must not
  come back, and everybody must end with the same one.
- **Clients.** Several TUIs and commands watch one daemon through signals they may be
  late for and rows that are replaced, or covered, under the cursor. A prompt must be the one the
  daemon waits on, a code on a screen one that works, a key must hit the row its human
  saw, and a prefix must not be guessed at.
- **First contact.** Two files written one after the other, two processes that may do
  so at once, a port with fallbacks. The identity that was pinned must stay, and the
  scanned address must stay good.

`PROJECT.json` lists every hazard at its line with the properties that cover it, or
the reason why none does.

## Modules

| layer | modules |
|---|---|
| what pairing promises | TrustPolicy, PairingService; both refined by Daemon |
| the daemon's tasks | Daemon (pairing, sessions, trust, saved devices), Clipboard |
| its clients | PairingClients (EXTENDS PairingService), DeviceList |
| the phone | Phone |
| the stream between them | Connection (messages), Framing (bytes) |
| start-up and the code that is scanned | FirstContact |

Modules on one layer or on neighbouring ones each have the part of the others that they
meet as an environment. TrustPolicy and PairingService are checked through their uses,
every other module X through MCX.

### Daemon (proofs in Daemon_proofs)

The daemon between network and D-Bus. One step is a stretch of code between two points
where another task can change what the stretch reads. Hence:

- `StartPairing`/`StoreToken` are the two halves of `start_pairing`, `Unpair`,
  `UnpairForget`, `UnpairPersist`, `UnpairRemove` the four of `unpair`;
- `Dial` is the TLS verifier's decision, `Accept` the later `Connected` event,
  `AcceptFails` a connection that ends before its control stream arrives; `Hello` and
  `Close` are the two session events that matter;
- the orchestrator's program counter is `at`: from `"idle"` it takes one event
  (`OnConnected`, `OnClosed`, `OnPairedHandshake`, `OnStrangerHandshake`,
  `OnPairingHandshake`); a pairing handshake goes on through `AwaitConfirmation`,
  `Pin` or `NotConfirmed`, `Upsert`, `Persist`, `MarkConnected`, and no other event is
  taken until it is back;
- `Restart` is a crash at any point followed by a start: only `devices.json` survives;
- `Tick` moves all deadlines; tokens, phones, addresses and sessions are abstract
  values. An address can be dialed from again, by the same phone or by another one, before
  the earlier session's end has been handled, and a phone may dial from any address;
- the device a handshake names (`who`) is its own choice at `Dial`. The verifier looks at
  the presented key alone: any pin lets a connection in, and so does an open window. That
  key is nowhere compared with the name (`connection.rs:48-52` leaves this to net, which
  does not do it), so the model does not keep the key at all.

The history variable `passed` has the phones that share an address with another one: a
session of the phone's and one of another's, at the same address, are both reported and
not yet buried. A phone leaves it when a `Closed` is handled that is filed under it and it
does not share any more. `HandlesAreCurrent` and `FlagWillClear` speak of the phones that
are not in it; for the others they do not hold (see below).

Merged on purpose: `MarkConnected` and `OnClosed` are one step each although they await
several locks, because the only concurrent writer of what they touch (`UnpairRemove`)
has the same effect in the middle as before or after. Clipboard events and pongs leave
this state alone and are left out; device names are too.

Two abstract specifications are refined by it. `TrustPolicy` says what trust means: a
phone becomes trusted, and known, only while the human's yes to its latest prompt stands;
revoking is always possible; what is saved is some past state of what is known; a crash
reverts to what is saved (`PolicySpec`: trusted <- trust, known <- state, saved <- disk).
`PairingService` says what a D-Bus client can rely on: one token that counts, good for
one question; one question at a time; an answer that has an effect only while its phone is
waited for; trust only by the answer yes (`ServiceSpec`).

### PairingClients (proofs in PairingClients_proofs)

The TUI (several of them) and `penguinsync pair`, composed with PairingService: each of
the clients' calls conjoins the service's action. As Daemon implements the service, the
clients' safety properties carry over to it, up to the daemon's next restart
(`ClientsAreClients` is the other half: the clients do nothing to the service that it
does not offer). A TUI's loop takes one key, tick or signal at a time and a pending `StartPairing` call holds it (`busy`); signals queue in `inbox` meanwhile. The
code's remaining time counts from when it is shown, the token's from when it was minted,
so that the two differ by the call's duration. `past` is a history variable: this TUI has
answered the question, or was not there when it was asked.

### DeviceList (proofs in DeviceList_proofs)

`list_devices` takes the objects in one call (`Lists`) and then asks each for its
properties (`Reads`), in any order; an object or a daemon that vanishes in between leaves a
row of defaults (`Blank`). The TUI's rows, cursor and keys, and `unpair <prefix>`, go by
the rows they were given, while devices are paired, unpaired by others, come and go, and
the daemon stops and starts. What is open over the rows is `over`: a pairing code hides
them all and leaves the keyboard as it is, but for Esc; a prompt has the keyboard to itself
(`Acts`, `Swallowed`). A typed key remembers whether the rows were drawn and what its human
saw of them (`drawn`, `of`, `on`), and whether an arrow was still waiting before it
(`still`). The daemon's objects, and when it asks for a confirmation, are its environment
here; what a code or an answer does is PairingClients' matter.

### FirstContact (proofs in FirstContact_proofs)

How a daemon process starts (config.toml, the two identity files, port, bus name), step
by step and with `Exit` possible at each, for several processes side by side; the code it
shows (`Code`) and `decode_qr_uri` field by field (`Decode`); and what `pair()` makes of a
scanned code. Ports and addresses are small numbers; a code is a record of fields, and
the codes that a phone may take for one differ from it in one field (`Codes`). What a
code means is said without a loop, by the places of its fields (`Places`, `Meaningful`):
every known field parses, every required key has a place and counts with its last one, and
the addresses keep their order.

### Connection (proofs in Connection_proofs)

Both ends of one control stream: two `ConnectionMachine`s and their `drive` tasks.
Messages are FIFO with an age; a good link delivers within `Delay` ticks, a dark one not
at all, and one that came back delivers everything late. Each side ticks once per
period, before or after its other events in it, so that every race of a pong against a
timeout within a tick is there. A fresh random nonce is a bit that differs from the last.
That messages arrive whole and in order is what Framing gives as long as no read is
dropped halfway.

### Framing (proofs in Framing_proofs)

The same stream in units of bytes: `write_all` into a window that may be full, and
`read_message` unit by unit, which every other branch of `select!` (`Command`,
`IdleTick`, `PingTick`) drops with what it has consumed. A reader in step with the frames
reads the true length and message; one that is not reads any of `Claims` for a length and
any message, or none, for a body. All messages have the same size. `cut` is a history
variable.

`phase` is the machine's, as far as it matters here: `"awaiting"` a handshake that is still
to come, `"past"` it (its bytes are behind the reader, which did not read them in step), or
`"ready"`. A machine that is not Ready answers nothing, sends no clipboard and no ping and
misses no pong (`PingTick`), so one that lost its place inside the handshake has nothing of
its own to notice it by. What remains is QUIC's idle timeout: `endpoint.rs` configures no
keep-alive, and the connection falls silent as soon as the other side, whose pings go
unanswered, waits for its pong (`Mute`), unless that one's own timeout is earlier.

### Phone (proofs in Phone_proofs)

The Android process. Per `pair()` call: a dialer (`Attempt`, `Connect`, `ConnectFails`,
`Drained`) and a forwarder (`Forward`, `LoadPeers`, `SavePeers`), joined by the channel
`rx`; a connection lives by itself (`Greet`, `Die`), also after its dialer was
cancelled, since the drive task holds its own clone of it. `StartPairing` cancels and
replaces, `StartPairingFails` only cancels (the QR does not decode, or no socket),
`Restart` is the death of the process.

### Clipboard (proofs in Clipboard_proofs)

`watch_and_broadcast` in four steps (`WatchTakes` a notification, `WatchReads` the
selection, `WatchHashes` under the lock, `WatchSends`) beside `handle_received` in three
(`Receive` with the pairing check and the hash, `WriteLocally`, `WriteNowhere` or
`WriteFails`, `Relay`):
a step ends where the code awaits a D-Bus call or a lock the other task uses. `SetOwner`
is what GNOME and the extension do for a copy as for a write. Phones send by hand and
apply what they get. `Join` and `Leave` change `connected_devices` only between two
received clips, because the orchestrator awaits `handle_received`. A clip is a text that
also stands for its hash; `Odd` is any content `Clip::new` or the extension refuses.

main spawns the orchestrator before it looks for the extension, so phones join and send
while `backend` is `"probing"`. `Probe` finds the extension or does not, for good;
`Subscribe` makes the watcher's subscription or fails at it (`feed`), and only from then on
is the watcher told of anything. A clip received without a backend is hashed and relayed
but not written (`WriteNowhere`). `Copy` may also go untold later, when the extension is
off. The history variable `behind` is TRUE after anything the daemon was not told or could
not do -- an untold copy, a read or a write that failed, a clip with no backend to write it
to -- and until its next read or write.

The history variable `crossed` becomes TRUE when a user copies while a received clip has
not been relayed yet, or sends from a phone while anything is under way. Echo suppression
and the agreement of the phones hold as long as it is FALSE.

## Runs

| run | question | bounds |
|---|---|---|
| daemon_sessions | do the maps and Connected flags ever refer to another phone's session or a buried one? | 2 phones, 2 addresses, 2 sessions at once, Unpair of one phone, no token |
| daemon_pairing | tokens, saves, crashes; refinement of TrustPolicy and PairingService; is every end of a session handled in spite of the blocking prompt? | 2 phones, 2 tokens, 1 session, Unpair of one phone, TTL and grace of 1 tick |
| daemon_stale_close (violated) | does a connected, paired phone have its send handle? | 1 phone, 1 address, 2 sessions |
| pairing_clients | is the prompt the daemon's question, does the first answer count, is a refresh harmless, do dead codes go? | 2 phones, 2 TUIs, 1 `pair`, 2 tokens, TTL 1, 1 queued signal |
| device_list | do the rows end up true, does a key hit the row its human saw, is a prefix never guessed at? | 2 devices, equal and different names, 1 key typed ahead |
| first_contact | is the identity stable across crashes, does the phone find the daemon again, is decoding right? | 2 processes, 2 keypairs, 1 address, 2 ephemeral ports |
| connection | message order, dead-peer detection, no false timeout; does the handshake end? | K = 2, Delay = 2, 1 clip on its way, 10 dark ticks |
| framing | what can garble a frame, does a write end, is a lost place noticed? | header 2, body 1, window 3 units, lengths 0 or 2, ping given up after 1 tick, 1 waiting clip |
| framing_cut (violated) | does a frame of the same build ever exceed the limit? | the same |
| clipboard | echo, agreement of phones and desktop | 2 phones, 2 texts, 3 copies, 2 sends |
| phone | token, one connection per dialer, slot, status, perpetual dialing | 2 `pair()` calls, 3 connections per process, attempt saturates at 2, 3 events of lag |
| phone_token_lost (violated) | does the token last until a connection exists? | 1 `pair()`, 2 connections |

Why the bounds are enough for these questions. The races in Daemon are between two
sessions (a third adds only more of the same to the channel), of one phone or of two,
at one address or at two; between two phones at one prompt; or between two tokens in one
slot. One tick separates before from after a deadline. They are divided over two runs:
daemon_sessions has the sessions and no token, so that its phones are those that were
paired when it started, one of which may be unpaired; daemon_pairing has the tokens and the
prompt, with one session at a time. There the session that closes behind a prompt is the
one being asked about; another phone's `Closed` waits in the same channel for the same
loop, and is only a longer queue to `ClosedIsHandled`. Both runs have saves that succeed;
the theorems, except `DiskCorrect`, hold for failing ones too, and all of them for any
combination of the above. Two TUIs are an answering one and a late one, and a second token
is the one that replaces the first. In DeviceList two rows are enough for an order and for
an ambiguous prefix. In FirstContact two processes race, and two keypairs tell the first
from its usurper. In Connection two ticks per interval separate early from late and the
dark period is longer than the limit that is checked. The bounds are tight: with
Delay = 3, where a round trip takes 3 K, `NoFalseTimeout` fails, and with `4 * K` in
place of `4 * K + 1`, `DeadPeerNoticed` does. In Framing a frame has a place inside its
header and one between header and body at which a read can be dropped, lengths may be
shorter and longer than the truth, and the window takes exactly one message, so that it
is full as soon as one is written; `CHECK_DEADLOCK FALSE` because both tasks may have ended. In Phone three
connections let one dialer lose a connection, reconnect and lose it again beside a second
dialer's one. In Clipboard two texts tell a clip from the one before, three copies pile up
behind one read and return to an earlier text, and two sends let a second clip meet the
first. Names such as `MaxSessions`, `MaxTokens`, `MaxInbox`, `MaxTyped`, `MaxIds`,
`MaxClips`, `Horizon`, `MaxCommands`, `Claims`, `MaxPairs`, `MaxConns`, `MaxAttempt`,
`MaxEvents`, `MaxCopies` and `MaxSends` mark every bound; `MaxAttempt` also stands for the
counter's saturation at its width.

The properties worth a comment:

- `HandlesAreCurrent`, `FlagWillClear`: a late `Closed`, a second session and an address
  that is reused may leave no map entry behind for a session that is over, nor under a
  device that its handshake did not name. They hold because the channel keeps each
  session's events in order and the maps agree on who dials from where; for a phone whose
  address another phone has taken over meanwhile they need not (`passed`).
- `DiskFollowsState`: whoever changed the state still has its save to do; two writers
  and one file.
- `ClosedIsHandled`: the prompt's timeout is all that unblocks the event loop.
- `PromptIsCurrent`: a newer question replaces an older prompt, or is the last in the
  queue of a TUI that is busy. An old prompt may still be answered: the answer then has no
  effect (`Confirm` about a phone that is not waited for).
- `RefreshIsHarmless`: the TUI's clock starts after the daemon's, so a code it replaces
  has expired. It is about the TUI's own code: the daemon has one slot for all, so a
  refresh also discards the code another client may just have fetched, which
  `tui.rs:131-137` does not count with; with two tokens that does not come about in the
  run. `DeadCodeGoes` is the other direction, with the prompt that holds it up; a TUI that
  finds no token left, a bound of the model, may keep its code.
- `NoGuess` is stated for devices listed all the while by one run of the daemon: rows of a
  daemon that restarts meanwhile lose their ids, and an ambiguous prefix then matches one
  device. `UnpairsTheRow` likewise excepts rows without an id and devices of equal names,
  whose order is a HashMap's: with those the row under the cursor can change although
  the rows on the screen are the same. It is about keys typed at the rows, not at a code or
  a prompt that covered them, and it still holds when a code has come up before the key is
  handled. It also excepts a key typed while an arrow was
  still waiting: the human then saw a cursor that was about to move. With two keys typed
  ahead (`MaxTyped = 2`) TLC shows that without this exception the property fails.
- `IdentityIsStable`, `StillReachable` except two first starts that race (`raced`): both
  find no identity, both write one, and the files end up with the key of either. A crash
  here is the death of the process, not the loss of what the system had not yet written.
  `StillReachable` is about restarts with the configuration and network the code was shown
  under: after `Edit` or `Roam` it says nothing until the next scan, and so does not cover
  what a typo in config.toml or a new address does to a phone that was paired before.
- `OnlyCutsGarble`, `LostPlaceIsNoticed`: a dropped read can garble what follows, and the
  reader then fails, finds its place again, misses a pong, or, inside the handshake, is
  ended by the idle timeout.
- `WritesEnd`: two tasks that write into full windows read nothing and are ended by QUIC's
  idle timeout alone.
- `SlotIsLive`, `StatusIsTrue`: stated for a first `pair()` that is left alone, once
  every event has been forwarded. Beyond that they do not hold.
- `PhonesAgree`, `SelectionIsShared`: the end of it, when nothing is under way. When clips
  have crossed the desktop still ends with the clip that went out last, unless the daemon
  is `behind`, but a phone need not (TLC violates `PhonesAgree` without `~crossed`): the order of two clips at the hash
  need not be the order in which they reach it.

## What the code does not keep

Three runs end in a counterexample to a line of the repository; `PROJECT.json` quotes
the lines.

1. *Stale Closed* (`orchestrator.rs:81`): the end of a phone's old session removes the
   new session's handle; the phone is connected and paired and gets no clipboards.
2. *Token lost* (`reconnect.rs:59`): the first attempt takes the token even if it fails.
3. *Cut read* (`session.rs:238`): a read dropped halfway makes part of a message pass for
   a length beyond the limit, and the connection is closed.

Seven more statements are kept as definitions next to the others; adding one to a
configuration of its module refutes it.

4. *Unpair keeps the handle* (`dbus.rs:83`, `Daemon!OnlyPairedHaveHandles`): the
   unpaired phone's open session stays in `connected_devices`.
5. *Ghost object* (`orchestrator.rs:97`, `Daemon!OneObjectPerPairedDevice`): an Unpair
   between the pairing check and `mark_connected` leaves a Device1 object for an unpaired
   phone.
6. *Silent drop* (`core.rs:229`, `Phone!SendErrsWhenDead`): after a cancelled `pair()`,
   the slot can keep the handle of a dead connection, and sending reports success.
7. *Echo* (`clipboard.rs:150`, `Clipboard!NeverSentBack`): of two clips sent in a row the
   first can come back to its sender, because the watcher compares it when `last_hash` is
   already the second.
8. *Passed address, handle* (`orchestrator.rs:81`, `Daemon!EveryHandleIsCurrent`): a phone
   takes over an address before the end of another one's session there has been handled. That `Closed` then
   looks up the device by the address, finds the new phone and removes its handle; the
   old phone's stays, for a session that is over.
9. *Passed address, flag* (`orchestrator.rs:79`, `Daemon!EveryFlagWillClear`): in the same
   way the old phone's `Connected` is never cleared. (Both are refuted in
   daemon_sessions.cfg.)
10. *Unpair under the code* (`tui.rs:281`, `DeviceList!NothingUnderTheCode`): with a pairing
   code over the rows `u` unpairs a row that nobody sees, although the footer's comment
   (`tui.rs:406-407`) says the key means nothing then.

Nor does anything compare the id a handshake claims with the key of its connection, which
`connection.rs:48-52` asks net to do: a phone let in by its own pin, or by the window, and
naming another paired one is filed, and marked connected, as that one. The model has
those handshakes, and the properties are about the names as claimed.

## Fairness

`Daemon!FairSpec`: the orchestrator's task, accepted Unpair and StartPairing calls, and
the clock are run by the tokio runtime; nobody is required to dial, answer a prompt or
close. `Connection!FairSpec`: time passes, and each drive task polls its stream and its
ticker; nothing is assumed of clipboards, of the link, or of closing.
`Phone!FairSpec`: a dialer's await and a forwarder's await end (a connection attempt
succeeds or fails by quinn's timeout, a sleep ends). `DeviceList!FairSpec`: the refresh
interval ticks for ever and its calls return. In these, weak fairness suffices: no task
can be disabled by another for ever.

Two specifications need strong fairness. In `Framing!FairSpec`, a message in full flight
disables the branches of `select!` again and again; tokio picks among those that are ready
at random, so one that is ready infinitely often is taken (`Read`, `PingTick`), whereas
QUIC's progress and its timeout are weakly fair. In
`PairingClients!ClientsFairSpec`, keys and signals hold the loop now and then, and the
refresh tick that finds the code stale comes back every period (`Refresh`); calls return
and time passes under weak fairness, and nobody has to press a key.

## Proofs

`Daemon_proofs` proves, for any sets of phones and addresses, whoever dials from where and
whatever device a handshake names, any bounds and any TTL, from the assumptions
`BoundsAssumption` and `NoneAssumption` in Daemon:

| theorem | statement |
|---|---|
| Invariant | `Spec => [](TypeOK /\ SessionInv /\ TokenInv /\ AgreedInv)` |
| TypeCorrect | `Spec => []TypeOK` |
| HandlesCorrect | `Spec => []HandlesAreCurrent` |
| FlagCorrect | `Spec => []FlagWillClear` |
| SingleUseCorrect | `Spec => []SingleUse` |
| DiskCorrect | `Spec => []DiskFollowsState`, when saves succeed |
| PolicyCorrect | `Spec => PolicySpec`, the refinement of TrustPolicy |
| ServiceCorrect | `Spec => ServiceSpec`, the refinement of PairingService |

None of the properties is inductive alone. `SessionInv` adds what makes the first two
last: sessions have addresses and names; the channel holds events of known
sessions only and nothing after a session's `Closed` (`QueueInOrder`); the session being
served is identified and not buried (`ServesItsSession`); whoever shares an address now is
in `passed` (`PassedIsRight`); and for the phones that are not, the three maps agree
(`MapsAgree`). `TokenInv` adds that a token has prompted nobody before it is shown, and
the one in the slot nobody until it is redeemed. `AgreedInv` says that from the yes to
the state's update that yes is the latest word on the phone being served. `TypeStep`
needs `SessionInv` (a device is looked up through an address), so that the two are
proved together. The lemmas `EventAppended`, `EventTaken` and `EventAt` say what
`Append` and `Tail` do to the channel; `Reported` and `Consumed` use them once for all
the actions that write or read it.

`Connection_proofs` proves, for any keepalive interval, delay and bounds, from
`TimeAssumption` and `ClipAssumption`:

| theorem | statement |
|---|---|
| Invariant | `Spec => []IInv` |
| TypeCorrect | `Spec => []TypeOK` |
| IgnoredCorrect | `Spec => []NothingIgnored` |
| DarkCorrect | `Spec => []DeadPeerNoticed` |
| TimeoutCorrect | `Spec => NoFalseTimeout`, if `2 * Delay < 3 * K` |

`IInv` has five parts besides the types. `LifeInv`: a task starts, runs and ends once, and
measures nothing before it is Ready. `GreetInv`: a channel whose writer has started and
whose reader is not Ready opens with the only handshake in it, and one whose reader is
Ready has none. `AgeInv`: no message is older than `Delay`. `RoundTripInv`: the pending
ping is the only one on its way there, or its pong the only one on its way back, or the
peer has ended; and while the link has always been up the ping is as old as it has been
pending, the pong at most one `Delay` younger. That bounds the wait by two delays, hence
`NoFalseTimeout`. `DarkInv` bounds the time the link has been dark by what the side's own
clocks say, phase by phase: before the baseline tick, between two pings, and with a ping
pending. The lemmas on `Free`, `One` and `Opens` say what appending, taking and ageing do
to such a channel, once for all actions.

`Phone_proofs` proves, for any hosts and bounds, from `BoundsAssumption`:

| theorem | statement |
|---|---|
| Invariant | `Spec => []` of the conjunction below |
| TypeCorrect | `Spec => []TypeOK` |
| TokenCorrect | `Spec => []TokenOnce` |
| OneCorrect | `Spec => []OneAtATime` |
| SlotCorrect | `Spec => []SlotIsLive` |
| StatusCorrect | `Spec => []StatusIsTrue` |

`PairInv`: connections have dialers and are made in order. `TokenInv`: a dialer that
holds its token has presented it to nobody. `LastInv`: only a dialer's last connection can
be alive, and none is while it dials or sleeps. `HandleInv`: the handle stands for the one
call that was not cancelled. `SlotInv`: what the slot and the status *will* be once the
forwarder's channel has been taken to its end is what is the case now; it is stated by the
last event of the relevant kinds in the channel (`LastOf`, `Will`), so that forwarding an
event changes nothing and telling one changes what it says.

`Clipboard_proofs` proves, from `ClipboardAssumption`:

| theorem | statement |
|---|---|
| TypeCorrect | `Spec => []TypeOK` |
| SharedCorrect | `Spec => []SelectionIsShared` |
| NoEchoCorrect | `Spec => []NoEchoUnlessCrossed` |
| AgreeCorrect | `Spec => []PhonesAgree` |

`SharedInv`: unless the daemon is behind, and as long as no notification is left, what the
watcher holds is the selection, and what it has dealt with is `last_hash`; and a watcher
that has not subscribed is idle, so that the clip the handler writes is `last_hash`. `EchoInv`: without crossing, a clip
on its way up or about to be written is alone (`ReceivedAlone`), so that whatever nobody
has copied and the watcher may still come to read is exactly `last_hash`
(`WrittenIsKnown`). `AgreeInv`: besides `ReceivedAlone`, one fan-out at a time
(`FanOutAlone`), and the clip a phone has, or will have at the end of its queue, is
`last_hash` unless a fan-out or the phone's own clip is still under way (`LatestKnown`).

`Framing_proofs` proves, for frames, windows and bounds of any size, from
`FrameAssumption` and `BoundAssumption`:

| theorem | statement |
|---|---|
| Invariant | `Spec => []IInv` |
| TypeCorrect | `Spec => []TypeOK` |
| FramesCorrect | `Spec => []OnlyCutsGarble` |

The proof covers every phase of the machines. `InStep` adds to `OnlyCutsGarble` how far a reader is inside the header or the body, which
is what makes the next unit's place predictable.

`PairingClients_proofs` proves, for any sets of phones and clients, any inbox and any TTL,
from `ServiceAssumption` (PairingService) and `InboxAssumption`:

| theorem | statement |
|---|---|
| Invariance | `ClientsSpec => []IInv` |
| TypesHold | `ClientsSpec => []ClientsTypeOK` |
| PromptBelongs | `ClientsSpec => []PromptIsCurrent` |
| AnswerStays | `ClientsSpec => FirstAnswerCounts` |
| RefreshWaits | `ClientsSpec => RefreshIsHarmless` |
| ClientsAreClients | `ClientsSpec => Spec`, the specification of PairingService |

`PromptIsCurrent` is nearly inductive: it speaks of the *last* question in an inbox, and
`AppendedIsLast` and `LastStays` say that a signal put at the end becomes it and that
taking the front leaves it. `AnswerInv` (an answer is one to the question that is waited
for, and its sender is used up) is what lets only the first answer count. `ScreenInv` (a
code on a screen was shown by the daemon, and its time on the screen is not over before
the token's is) gives `RefreshIsHarmless`. `ClientsAreClients` needs the invariant too:
a step of a client is a step of the service or leaves it alone.

`DeviceList_proofs` proves, for any finite set of devices, any names and any number of keys
typed ahead, from `DevicesAssumption`, `NamingsAssumption`, `TypedAssumption` and
`NoneAssumption`:

| theorem | statement |
|---|---|
| Invariance | `Spec => []IInv` |
| TypesHold | `Spec => []TypeOK` |
| UnpairHitsTheRow | `Spec => UnpairsTheRow` |
| UnpairNeverGuesses | `Spec => NoGuess` |

The type invariant bounds the cursor by the number of devices, and so needs `RowsInv`: the
rows are sorted, and no id is in two of them. That sorted neighbours are a sorted list
(`NeighboursSuffice`), that a set of devices with distinct names has one sorted listing
(`OneOrder`), and that its listings have one length (`OneLength`) is shown by induction over
positions; the screen is such a listing (`ScreenIsListing`), so that the cursor's place
determines its device. `KeyInv` keeps, for a key typed at drawn rows with no arrow before
it, that *every* listing of what its human saw has the seen device at the present cursor: it survives a
`Refreshed` because it does not mention the rows. `StayedInv` and `PickedInv` say that a
device that was listed all the while has answered with its id, or is still to be asked,
and that what is picked was picked from all the answers.

`FirstContact_proofs` proves, for any number of processes, keypairs, addresses and ports,
from `IdsAssumption` and `EphemeralAssumption`:

| theorem | statement |
|---|---|
| Invariance | `Spec => []IInv` |
| TypesHold | `Spec => []TypeOK` |
| IdentityStays | `Spec => []IdentityIsStable` |
| PhoneFindsDaemon | `Spec => []StillReachable` |
| CodesAreRead | `Spec => []DecodeIsRight` |

`StageInv` says what each stage of a start takes for granted. `OnceInv` says that, unless
two first starts ran into each other, one process at a time saves, only until there is a
certificate, and that from then on the key on disk is everybody's identity. `PhoneInv`
states what the phone has in terms that no crash changes: the port the configuration
names and the first identity. `CodesAreRead` rests on `RightIfWellFormed`, which holds for
*every* list of fields, of any length and with any values: `FieldByField` turns the fold
of the library into a sequence of steps (its recursive function exists, `FoldsExist`),
`NextSight` shows that each step of `decode_qr_uri`'s loop keeps what has been seen in
agreement with the meaning of the fields so far, and `CodesWellFormed` that the scanned
codes are such lists. `OwnCode` gives what the phone makes of the daemon's own code.

The library's induction theorems take an operator as a parameter, which the provers cannot
instantiate. `DeviceList_proofs` and `FirstContact_proofs` therefore begin with induction
for sets: `Least` (a set of numbers that is not empty has a least one, from the
well-foundedness of `<`) and `Induction` (a set that has 0 and all successors has all).

Only model-checked: liveness under fairness (`ClosedIsHandled`, `HandshakeCompletes`,
`KeepsDialing`, `WritesEnd`, `LostPlaceIsNoticed`, `DeadCodeGoes`, `RowsConverge`), which
is out of the prover's reach, as is ENABLED. Every invariant and every action property
that a passing run checks is a theorem.

## Not modelled

The TLS and QUIC libraries (an ordered stream that may go dark, an idle timeout and the
verifier's decision stand for them); the postcard encoding, which is third-party code and
whose round trip is its promise; key formats and the hex of ids and tokens, which are
data to every property here; the length of a backoff delay (a sleep ends). Android's
screens, service, preferences and notifications, the GNOME extension's life cycle, the
drawing of the TUI and the build are I/O, layout or platform plumbing. Outside main's
start, the process's signals and logging are left out.

What could still be added: peers.json as state of its own for two forwarders that save at
once; and the lifecycle of MainActivity's status listener.
