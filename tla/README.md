# Aether-gate in TLA+

Aether-gate makes a real radio look like a FlexRadio to the AetherSDR client (AE). It announces
itself on UDP, takes the client's text commands over TCP, streams panadapter, meter and audio
packets, and drives the radio through an *adapter*: an Icom IC-9700 over its LAN protocol and a
USB CI-V cable, an SDR through SoapySDR or HPSDR, a Kenwood or Yaesu through rigctld, an IC-7300
over serial. It is one Python process of many threads with few locks, on UDP links that lose and
reorder, with a transmitter at the end. These modules are about that part of it: which orders of
steps are possible, and what holds in all of them.

Everything is translated from the source in `src/`. A comment or a document of the repository is
quoted only where a run shows that the code does something else.

## 1. Inventory

Paths are below `src/aether_gate/`. *Hard* names what makes the part hard to test, *right* the
properties that make it correct.

### 1.1 Transmit guard (`adapters/icom9700.py`, called from `core/engine.py`)

* State: `_tx_armed` (the latch), `_tx_keyed`, `_tx_watchdog`, `_tx_lock`, `_civ` and its cached
  `freq_hz` and `_tune_target`, `_want_reconnect`; in the engine `conn`, `tx_mox`, `tx_tune`,
  `dax_tx_stream_id`.
* Operations: `arm_tx` and `disarm_tx` when a client comes and goes, `key_tx` and `unkey_tx` for
  `xmit` and `transmit set`, `_tx_timeout` of the watchdog timer, the tuner thread, `_close_lan`
  and `reconnect` of the reconnect thread.
* Interaction: the session thread, timer threads, the tuner, the CI-V reader and the reconnect
  thread share the adapter; only `key_tx` and `unkey_tx` take `_tx_lock`.
* Hard: `disarm_tx` unkeys and latches in two steps; `_civ` is replaced under no lock; timers fire
  while the lock is held; the cached frequency lags the rig.
* Right: what the gate believes is on the wire is on the wire; every key-down ends; a lost client
  leaves a silent, latched transmitter; RF only on a TX band.

### 1.2 Icom UDP transport (`adapters/icom/udpbase.py`)

* State: the receive window `_rx_seq_buf` and the list `_rx_missing`; the send buffer
  `_tx_seq_buf` and `send_seq`; discovery, ping and idle flags.
* Operations: `_track_rx_seq` on each datagram, `_send_retransmit_request` every 100 ms,
  `_purge_old_entries` on each tracked send, `send_tracked`, the answers to the radio's retransmit
  requests, `stop`.
* Interaction: one object per stream (control, CI-V, audio), each with a reader and a cadence
  thread; any thread may send.
* Hard: 16-bit wrap, loss, duplication and reordering, several lists trimmed by different rules.
* Right: the window has no holes, nothing is lost silently or asked for twice over, requests end.

### 1.3 Icom control session (`adapters/icom/handler.py`)

* State: `authenticated`, `token`, `_tok_request`, `_stream_opened`, `stream_ready`,
  `radio_disconnected`, `_fail`.
* Operations: discovery, login, token confirmation and renewal, stream request, status, stop.
* Hard: repeated and reordered answers, a radio that ends the session, a re-login on a session that
  already has a token.
* Right: a session handed out is a live one or known to be dead; discovery and re-login end.

### 1.4 Icom CI-V data stream (`adapters/icom/civ_transport.py`, `_Ic9700Stream` in `icom9700.py`)

* State: `_start_civ_on`, `_watchdog_alerted`, the time of the last data, `freq_hz`.
* Operations: OPEN when the handshake ends, the 100 ms retry, the stall watchdog, the health gate
  of `_open`, CLOSE and 0x05 in `stop`.
* Hard: a handshake datagram that nobody repeats, stalls while the retry is armed, a teardown
  between any two steps.
* Right: the bring-up ends, every stall is noticed and recovered from.

### 1.5 USB CI-V of the IC-9700 (`adapters/icom/usbciv.py`)

* State: the serial port under `_lock`, the caches `main_freq_hz`, `rx2_freq_hz`, `rx2_present`.
* Operations: the poll loop's `read_main` and `read_rx2`, `tune_main`, `write_rx2`,
  `set_main_mode`; the last read and both RX2 operations swap MAIN and SUB with a toggle.
* Hard: the toggle is relative, the radio may miss it, and its verification trusts reads and caches
  that other threads write.
* Right: MAIN is selected again after every transaction; RX2's tunes never move MAIN; RX2's display
  shows RX2; a transaction ends.

### 1.6 Icom audio (`adapters/icom/audio.py`, engine transmit ring)

* State: the receive ring, the engine's transmit ring, the drain thread, `_send_audio_seq`.
* Operations: handshake, receive, `send_audio`, drain while keyed and for a grace after unkey,
  silence watchdog (it only prints).
* Hard: two drain threads after a quick re-key, one of them in its grace. Right: audio in order,
  none of an old transmission in a new one, a bounded ring.

### 1.7 Mode and SET menu over the LAN (`adapters/icom9700.py`)

* State: the cached `mode` of the CI-V stream, the client's own name for it (`_ae_mode_echo`,
  `_ae_mode_base`), `_menu_replies` under `_menu_lock`, the FA counter.
* Operations: `set_mode`, the poll of `read_meters`, `_dispatch`; `read_menu`, `write_menu`,
  `_ensure_lan_mod_ready` in the connect, `/settings` of the panel.
* Hard: an optimistic store beside the reader's, replies keyed by the item alone. Right: the client
  ends up shown the mode the radio is in, under the name it uses; a menu read is of now.

### 1.8 Engine (`core/engine.py`)

* State: `conn` and the session's slices, pans, streams, meters, `streaming`, `vita_dest`,
  `audio_stop`, CWX state, the control panel.
* Operations: `serve`, `handle` and `on_line` (some forty commands), `stream_loop`, `audio_loop`,
  `prime_loop`, `discovery_loop`, the CWX sender, the panel's HTTP server.
* Interaction: calls the adapter from the session thread, reads it from the loops; the panel's
  thread and the loops call back into status and span code.
* Hard: unlocked check-then-set of `streaming` after two status lines, from three threads; loops
  that outlive their client, panadapters shared
  by slices, exceptions that kill a thread and leave its flag set, a radio with two receivers that
  the operator turns while the client tunes. Right: audio goes to the client that asked for it,
  loops end with their client, a second client is turned away and not left hanging, the active slice
  is the one that is tuned, the slices follow the radio.

### 1.9 SDR adapters (`adapters/soapy.py`, `adapters/hpsdr/`)

* State: one-slot mailboxes (`_retune_to`, `_rate_to`, `_gain_to`, ...), `device_lost`, the error
  counters and back-off, the audio queue, the sample buffer.
* Operations: the reader thread's loop (mailboxes, recovery, read), the engine's `retune`,
  `set_samp_rate`, `get_iq`, `get_audio`; in HPSDR a command thread and a reader.
* Hard: mailboxes cleared after use, a rate change that takes seconds, recovery against giving up.
  Right: the newest request is the one applied, a device that comes back is used again, the queue is
  bounded.

### 1.10 Serial and rigctld rigs (`adapters/icom7300.py`, `adapters/kenwood/`, `adapters/yaesu/`, `adapters/hamlib/`)

* State: target mailboxes, the frame list and its condition variable, the rigctld socket.
* Hard: replies are matched to requests by shape or by order; time-outs leave a reply behind; a
  broken socket repeats a set. Right: an answer belongs to its question, the newest target wins.

### 1.11 Supervisor, updater, command line (`setup.py`, `updater.py`, `update_check.py`, `__main__.py`)

* State: the child process under `_lock`, `_update_busy` under `_update_lock`, sessions, the
  installed tree and its backup, the shutdown timer.
* Hard: start against update, a crash between two renames, signals during `open()` and `close()`.
  Right: no gate runs while its code is swapped, there is always a tree that works or a backup to
  return to, the process always exits.

### 1.12 The rest

`adapters/sim.py`, `core/fft.py`, `dossiers.py`, the radio tables, `adapters/base.py` and the
registry have no concurrent state. `adapters/icom/dev/`, `attic/`, `packaging/` and `deploy/` are
not part of the running gate.

## 2. Modules

| Module | Models | Threads |
| --- | --- | --- |
| `TxGuard` | 1.1 | session, timers, tuner, reader and rig, reconnect |
| `TxPromise` | what the transmit guard promises, in three variables | |
| `TxGuardProofs` | theorems about `TxGuard`; its refinement of `TxPromise` | |
| `MCTxGuard` | two bands and two timers for the model checker | |
| `RxSeqTrack` | the receive window of 1.2 | reader, cadence, senders |
| `TxSeqBuf` | the sending side of 1.2 | senders, cadence, reader, the thread in `stop()` |
| `IcomAuth` | 1.3 | reader, cadence, the thread in `connect()` and `stop()` |
| `IcomSession` | `RxSeqTrack` and `IcomAuth` composed | |
| `IcomSessionProofs` | theorems about the two | |
| `CivStream` | 1.4 | reader, cadence, the thread in `_open` and `_close_lan` |
| `LanAudio`, `TxAudio` | 1.6: session and receive ring; transmit ring and drainers | reader, cadence, audio; prime loop, drainers, whoever keys |
| `IcomLan` | `CivStream`, `LanAudio`, `TxAudio`, `TxSeqBuf` composed | |
| `IcomLanProofs` | theorems about the composition | |
| `UsbSwap` | 1.5 | poller, one thread per tune, engine |
| `ModeEcho`, `MenuSettings` | 1.7 | session, stream loop, reader; connect, panel, reader |
| `IcomControl` | `UsbSwap`, `ModeEcho`, `MenuSettings` composed | |
| `IcomControlProofs` | theorems about `UsbSwap` and the composition | |
| `GateSession` | 1.8: connections and the threads they start | session, stream loops, audio, panel |
| `Receivers` | 1.8: slices, panadapters, receivers | session, stream loop, tuner, USB poller |
| `GateSessionProofs`, `ReceiversProofs` | theorems about these two | |
| `SoapyReader`, `HpsdrReader` | 1.9 | reader or command thread, session, stream loop, audio, panel |
| `Ic7300Serial`, `RigctldRig` | 1.10 | poller and reader, panel; worker |
| `Adapters` | the four modules above composed | |
| `AdaptersProofs` | theorems about the composition | |
| `GateManager` | 1.11 | one per HTTP request, the gate's main thread and watchdog |
| `UpdatePromise` | what an update promises, in two variables | |
| `GateManagerProofs` | theorems about `GateManager`; its refinement of `UpdatePromise` | |

An action stands for a stretch of code that no other thread can cut in two in a way that matters: a
whole handler if it holds the lock throughout, and otherwise one action per access of the shared
state. Definitions named `...Bug` are plausible mistakes in the definition that follows them; no
specification uses them, and each is a change that one property notices.

`IcomSession`, `IcomLan`, `IcomControl` and `Adapters` compose modules whose code shares no variable that matters
to any of them, in one specification: `part` or `adapter` is chosen in the initial state and the
others stay where they are. (For `Adapters` that is what `--adapter` does.) The composition adds the
fairness; threads of different parts with the same role share one condition, which says the same as
one each, since only one part ever moves.

### 2.1 TxGuard

A frequency is its band. `key_tx` is three actions because everything but the other users of
`_tx_lock` may run in between: the guards (`KeyCheck`), the PTT command (`KeyPtt`), the watchdog
(`KeyWatch`); the lock is held from the first to the last. Where `_civ` has become None in the
meantime the action is `KeyRaises`, the exception that leaves the with-block. `unkey_tx` holds the
lock throughout and is one step of whoever calls it: `CmdUnkey`, `DropUnkey`, `TimerUnkey`,
`RecUnkey`. A timer is waiting (`armed`) or past `cancel()` (`fired`) and about to take the lock.
`disarm_tx` is two actions, `DropUnkey` and `DropLatch` (for the reconnect thread `RecUnkey` and
`RecLatch`). `ptt` is the last PTT command put on an open socket. After a login fails,
`reconnect` goes through the teardown again, up to `MaxAttempts` times.

The reconnect thread outlives its client: `StartReconnect` needs one, the steps after it do not, and
the next client may connect in the middle of them.

The cached frequency has the rig behind two wires. `sent` holds the tunes on their way to it, which
it takes, refuses or never sees (`RigTakes`); `told` holds its answers and broadcasts on their way
back, which come in any order or not at all (`FreqReply`). `_try_freq` calls a tune accepted when no
FA was counted in 0.25 s, and the count is shared by all commands: `TunerDone` stores the frequency,
or not, whatever the rig has done. `read` is a history variable: the cache holds an answer that the
rig gave with no tune on its way, and nothing has been sent or turned since.

### 2.2 RxSeqTrack and TxSeqBuf

The radio numbers its packets; the network hands over the newest one or one of the `Late` before it,
any number of times, or never. `Track` is `_track_rx_seq` by cases: seed, reset, gap, next, known.
An entry carries its age in cadence ticks where the code has a time stamp. `Purge` may run at any
moment: every tracked send calls it. `heard` and `gaveUp` are history variables, of the numbers in
the window only.

In `TxSeqBuf` a sender stamps and stores a packet under the lock (`Stamp`) and writes it outside
(`WriteOut`); the reader looks a packet up under the lock (`LookUp`) and writes it outside
(`Resend`). A packet is its number and its sender: the check is whether one number can come to name
two packets.

### 2.3 CivStream, LanAudio, TxAudio

Each datagram of the gate arrives or not (`arrives`). The CI-V watchdog reads the clock (`Watchdog`)
and acts on what it read (`WatchdogArm`), with the reader free to accept data in between. `_open`
re-fires the bring-up at most `BringUpTries` times and then tears the session down.

A chunk of audio is known by its age, the number of chunks that came into the ring after it, which
makes order and staleness visible without numbering every chunk. `TxAudio` has one drainer per over
(`_tx_audio_loop`) with its own stop event, grace and chunk in hand; `_stop_tx_audio` sets the event
and forgets the thread without joining it, so that a quick re-key has two of them on one ring.
`TxAudio` lets anything key that has a client; when that is allowed is `TxGuard`'s subject.

### 2.4 IcomAuth

`sent` and `got` are the sets of datagrams in flight, so that every order of delivery is covered and
one that is never taken is lost. Logins travel on a tracked stream and reach the radio in order. A
login is its number: `tokRequest` is drawn anew for each, and the radio's token for login *n* is *n*.
The radio is external: what it grants, rejects or ends is modelled from the answers the handler
distinguishes.

### 2.5 UsbSwap, ModeEcho, MenuSettings

`phase` says where the transaction stands that holds the serial lock: before the swap (`out`), at
RX2 (`there`), on the way back (`back`). `left` counts the tries of `_swap_until`. The radio may
miss a command and leave a read unanswered, within bounds. `retune` and `set_sub_freq_hz` write the
caches at once and leave a thread behind, one of `mainJobs` or `subJobs`.

In `ModeEcho` a mode request of the client is four steps (`AskMode`, `AskBase`, `AskSend`,
`AskNote`), because the echo, its base, the command and the optimistic cache are four stores with the
reader in between. In `MenuSettings` a read holds `_menu_lock` from the moment it drops the old entry
to the answer or the time-out; a write takes no lock.

### 2.6 GateSession and Receivers

A client is the number of its connection attempt. `emit_pan_status` is three steps of whichever
thread calls it, session, stream loop or control panel: the look-up of the panadapter with the status
lines (`SessEmit`, `LoopEmits`, `PanelEmits`), the check of `streaming`, and the store that starts a
loop (`SessStart`, `LoopStarts`, `PanelStarts`). The session thread, which does the teardown itself,
has the first two in one. A teardown may come between any two of the others; `late` notes that a
thread has raised the flag for a client that had gone. The last statement of a loop clears the flag
whoever has raised it since (`LoopEnds`), and a loop that is not primed in time leaves it raised
(`LoopGivesUp`).

`Receivers` keeps of a slice its frequency, its panadapter and whether it is active. Both receivers
may be on any frequency, and either slice may be tuned to any. `main` and `sub` are what the caches
of the USB channel say, which is all that `receivers()` looks at: the tuner stores what it was asked
for (`TunerSets`), the poller what it reads (`Turn`: a dial, a change or exchange of bands, a tune
that never reached the radio, a SUB that could not be read). `Drive` is the
routing of `_sync_active_slice` and of SUB's tunes, `SyncRead` and `SyncApply` are the two ends of
`_sync_receivers`, between which anything else may happen, a reconnection included.

### 2.7 Adapters

`SoapyReader`: a mailbox is a variable; the reader takes its content into `inHand` and empties it in
a step of its own, before the setter (`GainClear`) or after it (`TuneDone`, `RateClear`). The stream
delivers fresh samples, the same ones for ever, nothing, or errors (`feed`), and a restart may bring
any of these. Failing and unchanged reads are counted where the code measures time; a read of nothing
is not counted (`ReadNothing`), and a recovery is content with samples of either kind (`Recover`).
`RecoverAt`, `LostAt` and `GiveUpAt` order the thresholds as the code does. `HpsdrReader`: a packet of samples is the frequency at which the board took it, a block the set
of the two it was collected from, so that a block over a retune shows. `Ic7300Serial`: frames carry
no request number; `Request` throws away what others wait for, and `GiveUp` with the answer still on
the wire is a late answer. `RigctldRig`: a reply names no command; after `WorkerTimesOut` the late
reply answers the next one.

### 2.8 GateManager

The steps of `updater.install` are the actions `Fetch` to `Restore` of one request thread; a tree on
disk is its version, `NoTree` or `Torn` (what a failed `rmtree` leaves, or a copy that broke off).
`Place` is `shutil.move`, which copies where it cannot rename: it succeeds, fails and is undone, or
leaves something in the way of the rename back; `hurt` notes that, and the other ways in which a
rollback is left half done. `_lock` is held through a
whole stop (`stopping`), `_update_lock` only around the busy flag (`Admit`). The gate process is where
its main thread is; a wedged driver never returns from a call. `PowerLoss` may come anywhere.

`UpdatePromise` is an update as the owner sees it. Its `inUse` is `GateManager!InUse`: the tree in
place, or, between the first rename and the end of the import, the backup, which is what a failure
would put back. With that the seven steps of `install` are one: the version in use changes at the
moment the import has succeeded. `broken` is `hurt`.

## 3. Runs

| Run | Question | Result |
| --- | --- | --- |
| `guard_live` | Does the guard keep its promises while the radio keeps its session? | holds |
| `guard_kick` | ... and which of them while the radio ends the session at any moment? | holds |
| `guard_teardown` | Does a teardown always leave the rig in RX? | violated |
| `icom_session` | Is the receive window sound under loss, delay, repetition and wrap? Is a session handed out alive, from the newest login, after an ending discovery? | holds |
| `lan_streams` | Are stalls noticed, audio in order and current, numbers unique, requests answered? | holds |
| `icom_control` | Are the receivers, the mode and the menu read and set without mixing them up? | holds |
| `gate_session` | Do loops and audio end with their client, and is nobody left hanging? | holds |
| `gate_receivers` | Do slices and receivers follow one another, each of two in a slice of its own? | holds |
| `gate_receivers_pinned` | ... and does slice 0 show MAIN? | violated |
| `adapters` | Do requests settle, losses come to light, slices end up on the radio? | holds |
| `gate_keeper` | Is there always a tree that works, is an update atomic, does every update and stop end? | holds |
| `gate_swap` | Is no code swapped under a gate that runs? | violated |

### 3.1 The properties

A property that a run checks is a conjunction of named parts where several belong together; each
part has its own comment beside the code it is about.

| Property | Its parts |
| --- | --- |
| `WindowSound` | types, `Contiguous`, `NeverAsksForHeard`, `EmptyHasNoMissing` |
| `IcomAuth!SessionInv` | types, `ReadyHasSession` |
| `LanInv` | types, `LiveDrainerIsKeyed`, `RxCurrent`, `NewestKept`, `OneNumberOnePacket` |
| `TxAudioServed` | `TxInOrder`, `KeyedAudioSent`, `DrainersEnd` |
| `ExchangesEnd` | `BringUpEnds`, `AudioIdLearnt`, `RequestsEnd` |
| `SwapInv`, `SwapSafe` | types, `RestoresMain`; `MainUntouched`, `ReadTellsRx2` |
| `MenuInv`, `ModeFollowed` | types, `ReadIsCurrent`, `LevelRaised`; `ModeSettles`, `AskedModeSticks` |
| `ControlsEnd` | `TransactionsEnd`, `LevelCheckEnds` |
| `GateSession!SessionInv` | types, `AudioReachesItsClient` |
| `StreamsEnd` | `LoopsEndWithoutClient`, `AudioEndsUnheard`, `LostRadioStopsStream` |
| `SlicesInv`, `RadioLeads` | types, `ActiveIsDriven`; `RadioWins`, `SlicesFollow` |
| `AdaptersInv`, `RequestsSettle` | types, `BlocksOfOneRate`; `TuningSettles`, `GainSettles`, `SpanToldTrue` |
| `LossTold` | `FailureReported`, `StuckRetried`, `LostAfterSilence`, `SilenceReported` |
| `RadioFollowed` | `PortComesBack`, `SliceSeesRadio` |
| `ManagerInv` | types, `WorkingKept`, `IdleTreeLoads` |
| `UpdateEndsClean`, `StopsEnd` | `FailedUpdateUndone`, `UpdateAnswers`; `StopEnds`, `ClosingEnds` |
| `KeepsPromise`, `UpdateIsAtomic` | the specifications `TxPromise!Spec` and `UpdatePromise!Spec` |

Several say under which circumstances they hold, because the code does not do better:

* `LoopsEndWithoutClient` excepts the loop that was started by a thread which had announced a
  panadapter before a teardown and raised the flag after it (`late`): the two status lines and the
  test (`engine.py:1721-1750`) span the teardown, and that loop streams for nobody until the next one.
* `BandCheckSoundWhenRead` is what holds of the band check. It reads a cache (`icom9700.py:997`)
  that a tune nobody refused within 0.25 s is stored in, whether or not the rig took it, and that
  an answer older than the rig's last move overwrites. Until the next answer `xmit 1` can pass on
  23 cm, which `README.md:47` says is refused.
* `GainSettles` excepts a request that comes between the reader's look at the mailbox and its clearing
  (`gainMissed`, `soapy.py:777-779`), and a link that has failed, since a setter that raises takes its
  request with it. `TuningSettles` asks for the fairness of the audio thread: a tune that the mailbox's
  clearing swallowed is asked for again by `get_audio` alone, so that without an audio stream it is lost.
* `FailureReported` and `StuckRetried` are about reads that fail and blocks that repeat. A stream that
  goes mute (reads of 0 samples, the `_MuteSdr` of `test_soapy_recovery.py:97-101`) is neither
  reported nor restarted, and a restart is called good on samples that never change (`soapy.py:408-416`).
* `IdleTreeLoads`, `FailedUpdateUndone` and `UpdateIsAtomic` except what is left half done (`hurt`): a
  loss of power in the middle of a swap, a move that falls back to a copy and breaks off, a release
  that cannot be removed, a rename back that fails. Nothing puts the backup back then
  (`updater.py:243-246, 264, 278`). `WorkingKept` has no exception: the version that worked is on
  the disk.
* `TxInOrder` excepts two drainers that both had audio in hand (`overlap`); `SliceSeesRig` a reply that
  came late; `ReadIsCurrent` a menu read that had timed out.
* `SwapInv` and `SwapSafe` hold under `Calm`: fewer commands missed than there are tries, every read
  answered, MAIN not tuned. Without the last the receivers can stay inverted: `write_rx2` takes the
  band to come back to from a cache that `retune` has already overwritten (`usbciv.py:257`), and four
  toggles from RX2 end on RX2, where the comment at `usbciv.py:179-180` says they never can.
* `SlicesFollow` says that two receivers end up in two slices, not which in which; see
  `gate_receivers_pinned`.

### 3.2 What the violations show

* `guard_teardown`: the reconnect thread's `disarm_tx` has unkeyed and released the lock, AE's
  `xmit 1` passes the guards and keys, the latch falls, `_close_lan` stops the transport and
  `_civ` becomes None. The watchdog unkeys a session that is gone. The comment at
  `icom9700.py:711` promises RX.
* `gate_receivers_pinned`: slice 0 shows MAIN until MAIN is taken to a frequency that SUB's is nearer
  to, or the operator exchanges the two. From then on `_sync_receivers` (`engine.py:2045-2051`) gives
  slice 0 the receiver whose frequency is nearer to it, which is SUB, and keeps doing so, while a tune
  of slice 0 still goes to MAIN. Its docstring says "Slice 0 is pinned to MAIN".
* `gate_swap`: `_update_install` asks `_find_gate()` and keeps nothing of the answer; a gate started
  while the release is downloaded has its package renamed away. `setup.py:558-562` says the update
  refuses while a gate runs.

Other disagreements between code and comments were noticed while modelling. They have no run of
their own:

* `_is_digital_mode` (`icom9700.py:966`) reads `_mode`, which `Icom9700Adapter` never assigns: a bare
  carrier in a digital mode is not refused. `TxGuard` has the guard as it works (`KeyCheck`).
* The CI-V retry sends magic 0x00, the CLOSE (`civ_transport.py:207`), where the header (line 16) and
  the comment beside it describe an OPEN. `CivStream!RetryOpens` is FALSE for that reason:
  `StallNoticed` promises that the retry is armed and nothing about what it achieves.
* A rejected renewal sends a login and leaves `authenticated` set (`handler.py:209`); the reply to it
  is ignored for that reason. Two 0x06 lead to two logins, and a token adopted from the first can be
  paired with the `tokRequest` of the second.
* `stream_loop` gives up on an unprimed client and leaves `streaming` raised (`engine.py:2420`),
  which the comment at line 2714 calls stopping the panadapter permanently.
* `stream remove` does not know the id of a dax_tx stream (`engine.py:1540`).
* The SoapySDR reader's comment (`soapy.py:868-870`) says that plugging a device back in is enough;
  after `_ERR_GIVE_UP` failing reads it stops for good (line 987).
* A drainer sends for at least its grace after `unkey_tx`, whose comment says that no more audio is
  sent (`icom9700.py:1038`).
* The refusal (FA) counter of the CI-V stream is shared by all commands (`icom9700.py:294, 326`): an
  FA of one is taken for a refusal of another, as `MenuSettings!Dispatch` has it.
* After the watchdog has unkeyed, `tx_mox` is still set, and the next `transmit set` of an unrelated
  parameter keys again (`engine.py:1593-1596`; `TransmitSet` of `TxGuard`). Each such key-down is
  watched like any other.
* A packet from before the 16-bit wrap that comes after the window was seeded anew passes the signed
  difference at `udpbase.py:567` and marks a backlog that was never sent; the requests for it end.

### 3.3 Bounds, and why they are enough

* `TxGuard`: one TX band and one other are all that `key_tx` tells apart. Two timers: one that has
  fired and still waits for the lock, and one of the next key-down; a third
  could only be another one that has fired and waits, which does what the first does. `MaxAttempts` 2
  has a first, a repeated and a last attempt. `guard_live` has the radio keep its session, since the
  promises it checks are the ones a lost session breaks (`guard_teardown`), and an operator at the dial.
  `guard_kick` has the radio end it, with the USB channel, on one band: none of its properties depends
  on which.
* `IcomSession`, the window: numbers modulo 10 with a window of 3, two missing packets, delays of
  three packets and outages of four: one more than the window, than the list and than the reset
  distance, so that every case of `Track`, the flush, the trim, the purge and the wrap occur.
* `IcomSession`, the login: two logins (the second from a repeated 0x06 or a rejected renewal), one
  ask, one fault. The state space grows by an order of magnitude with each; a second fault only
  repeats what the first can do to a session that is not yet up again.
* `IcomLan`: `StallTicks` is the code's 4 periods of 500 ms; three re-fired bring-ups stand for the
  code's twelve, which differ from one another in nothing. Rings of two chunks overflow, two drainers
  are one in its grace and one of the new over. `TxSeqBuf` has a buffer that evicts at the second
  packet, four numbers, so that the rollover comes in the middle of everything, and requests of two
  numbers; two senders, one of them the idle keepalive. No thread sleeps while the numbers go once
  around, nor a drainer while the ring is filled anew: bounds of the model, in its guards.
* `IcomControl`: three bands, so that MAIN and RX2 can each move to a third; the code's four tries;
  three missed commands, the most that four tries are to absorb, and one unanswered read. Two changes
  of mode, by the client, the operator or one each, and two accesses of the pages; two commands and
  two replies on the wire, so that one can overtake nothing but be overtaken by a store.
* `GateSession`: two connection attempts give a client, its successor, and one that is refused while
  the other is served; two loops (or one and the audio thread, `MaxThreads`) give one that has been
  stopped and not looked yet and the one of the next client.
* `Receivers`: two frequencies, which either receiver may be on, are enough for one to be nearer to a
  slice than the other; three commands for two slices and an activation, a removal or a tune of one;
  two turns for a SUB that goes and comes, or two receivers that change places (one is enough for
  `gate_receivers_pinned`); the debounce is the code's three readings.
* `Adapters`: SoapySDR has two dials, two rates and two events (requests or faults), the fewest for a
  request that meets another in the mailbox or a fault in the middle of it; the thresholds are as
  small as keeps them apart. HPSDR has one tune and one fault; the serial and the rigctld rig two
  asks and one fault, a late reply or a link that breaks.
* `GateManager`: three versions, one of which does not load; two install requests, four asks (start,
  stop or install) and two faults, so that a failure can meet another or a loss of power. `gate_swap` needs no
  fault.

### 3.4 Fairness, and why the code justifies it

Only threads that exist are fair, and only for steps they take by themselves. A started
`threading.Timer` expires; a thread inside `key_tx`, `disarm_tx` or `reconnect` goes on; one that
waits for `_tx_lock` gets it, since the lock is held for a few statements (weak fairness for the
waiters, strong fairness for `RecUnkey`, which others may overtake again and again). Cadence, reader,
poll, stream and audio loops run for as long as their object does, and time-outs expire. AE, the
operator, the dial, the cable and the radio's disconnects are never fair: they may never act again.
Fair are also a radio whose channel is open (it sends), and the delivery of a datagram that is sent
without end (`Retry(TRUE)`, the mode poll's answer: strong, not each of infinitely many is lost).
`IcomSessionSpec` assumes the cadence thread alone. The audio thread of the engine is fair in no
specification, since it is there for a client with an audio stream only: where `TuningSettles` needs
it, the property says so. No send has to fail: a stream loop gets on with its frames by itself.

Strong fairness is used for four more things. In `UsbSwap` the poller and the tuning threads compete
for the serial lock and get it: the loop releases it between transactions. `RefuseBusy` (the session
thread is busy with commands now and then, and `select` looks at the listen socket first), `LoopFrame`
(a frame announces at most three panadapters before it ends) and `Asking` (a free place on the
modelled wire) are enabled again and again and not continuously. `Resends` says that a send on a TCP
connection whose other end is gone fails sooner or later.

Deadlock is checked in the `TxGuard` runs. The other systems really stop, when the
session is torn down, the requests are used up or the gate has exited, and say
`CHECK_DEADLOCK FALSE`.

## 4. Proofs

Every invariant and every safety property that a passing run checks is also a theorem, for every value
of the constants: any number of timers, drainers, senders, loops, requests, logins and commands, rings
and windows of any size. The assumptions are the named ones beside the constants (`...Assumption`):
sets that are not empty, positive bounds, a "none" value that is none of the others. Two of them say
something about the code: `PurgeAssumption` (a missing packet is asked for 4 times, an entry is purged
after 100 ticks) and the order `RecoverAt <= LostAt <= GiveUpAt` of `SoapyAssumption`.

The proofs have one shape: an inductive invariant, one lemma per action or group of actions, and a
theorem per property that follows from the invariant. What carries each of them:

* `TxGuardProofs`. `GuardInv` holds whatever the radio does: the lock is held exactly while the
  session thread is inside `key_tx`, the latch is lifted only with a client that is not being
  dropped, at most one timer waits and it is `_tx_watchdog`, and none while `key_tx` has not
  reached it. From it follow `OneWatchdogHolds`, `LatchHolds` and `RxOnlyHolds` (an `--rx-only`
  gate never arms, keys or asserts PTT). Under `~RadioMayKick` `QuietInv` strengthens it: the
  reconnect thread never starts and `_civ` is live, so that a keyed rig outside `_tx_lock` has its
  PTT asserted and its timer waiting or fired. `KeyedMatchesWireHolds`, `WatchdogBacksKeyHolds`,
  `LostClientDisarmsHolds` and `ImplementsPromise`, the safety half of the refinement of
  `TxPromise`, follow. The assumption is needed: `guard_teardown` is the counterexample without it.
  `BandCheckSoundHolds` needs no such assumption, nor any on the dial or the USB channel. Its invariant
  `TunedInv` has two parts: an answer on its way that nothing has overtaken says where the rig is
  (`AnswersTrue`), and so does the cache while `read` is set (`CacheTrue`); with a tune on its way
  neither is so. Every step that sends, turns or wrongly believes takes the marks away.
* `IcomSessionProofs`. The theorems are about the specifications of the two parts, whose steps are those
  of `IcomSession`. In the receive window the invariant adds to the properties that what was heard
  lies in the window, that no missing number lies beyond the newest entry, and that no entry at or above
  a missing number is older than the requests made for it (`Young`). `Young` is what makes
  `EmptyHasNoMissing` inductive: by `PurgeAssumption` a missing packet is given up before its entry is
  old enough to be purged. `WindowSoundHolds` follows. `AccountedHolds` takes the invariant before and
  after a step: a number that enters the window was heard or is a gap, and one that leaves the list of
  missing ones while it stays in the window was heard or is noted as given up, in every case of `Track`,
  the trim and the purge included.
* `IcomSessionProofs`, the control session. Until a login is granted, or the radio has ended one,
  there is nothing in the gate or on the way to it that needs a token (`NothingBeforeLogin`), and a
  grant names its login twice (`LoginsNumbered`). The first gives `SessionInvHolds`, the second
  `NewestLoginAdoptedHolds`.
* `IcomLanProofs`. Both audio rings hold chunks of consecutive ages (`Ring`), so that "in order" is a
  matter of lengths: a chunk in hand, sent or heard is at least as old as the ring is long. That audio is
  in one hand, unless the last drainer to take some found another's hand full (`OneHand`), gives
  `TxInOrderHolds`. On the sending side `NewestKept` and `OneNumberOnePacket` are inductive only
  together: the stored packets are the last numbers in a row (`Window`), and so the next number, being
  less than a lap away, is not among them.
* `IcomControlProofs`, the USB channel. The conditions under which the swap is verified are part of
  the properties (`Calm`), not assumptions on the constants, so that the theorems hold for a radio with
  any number of faults, up to the moment it has too many. The invariant counts: in each phase the
  parity of the swap is known from what the reads have shown, and the tries left exceed the misses
  left. The theorems are about `UsbSwap!Spec`; `ControlHasTheSwap` shows that every behaviour of the
  composition is one of that, and `ControlSwapInvHolds` and `ControlSwapSafeHolds` carry them over.
* `IcomControlProofs`, the SET menu. `OneAnswer`: while no read has timed out there is one read on its
  way or one answer, never both, it belongs to who holds `_menu_lock`, and the answer is a value the item
  has had since the lock was taken (`span`). `OnlyUp`: what the connect thread has concluded about the
  LAN MOD Level is true of the radio or of the write on its way. `MenuInvHolds` follows.
* `GateSessionProofs`. `AudioReachesItsClient` is not inductive, since the audio thread copies
  `vita_dest` and a new client comes under a thread that still runs. It becomes so with these: `vita_dest`
  is nobody's or the current client's, nobody is connected while the session thread waits in `accept()`,
  a thread in its loop has somewhere to send to.
* `ReceiversProofs`. `OneActive` (a slice marked active is the one `act` names) and `FreshUnclaimed`
  give `SlicesInvHolds` and `RadioWinsHolds`; `SubNeverMovesMainHolds` goes through the handlers that
  drive a receiver; `GoneCounted` (the debounce count, with the reading in
  hand, never exceeds the readings in a row without SUB) gives `SubDebouncedHolds`. That panadapter
  numbers stay in range is the subtle part, because the stream loop makes panadapters by itself:
  `PansPaid` shows that each is paid for by a command or a turn of the dial.
* `AdaptersProofs`. One invariant per adapter. For SoapySDR: what the reader holds is of the kind its
  stage says, it goes on to retune only with a centre it has seen, and the ring and the queue hold
  blocks of the current rate only (`AdaptersInvHolds`). The late replies and restarts of rigctld are
  counts, and the types need their bounds. `LostAfterSilenceHolds` is the safety part of `LossTold`.
* `GateManagerProofs`. `_update_busy` stands for one request at work (`BusyHasOneOwner`), and per step of
  it is known what lies in place and what is in its backup (`StepSound`), for as long as nothing was
  left half done; that the working version is in the backup needs no such condition. `ManagerInvHolds`
  and `FailedUpdateUndoneHolds` follow. With one more relation, that a release was the newest when it was
  fetched (`Forward`), every step maps to an update, a break or a stutter of `UpdatePromise`:
  `UpdateIsAtomicHolds`.

Two definitions were put differently on the way. `RigctldRig!Wanted` had arms of a CASE that overlap,
of which TLC takes the first and TLA+ any; the arms now exclude one another, as the frequency that is
sent first and the `continue` after it do in the code. `SoapyReader` had not said that there is a
frequency to tune to.

Model-checked only:

* liveness, which needs fairness and ENABLED: `ReconnectEnds`, the liveness half of `KeepsPromise`,
  `MissingResolved`, `DiscoveryGivesUp`, `StallNoticed`, `KeyedAudioSent` and `DrainersEnd`, `ExchangesEnd`,
  `ModeFollowed`, `ControlsEnd`, `StreamsEnd`, `PendingAnswered`, `SlicesFollow`, `RequestsSettle`,
  `HpsdrSpectrumSettles`, `FailureReported`, `StuckRetried`, `SilenceReported`, `RadioFollowed`, `SliceSeesRig`,
  `UpdateAnswers` and `StopsEnd`;
* the three properties that do not hold.

## 5. Plan

The components of the inventory are modelled, except for what section 6 leaves out, and their safety is
proved. What is left, in the order of what it would say about the system:

1. What `guard_kick` leaves open: the strongest promise about the transmitter that survives a session
   the radio ends, as a weaker `TxPromise`, and its proof.
2. The parts of the `Calm` theorems without `Calm`: what is known of the receivers once the radio has
   missed too many commands, or the engine has tuned MAIN in the middle of a transaction.
3. Lemmas that the liveness properties rest on and that are safety: measures that every turn of a loop
   decreases (tries, re-fired bring-ups, requests), so that the fairness is all that TLC adds.

## 6. Not modelled, and why

* Layout of VITA, CI-V and discovery packets, status and page text, meter curves, mode tables, FFT,
  demodulators, AGC and decimation are data: conversions with no interleaving, which the unit tests
  of the repository cover. The radio dossiers are a JSON file that is read.
* The CWX keyer runs in the stream loop under every adapter, sets and clears `tx_mox`, and outlives a
  disconnect; a `cwx clear` between the loop's test and its frame leaves `tx_mox` set in the status
  (`engine.py:2210, 2229, 2500`). It never calls `key_tx`: what a stale `tx_mox` can do is a
  `TransmitSet` of `TxGuard`, which takes any. The test patterns are sample generators that run
  without an adapter.
* Reassembly of scope frames, of the IC-9700 as of the IC-7300, and the ping bookkeeping of
  `udpbase.py` keep state that one thread writes and a display reads; nothing decides by it.
* Settings that a command only stores (filters, gains, antennas), and those that ride on a mailbox in
  the way of one that is modelled (antenna and device settings of SoapySDR, gain of HPSDR, mode,
  filter and span of the IC-7300).
* PIN, sessions, profiles and forms of the Setup page. Two requests that save the profiles share one
  temporary file (`setup.py:81`); their content is configuration that no model reads.
* The development probes, `attic/`, `packaging/` and `deploy/`.

Wall-clock time is abstracted to the order of steps, or to ticks where a bound is counted in them. The
radios, the network, AE and the operator are environments that may do anything their interface allows.
`PROJECT.json` lists every component with its state, every hazard found with the line where it
bites, and the source lines each definition stands for.
