# Verification of the CH32H417 virtual-image firmware

The firmware turns a microSD card into up to three USB drives: a DVD (an `.iso` of the card), the
card itself, and a disk (an `.img` of the card), at SuperSpeed or USB 2.0. This directory holds
TLA+ models of its core logic, TLC configurations that check them on small instances, and proofs
checked by TLAPS. `src/...` are paths of the repository; its own code is in `v5f/` (the application
core), `v3f/` (the boot core, which only starts the other one) and `tools/` (scripts for a PC).

## 1. The system

One main loop, `msc_task` (`v5f/msc_core.c`), serves USB mass storage (Bulk-Only Transport, SCSI)
one command at a time. It calls the SD driver, which is synchronous, and waits by polling. The
interrupt handlers of the two USB device controllers run under it; they talk to it through
`msc_evt_rx_complete`, `msc_evt_tx_complete`, `msc_evt_reset`, `msc_evt_halt_cleared`,
`usb_configured` and `usb_active_xport`. No lock is taken anywhere. Between commands the loop polls
the link supervisor, the console, the keyboard, the display, the card and the mounted image.

| component | state | operations | hard parts | what makes it correct |
|---|---|---|---|---|
| SD streamed write (`sd_sdio.c`) | `sd_stream_t`, `sd_card`, clock step; the data path and the card | begin, run, push, settle, end, abort | a rejected block is noticed while later ones are in flight and the caller's buffers rotate; CMD12 truncates silently; the card may vanish | what is reported written is on the card, nothing else is touched, every call returns |
| WRITE and write-behind (`msc_core.c`) | locals of `cmd_write`, `wb`, buffers armed on USB | receive, map, push, settle; continue, flush | three buffers shared by USB, the loop and the SD retry path; extents; resets | the LUN is a block device |
| READ (`msc_core.c`), streamed read (`sd_sdio.c`) | locals of `cmd_read`, `sd_stream_t` | begin, push, end, abort; queue to USB | a chunk is read again from its middle; a run ends inside a chunk; CMD12 may be lost | the data sent is the data of the blocks asked for, the residue says what is missing |
| Link supervisor (`usbss_device.c`) | `usb_phase`, `host_present`, `ss_host_known`, `ss_bounced`, timers, cached pin reading | `usb_link_poll`, start, replug; link and bus interrupts | two controllers on one PHY; decisions from stale flags; a host that reboots, flaps or leaves | one controller at a time, the right one for the host, never stuck |
| USB transports (`usbss_msc.c`, `usbhs_msc.c`, `usb_transport.c`) | two-deep OUT and IN queues, halts | arm, tx, stall, clear halt, reset | interrupts against the main loop | buffers complete once, in order, in the session they were given to |
| BOT and SCSI (`msc_core.c`) | sense, halts, `reset_seq`, `tx_outstanding`, `rx_done` | CBW, data phase, CSW | resets at any point; counters shared without a lock | host and device stay in step |
| Media and housekeeping (`msc_core.c`) | `luns[]`, `ejected_by_host`, `pending_remount`, `replug_wanted` | `media_poll`, eject, load, watchdog, card retry | what the host has been told against what is there | no medium is served that was not announced |
| Card initialisation (`sd_sdio.c`) | `sd_card`, `sd_cfg`, the pins, the learned divider | identification, voltage switch, clock ladder, single transfers | a step that fails half way; a card that did what its lost answer said | driver, pins and card agree on voltage and speed; a card ends up in use |
| Image store (`image_store.c`) | image list, `img_cur`, extents, table cache, saved choice, deferred index | scan, mount, key cycle, deferred mount, map | a list rebuilt between a choice and its use; four container formats over fragments | the mounted image is the chosen one; mapping is exact |
| Console, boot key (`console.c`) | `pending`, debounce | feed, run | defers to idle | one action per press |
| Keyboard host (`usbfs_host.c`) | `dev`, back-off | attach, enumerate, poll, detach | the device leaves or is exchanged at any transfer; toggles | what is plugged in is driven, what fails is left alone, no key press is lost |
| Display, LCD, LEDs, time base, descriptors, start-up, boot core, PC tools, FatFs and vendor library | - | - | output, constants, straight-line set-up or third-party | not modelled |

## 2. The modules

```
SdWriteStream  <- SdWriteStreamProofs            BlockDevice   (what a LUN promises)
      ^               ^                               ^
      |  EXTENDS      |  EXTENDS                      |  INSTANCE (refinement)
   MscWrite  <- MscWriteProofs                        |
      +-----------------------------------------------+

ImageMap   SdReadStream                               LinkSupervisor <- LinkSupervisorProofs
      ^     ^                                         SdInit         <- SdInitProofs
      +--+--+  EXTENDS                                MscTransport   <- MscTransportProofs
      MscRead  <- MscReadProofs                       UsbFsHost      <- UsbFsHostProofs
                                                      ImageStore  <--EXTENDS--  MscMedia <- MscMediaProofs

MCSdWriteStream, MCMscWrite, MCMscRead, MCMscMedia, MCSdInit, MCUsbFsHost: instances for TLC
```

**SdWriteStream** models `sd_stream_begin`, `_run`, `_push`, `_settle`, `_end` and `_abort` for
writes. `st` is `sd_stream_t` field by field. `call` is the program counter of the call in
progress; every wait of the code for the hardware is a place where the data path and the card take
steps. `DataPath` is the chip's data path with the card behind it: it may accept the next block,
reject it, or time out. A failure gives the driver only the byte count the real one reads from
DCOUNT; `Half` keeps as much of its resolution as tells "nothing of the next block was sent" from
"part of it" and "all of it". The card may be pulled, ignore CMD12, or open a write whose response
was lost. `Refill` is the owner of the buffers, who may overwrite any but the one pushed last:
exactly what the header allows. `want`, `handed` and `owned` are history: what the caller meant for
each offset, how much was accepted, and whether the caller thinks the stream is open.

**MscWrite** extends it with `cmd_write`: three buffers, at most two armed on USB, pieces cut at
the extents of an image, one buffer held back while the card may ask for it again, and `wb`, the
stream a finished command leaves open. Every step of the stream is a step here (`SdSteps`), except
`Refill`: now the host's data overwrites the buffers. The host may send a short packet or reset the
device while data is awaited.

**BlockDevice** is the abstract promise: while a WRITE is pending its sectors may change to the
new contents in any order, GOOD comes when all have, and nothing else ever changes.

**LinkSupervisor** models `usb_link_poll` (one action per branch), `usb_device_start` and
`usb_device_replug`, and the interrupt handlers that change the session: link training, hot and warm
reset, USB bus reset, SET_CONFIGURATION of either controller. `age` holds the time since each
timestamp the code took. The check for an enumeration and the decision that follows are two steps,
`CheckWait` and the others, for interrupts occur between them. `loop` tells whether the main loop is
polling or inside a command, where it does not poll.

**MscTransport** models the command loop of `msc_task` against the queues of the controller and a
host. A program counter per place of the main loop (`top`, `cbw`, `take`, `exec`, `r_*` for READ,
`w_*` for WRITE, `zlp`, `drop`, `stall`, `status`); what a wait waits for is tested in one step and a
moved `reset_seq` in the next; a shared counter is loaded in one step and stored in another, so that
interrupts come between (`RxLoad`/`RxStore`, `Load`/`TxStore`). The host sends commands, data and
takes packets; what it takes is compared, at that moment, with what it waits for. `EvtReset` is
`msc_evt_reset` with what the callers (bus reset, SET_CONFIGURATION, BOT reset) do to the queues.
The card is a choice, chunk by chunk: `SdWriteStream` and `MscWrite` are about that side. `torn` and
`lost` are history: a reset hit the loop inside a command, a completion was counted between load
and store.

**ImageStore** holds the functions of `image_store.c` that choose an image, as operators from state
to state: scan, mount by index and by name, unmount, remount the last one, the automatic mount, the
saved choice, the key cycle with its deferred mount. An image is its name; the list is that of the
card it was read from, and empty after a failed read. `SaveChoice` has the three ways out of
`save_choice` that save nothing: the record stays as it was (`kept`: shortened on the host, or the
write fails) or is not there (`removed`: the next automatic mount makes one that says "none").

**MscMedia** puts them under the core: `media_poll`, `lun_changed`, `swap_watchdog`,
`sd_housekeeping`, `sd_try_init`, `msc_evt_reset`, and of the commands those that tell the host about a
medium or change one. A pass of the idle loop (an action of the console or key, then housekeeping) is
a step, and so is a command; the user pulls and inserts cards, the bus resets, the host
configures the device between them, or starts the session of a configured device over
(`SessionReset`: a Bulk-Only reset, or SET_CONFIGURATION once more), as often as it likes. `hist` is what the host has been told: `known` the medium of each LUN,
`cap` the one whose capacity it read last, `since` how long it has gone without looking at a changed LUN,
`out` whether it ejected the card and what has happened since (`yes`: nothing that ends it; `clock`: the same,
but the clock of an earlier console L was left set; `reset`: its session was reset), `nothing` whether the key
chose nothing and what became of that choice (`saved`, `unsaved`, and `reread` once the card was initialised
again without it). A LUN's
medium is the card, or the card that is there *now* with the image whose extents are read from it; so
an image served off the wrong card is another medium. `coop` is a host that looks at every LUN in
every tick by TEST UNIT READY or GET EVENT STATUS and reads the capacity of what is new.

**ImageMap** is the other half of `image_store.c`: where the sectors of an image lie. `build_extents`
(over the link map FatFs makes), `file_map` with its binary search, `tcache_get`, `detect_format` with
`detect_vhd` and `detect_vmdk`, `mount_entry`, `img_unmount` and `img_map` are translated as they
stand. A card is a directory of files: the clusters of each, and what its header, footer and
table sectors hold (a record per kind of sector; the bytes are not modelled). `Virtual` is the
reference: what each format *promises* virtual sector `v` to be, read from headers, tables and
clusters without extents, runs or cache.

**SdReadStream** is `sd_stream_begin`, `_push`, `_end` and `_abort` for reads with
`sd_stream_recover`; the card sends, is stuck after a lost CMD12, or is gone.

**MscRead** extends both with `cmd_read`: the chunk loop over three buffers, `lun_map`, zero runs,
runs of the card, the two chunks that may be on their way, the failure path with its residue, and a
reset at any wait. The host compares nothing: `got` is what it was sent, and `ReadTruly` compares it
with `Virtual`. Between commands images are mounted and unmounted and cards exchanged, with table
sectors that cannot be read just then, so that what the table cache keeps across them is seen.

**SdInit** models `sd_init` with `sd_init_once` step by step: identification at either voltage, the
1.8 V switch and what each failure of it leaves behind, selection, SDR50, SDR25 or High Speed, the
ladder over `clkdiv_hs`, the divider learned per serial number, and then the transfers with their
retries, `sd_fallback_clock` and `sd_fail`, the retries of the housekeeping and the console's
`sd_reinit`. `card` is the card itself - its signalling level, state and speed function - and
does whatever a card does that got a command whose answer was lost. `need` is history: the slowest
divider a card has been driven to since it was put in.

**UsbFsHost** models `usbfs_host_poll`, `enumerate` transfer by transfer, the interrupt endpoint with
its toggle, `handle_keyboard_report`, and the part of `wait_rx_idle` that flushes the write-behind
buffer before a long enumeration. `port` is the device with its own toggle, so a lost
acknowledgement, a repeated report and a device exchanged between two transfers are real events.

## 3. The runs

| run | instance | states | shows |
|---|---|---|---|
| `stream` | 3 sectors, chunks of 2, 2 buffers, 1 retry | 485 k | `VerifiedOnCard`, `SettledOnCard`, `ResendCovered`, `CardGetsOnlyPushed`, `NoSilentStop` |
| `stream_live` | 2 sectors, chunks of 1, 2 retries, 1 clock step | 103 k | `CallsReturn` |
| `stream_error` | as `stream` | - | `ErrorCloses` is violated |
| `write` | image of 5 sectors in 2 fragments on a card of 7, chunks of 2, 3 buffers, 2 commands | 824 k | `BuffersDisjoint`, `NeverRefused`, `IsBlockDevice` |
| `read` | 2 cards of 60 sectors, 12 files of every format, clusters of 2, chunks of 2, runs of at most 3, 2 cache slots, 2 retries | 572 k | `ReadTruly`, `ResidueTold`, `FailsOnlyOnFault`, `StreamClosed`, `CacheFresh`, `ReadEnds` |
| `sdinit` | a card of each kind, 4 bursts of noise, 3 events | 543 k | `SignalAgrees`, `ClockWithinMode`, `LearnedKept`, `CardReady` |
| `link` | all durations 1 to 3 ticks | 51 k | `OneController`, `SessionLives`, `KeepsSuperSpeed`, `UnpluggedReturns`, `Connects`, `BounceResolved` |
| `transport` | 3 buffers, data phases of 1 and 4 chunks, 3 commands, 2 resets | 424 k | `HostInStep`, `TakesOwn`, `NeverDropped`, `Answered`, `Recovers` |
| `media` | 2 cards (two DVDs and a disk; one DVD of the same name), at power-on no card or card a, with nothing or its last file saved, 2 events, swap gap 1 and acknowledgement 3 ticks | 142 k | `ImagesAnnounced`, `EjectsKnown`, `ToldInTime`, `CooperativeSparedOnline`, `EjectedForSession`, `NothingStaysOfMany` |
| `media_swap` | as `media` | - | `OnlyAnnounced` is violated |
| `kbd` | a keyboard, a mouse, a hub and a mute device, 2 keys, reports of 1 key, 2 failing transfers, 3 events, 3 key movements | 479 k | `NoPressLost`, `SlotFlushed`, `Driven`, `BacksOff` |
| `kbd_rollover` | as `kbd`, without noise and events | - | `HeldActsOnce` is violated |

Why the bounds are enough. A stream of three blocks in chunks of two has a chunk that is not the
first, a short last chunk, a chunk pushed in part, two runs in one command and a tail that starts
inside a chunk; faults are unlimited, only the retries are bounded, as in the code (`Retries`).
`CleanStart` cuts a behaviour at the first `begin` after blocks reached the card: what a later
stream can inherit is the mode the card was left in, which the behaviours kept do explore. Buffer
contents differ in every block and between buffers, so a shifted or stale block is seen. In `write`
a fragment of three sectors followed by one of two makes chunks straddle the border on either
side, and a five-sector command is longer than the three buffers can hold at once with one held
back. Two commands are what write-behind needs: one that leaves the stream open and one that
continues it, ends it, or is refused; a third meets nothing the second did not. In `link` the
durations are distinct where the code compares them and at least one tick, so that every order of
expiry occurs; the ages stop counting at the largest limit they are compared with. In `transport` four chunks
wrap the three buffers, so that a buffer filled too early would be seen; one reset can hit a command
and the next one the recovery from it; three commands are one before, one hit and one after. Deadlock
is not checked there: a host that has used up its commands stops, and the core waits for it. Buffers and
values are symmetric: the code compares them with nothing. In `media` an event is what the user
does, a bus reset, an eject or load of the card LUN, or a failure (a choice that is not saved is one);
commands, resets of the session, passes of the loop and ticks are unlimited, so two events are two changes with
any amount of polling around them, which is what each property is about: a change and what undoes, repeats or
overtakes it. A saved name that is not the first of its card is one key press from "nothing", which leaves
the second event for what would bring the image back. Card b has a
file of the name of one of card a's, so that remounting by name can bring up the wrong one. A tick is
longer than a pass and a command; the acknowledgement time is more than twice the period of a
cooperative host (3 ticks against 1), as 2.5 s is against 1 s.

In `read` the files are chosen for their borders: an ISO whose 2048-byte blocks straddle
fragments, a VHD whose blocks and a VMDK whose grains straddle clusters, tables of two sectors in a
cache of two slots (so that header and tables evict each other), a flat VMDK with an offset, a size
in half sectors, a file of too many runs and one longer than its chain. Commands start at block 0, 1
or 3 and ask for 1, 5 or 2 blocks where the host expects 4, 5 or 1 sectors: exactly one ISO block, more or less
than it gets; `ByteWord` 8 makes five ISO blocks overflow the byte count as 2^32 would. The two cards have files
of the same names elsewhere, so that a stale table or extent shows. In `sdinit` four bursts of noise
let the ladder take all of its three steps, or a transfer be retried up to its second fallback and an
initialisation fail after it, and three events make "another card, and the first one again"; noise is bounded only so that
"after the last one" has a meaning, and a card can be pulled at every step. In `kbd` reports of one key
make two keys a rollover; two failing transfers are a lost acknowledgement and the failure of its
repetition; three events are a device, its removal and another.

Fairness. `stream_live` assumes that the driver goes on (it polls) and that the data path answers or
times out (it has a hardware timer). `link` assumes that the idle loop polls (strong: a host would
have to complete every CBW within the few instructions between arming its buffer and testing for
it), that a wait notices a moved `reset_seq`, that time passes, and that a line nobody drives is
seen dead or idle in the end. Nothing is assumed of a host: it may be silent, reboot, or stop in the
middle of a command. `media` has safety properties only and needs no fairness; "in time" is a bound
on ticks. `transport` assumes that the main loop goes on and that a host that waits for the device
takes what is there (weak fairness of `Main` and of `Handler`); resets are never forced. `read` assumes that the main loop goes on and that a host which waits for data takes
it. `sdinit` and `kbd` assume that the main loop comes round (the driver's own steps are weakly fair)
and `kbd` that the clock moves; noise, the slot, the port and the keys are never forced, and are bounded, so
that "in the end" means after the last of them. `Answered`
names what a waiting host is not protected from: a reset inside a command (`torn`), a completion
counted between load and store of `tx_outstanding` (`lost`), a chunk that arrives between the drop
and the stall and is later taken for a command (`dead`), and a WRITE that fails when all its data
has been received, so that the host has no cause to clear the halt the core waits for (`cleared`).

### Where the code and its documentation part

Three of these have a run of their own, above. `DisconnectResets`, `Usb2HostServed`,
`CooperativeSpared`, `EjectedStaysOut`, `EjectedOutlastsClock` and `OldStaysAway` are stated in their
modules beside the properties that do hold; TLC shows the counterexample when one of them is put
into the module's configuration (`OldStaysAway` needs `MaxEvents = 3`).

* `ErrorCloses`: the header `sd_sdio.h` says an error closes the stream. When the re-sent tail of a
  recovery fails, `sd_stream_recover` returns with the stream it reopened still open
  (`sd_sdio.c:1372`); `cmd_write` relies on the header and leaves the card receiving.
* `HeldActsOnce`: a rollover report (more keys down than it holds) is saved as the previous report
  like any other, so the keys that were held all along are acted on again by the next one
  (`usbfs_host.c:303` against the comment at `:285`).
* `DisconnectResets`: a cable pulled in the middle of a command is never noticed, for the
  supervisor is not polled there and no interrupt ends the wait.
* `Usb2HostServed`: `ss_host_known` outlives its host when another is plugged in while SuperSpeed
  is being retried; a USB 2.0 host is then never served.
* `OnlyAnnounced`: `sd_housekeeping` initialises a card that is not present *before* it calls
  `media_poll`. A card found gone by a command and exchanged before the next pass is back when
  `media_poll` looks; the other card's data is read without UNIT ATTENTION. `ImagesAnnounced` is
  what does hold: unless a card took another's place unseen, every change is announced first.
* `CooperativeSpared`: the clock of the re-plug runs while no host is connected; one that is
  configured later than `IMG_SWAP_ACK_MS` after boot is re-plugged in the first idle pass.
  `CooperativeSparedOnline` is what does hold: never for a change noticed while it was connected.
* `EjectedStaysOut`: the message at `msc_core.c:1345` says that a card the host ejected stays out until
  it is re-inserted, USB re-plugged or console L. `msc_evt_reset` (`:232`) brings it back, and both controllers
  call it for a Bulk-Only reset (`usbss_msc.c:257`, `usbhs_msc.c:277`) and for the configuration
  set once more (`usbss_msc.c:338`, `usbhs_msc.c:373`): a host that recovers from a stalled
  command sees the volume again.
* `EjectedOutlastsClock`: nor does it hold within one session. `sd_bounce_us`, set by console L, is cleared
  only where a bounce ends with the card still ejected (`:368`). A bus reset or configuration within `SD_BOUNCE_MS`, or
  a pulled card, takes the eject away and leaves the clock, and the next eject by the host is undone by
  the `media_poll` of its own command. `EjectedForSession` is what does hold: without such a clock the
  card stays out through whatever is polled, mounted, swapped or re-initialised in the session.
* `OldStaysAway`: "a mode switch must not bring the old image back" (`image_store.c:888`). When the key's
  "nothing" cannot be saved (the record was shortened on the host, or the write fails: `:584-596`), the name saved
  before is still on the card, and the next initialisation mounts it (`img_auto_mount`). A record that is
  *missing* is harmless, for the next one made says "none". `NothingStaysOfMany` is what does hold: a saved "nothing"
  outlasts everything, an unsaved one everything but that initialisation. Both are
  about cards with no image or several; that a single image is mounted in any case is what
  the repository's README says (`README.md:120`).

`KeepsSuperSpeed` speaks of a host the supervisor has *adopted*. The README's rule that a host which
has *enumerated* at SuperSpeed never gets USB 2.0 has a gap the model shows as well: an enumeration
between the check and the decision is thrown away by the reset (`CheckWait`, `SetConfigurationSs`,
`FallBack`).

## 4. The proofs

Eight modules hold proofs. Every safety property a passing run checks, invariant or action property, is
proved for all values of the constants, and the refinement of `BlockDevice` with them. What each rests on:

| module | for any | inductive invariant | proves |
|---|---|---|---|
| `SdWriteStreamProofs` | card size, chunk size, buffers, contents, retries, clock steps | `IInv` | `StreamTyped`, `VerifiedIsOnCard`, `SettledIsOnCard`, `ResendAlwaysCovered`, `NothingCutOff`, `OnlyPushedData` |
| `MscWriteProofs` | the same, and image layout without shared sectors, commands | `IInv /\ WInv` | `LawfulCaller`, `CommandNeverRefused`, `NoBufferShared`, `LunIsBlockDevice` |
| `MscReadProofs` | card contents, cluster and table sizes, buffers, chunk size, commands | `RInv`, `UInv`, `TInv` | `ResidueIsTold`, `StreamIsClosed`, `FailsOnFaultOnly`, `CacheIsFresh`, `ReadsTruly`, `FileMapExact` |
| `MscTransportProofs` | number of buffers, data phases, commands, resets | `XInv` | `StaysInStep`, `PushesOwnData`, `QueuesNeverFull` |
| `MscMediaProofs` | cards, images, times, events | `MInv`, `CInv` | `MediaAnnounced`, `KnownEjected`, `HostToldInTime`, `CardStaysOut`, `NothingRemains`, `CooperativeHostSpared` |
| `LinkSupervisorProofs` | durations | `LInv` | `TypesHold`, `ControllersExclusive`, `SessionsLive`, `SuperSpeedKept` |
| `SdInitProofs` | cards of the three kinds, noise, insertions | `IInv` | `OneLevel`, `NeverTooFast`, `NeverForgotten` |
| `UsbFsHostProofs` | devices, keys, slots of a report, noise | `UInv` | `SlotAlwaysFlushed`, `FailureBacksOff`, `PressesArrive` |

Every proof has the same shape: a lemma per action with one step per conjunct of the invariant it
disturbs, a lemma that puts the actions together, and a temporal step at the end. Each inductive
invariant was checked by TLC on the instance of its run before it was proved.

**The streamed write.** That verified blocks are on the card rests on *where the next block goes*.
`IInv` adds

* `Ordered`: base <= verified <= pushed <= runEnd <= total, and the acknowledgement count between
  base and pushed while a run is on;
* `InStep`: while the card receives, its next sector is the stream's first sector plus the
  acknowledged count - the card and the data path agree on the offset;
* `AckedOnCard`: acknowledged blocks hold what was meant (`verified` can only follow);
* `FetchedRight`: what the DMA read for the offsets still to come is what was meant;
* `Held`: what is handed over and not acknowledged lies unchanged in the chunk pushed last;
* `PushGoing`, `Progress`, `SettledAll`: where the call in progress stands.

`LoopStop` preserves `SettledAll` because `MayStop` and `Progress` leave nothing in flight; `Reopen`
preserves `FetchedRight` because `Held` says where the tail lies.

**WRITE.** `IInv` is about any caller, and allows `Refill` to overwrite any buffer but the one pushed
last. `LawfulCaller` shows that the WRITE command is such a caller (`WSpec => Spec`: every step of the
composition is a step of the stream, USB receiving into a buffer being a `Refill`), so all six
theorems about the stream hold of it. That needs `WInv`, which says in eight parts who owns the stream
(`Ownership`), where the command is in the LUN (`Position`, `Segment`), how far the stream was told the
run reaches (`Announces`, `Guided`: this gives `NeverRefused`), what has landed on the card (`Landed`),
in whose hands each buffer is (`Buffers`: this gives `BuffersDisjoint`; the buffer held back is the one
the card may ask for again) and what the armed and filled ones hold (`Incoming`). `LunIsBlockDevice` is
the refinement: the abstract disk is the card seen through `Place`, an acknowledged block is a `Write`
of the pending command, GOOD is its end, and everything else stutters. `AnyContent` (a chunk may hold
anything) is what makes the buffers of a real host steps of `Refill`.

**READ.** In three layers.

* `RInv` counts: what is counted as sent is what the host has and what is on its way, unless a reset hit
  the command. `ResidueTold` follows on every path out.
* The map. `file_map`'s binary search, the runs of a chain, the folds of `build_extents` are recursive
  functions, and no library theorem about induction can be used here (they take an operator as a
  parameter). The module gets induction over the numbers from the well-foundedness of strict inclusion on finite
  sets, which is a fact about sets: `LeastNumber`, then `SetInduction`; `RecursionExists` gives a
  function that solves the equations of a recursion along a decreasing measure. With these, `SearchFinds` (the
  search returns the last extent at or below the sector, and never leaves the table), `LinkMapRuns`,
  `ExtentsAreTheFile`, and `FileMapExact`: the map of a file is its cluster chain, in any number of
  fragments. `VhdRight`, `VmdkRight`, `RawRight` show that what `detect_format` accepts has an `img_cur` that
  describes the file (`Described`), and `ImgMapTells` that `img_map` then answers what `Virtual` says.
* `UInv` adds the driver: `ToldToStop`, `CardAt` (the card is at the block the stream wants next, also after a
  retry), `Pushing`, `Segment` (the stream is that of the run under way), `Faults` (what failed has a
  fault behind it), `MapInv` (the cache is fresh, the mounted image described), `InRange`. `TInv` adds the
  data: `StreamTrue`, `FilledTrue`, `PieceTrue`, `QueueTrue` follow a block from the card through the
  chunk and the queue to the host, and `InTurn` and `Same` say why no buffer on its way is written into: at
  most one is while another is filled, and with two buffers or more that is not the same one.

`CardAssumption` is what all of this is true of: chains that lie on the card and share no cluster, and in
a VHD or VMDK that can be mounted tables that lie in the file and point into it. The code checks none of
it and could not serve a card without; TLC evaluates it for the cards of the run. Stating it found two
mistakes in the instance (a VHD of more fragments than `MAX_EXTENTS`, which was never mounted, and two files with the same
clusters) and one in the reference (`BitmapOf` was the constant 1: right for blocks of 2 MB, wrong for others).

**The transport.** `XInv` says what is where at each place of the main loop, as long as no reset hit a
command (`torn`). `Accounted` is the heart: `tx_outstanding` counts *at least* what is queued, at each
of the places between a load and a store; a completion lost there makes it count more, never less, which
is why a buffer is never filled too early although the loop may then wait for ever. `Listens` had to
admit the stale chunk: a data chunk that arrives between the drop and the stall is still there when the
next command is awaited. `Resting` is why a reset between commands leaves nothing behind.

**The media.** `MInv` relates three views of a LUN: the medium that is there, the one `media_poll` saw last
(`polled` and `shown` of the history) and the one the host knows. `Knows` and `Took`: a LUN without a
pending attention is known to the host as `media_poll` saw it, one that is not stale was taken on
board. `Owed`: what the host waits for is held for changed by `media_poll` for at least as long.
`StaysOut` says that an eject of this session left the card out with no clock running; `NoneLeft` that after the
key's "none" the card is `Bare`: no image is mounted, remembered or waiting, and either none is
saved (`NoChoice`) or the card is live, so that nothing reads what is saved. A card the driver has given up is
not live (`GoneIsBare`), which is why its next initialisation mounts nothing. `CInv` is about a
cooperative host and needs `Ack > 1`: the acknowledgement time is longer than two of its rounds.
Five definitions were corrected when the proof did not go through, none seen by TLC within two events: `shown`
joined the history (the image `media_poll` saw may be gone before it looks again), `Polled` takes what
was polled and not what is there, `Owing` and `ToldInTime` count to less than `Ack`, and `EjectsKnown`
is guarded by what the command itself has heard.

**The supervisor.** `LInv` adds to the four properties `HostRemembered`: while an adopted host is there,
`ss_host_known` is set and a cached reading of the pins cannot say "nobody" in the phase that uses it.
That is why the cache has to be dropped when a phase is entered.

**The card.** The properties speak of a card in use; `IInv` says what the initialisation knows before it is:

* `PresentOnlyAfter`: `sd_card.present` is set by the last step only, and nothing starts an
  initialisation while it is;
* `PinsKnown`: the level of the pins at each place, and from selection on `signal_1v8` = the pins;
* `CardMatches`: a card in the transfer state heard the host, so it has the level of the pins, and its
  serial number is the one noted;
* `WithinMode`: the divider respects the card's speed function, with the one exception the code makes on
  purpose: High Speed at 3.3 V runs at full speed until the end of `sd_init` slows it down;
* `NeedRemembered`: what the card has needed stands under its own serial number, so `Settle` finds it.

`SwitchStuck` and `DefaultSpeed` are why they are needed: a card may be ahead of what the driver believes, and
what saves the driver is that it re-identifies, or stays at the slowest divider.

**The keyboard.** `Timed` and `Flushed` are about when an enumeration begins. For `NoPressLost`, `Counts` says of each
key that handling the reports still queued (`Ahead`: without the first one when only its
acknowledgement was lost) brings what was acted on up to what was told. The sum over a queue of any
length is not written as a recursion but as the existence of the row of its partial sums (`Reaches`):
a report appended or handled lengthens or shortens the row by one, which needs no induction.

Assumptions on the constants, all evaluated by TLC on each run: sizes and durations are positive,
`NBuf` is at least 2 in READ and transport (`MSC_NBUF` is 3), no two sectors of an image share a place,
`Pattern` is everything a chunk can hold, and `CardAssumption`. The bounds on events, noise, commands and keys that TLC needs are
constants without an upper limit here.

Only model-checked: everything under fairness (`CallsReturn`, `UnpluggedReturns`, `Connects`,
`BounceResolved`, `ReadEnds`, `CardReady`, `Driven`, `Recovers`, `Answered`), for the provers do neither liveness nor
`ENABLED`; and the violations of section 3, which are counterexamples. The one fold in what
the proofs reach (`FoldLeft`, in `ImageMap`) is characterised by the function of its partial results (`FoldExists`).

## 5. Bounds and abstractions

* A block is a value; the CRC, the command frames, DMA and clock registers are not modelled, a
  fault is a choice. `hint`, `runEnd` and the offsets count blocks of 512 bytes.
* The stream of `MscWrite` takes one LUN at a time; two LUNs differ in `Place` only, and a
  command for another LUN is a flush.
* In `MscRead` the card under a mounted image does not change, neither by a swap (that is `MscMedia`)
  nor by a host writing to the card LUN under it. Offsets of a flat VMDK near 2^32 do not occur (only the
  difference that would make its size wrap does). FatFs' link map has maximal runs, so
  `AppendedRun` never joins two of them. `cmd_read`'s call of `sd_stream_abort` on failure finds no open
  stream in any behaviour; it is kept because the code has it. A host that resets may leave up
  to two chunks queued, which the reset drops.
* In `MscTransport` a data phase counts chunks; a residue other than zero occurs as an early end.
  The two controllers are one: where they differ (stalls after a BOT reset) both are explored.
* In `SdInit` a command either gets through or meets a burst of noise; one burst stands for all
  the retries of a single command. The result of a CMD8 that times out is part of `TIMEOUT` and
  `DefaultSpeed`. A transfer's data is not modelled. Dividers are the real ones. A few facts the model shows
  and no document denies: the ladder lowers `clkdiv_hs`, which has no part at 3.3 V, and it stays lowered
  until `sd_reinit`; `sd_init` may return OK with `present` cleared again by the probe that follows; a 1.8 V
  probe that only noise made fail goes on at 3.3 V with a card still at 1.8 V, which the comment at
  `sd_sdio.c:619` says never happens and `CardReady` excuses as `NeedsPower`; "cut the power to the bus"
  before another try (`sd_sdio.c:791`) is the power of the controller, the card keeps its own; a card
  exchanged while nobody reads is noticed at the next transfer.
* In `UsbFsHost` the three seconds of the back-off are the choice of `Expire`; an endpoint may be due or
  not at any pass. A device exchanged within the 30 ms of the second reset is excluded. `attach_event`
  is always cleared before it is read and `DEV_ENUMERATING` never assigned, so neither is there; a stalled
  endpoint is detached and enumerated again at once, without the back-off. A short report, whose
  tail the code takes from the one before, and the result of the LEDs' SET_REPORT are left out.
* In `MscMedia` a failure of the card is that it is not there, does not come up, its file system
  cannot be read or the record of the key's choice cannot be written; the write-behind stream `media_poll`
  drops with a vanished card belongs to `MscWrite`. `ensure_config_file` makes a missing record and pads
  a short one; where it fails the name is read as it is, or there is none, which is the same. Files do not
  change while the card is in, but for the record the host shortens or removes before a choice is saved;
  a name the host writes into it by itself is not modelled. Folders, the writable flag and image formats
  do not matter to what is announced. The microsecond clock does not wrap.
* In `LinkSupervisor` a tick is the unit of every duration; SuperSpeed link states are grouped into
  RxDetect, training, up (U0 to U3, hot reset) and inactive. The console's laboratory commands
  (`usb_sup_manual`, `sup_paused`) are left out: they switch the supervisor off.

## 6. Plan

1. (done) `SdWriteStream`, `MscWrite` over it, `BlockDevice`, `LinkSupervisor`; their proofs.
2. (done) `MscTransport`; `MscMedia` over `ImageStore`.
3. (done) `ImageMap` and `SdReadStream` under `MscRead`, against the reference `Virtual`.
4. (done) `SdInit` with its proofs; `UsbFsHost`.
5. (done) Theorems: every safety property of the passing runs, the refinement of `BlockDevice`, and that
   the WRITE command is a lawful caller of the stream.
6. To come: what the modules promise each other, proved across them. A READ that ends of itself leaves the card as
   a WRITE finds it (`SdReadStream` and `SdWriteStream` over one card); the type of `MscRead` in full.
7. To come, if worth it: the controllers' own handlers below `MscTransport` (`usbss_msc.c`, `usbhs_msc.c`: packets
   of a chunk, data toggles, zero-length packets).

## 7. Not modelled

* FatFs and its tables, the chip vendor's peripheral library and headers: third party, and by far
  the largest part of the tree, which is why the share of all source lines that the models
  stand for stays small. What FatFs does for the image store (open, link map, read) is modelled from
  its use. The FatFs glue (`sd_diskio.c`) only forwards to the single transfers.
* Display, LCD and LEDs: output only. Descriptors and constant SCSI answers: tables. The time base: a free-running counter.
* Start-up and the boot core: a straight sequence of register writes. The scripts for a PC: not part
  of the device.
* The console's line editing and laboratory commands, the debounce of the key, folders and macOS
  file clean-up of the image store, the key table and lock LEDs of the keyboard.
