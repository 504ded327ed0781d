# Verification of the NVR_RK3568 board support package

The repository is the board support package of a network video recorder: the
boot loader's own commands, two kernel drivers, a Bluetooth application and a
collection of packages and scripts. This directory holds TLA+ models of the
parts that have state and concurrency of their own, the TLC configurations that
check them, and TLAPS proofs. Paths below are relative to `src/Source/`.

## 1. Inventory

| Component | Code | State it keeps | Operations | Hard because |
|---|---|---|---|---|
| Cadences of buzzer and leds | `cpu/RK3568/drivers/MxGpio/MxGpioDrv.c` | `buzLedCadence[9][3]`, `CurrentPriority`, `IsBuzLedFillInProg`, three timers, the output pins | ioctls `SET_CADENCE`, `CLR_CADENCE`, `SET_BUZZER`, `SET_STSLED`; sysfs stores; timer functions `ProcBuzLedCad` (500 ms) and `SyncBuzLedCad` (10 ms) | ioctls of several applications and two timer functions run on several CPUs over a table without a lock |
| Input polling | same file | `inputPinActivity`, `inputStatus` | timer function `CheckInputPinStatus` (30 ms) | a sample may come before the initialisation is over; the shift registers start as zero |
| Driver life cycle, other ioctls | same file | pins, sysfs groups, device nodes, the timers, `is_pin_init` of each reset | `GpioModInit`, `GpioModExit`, resets of PHY and ASM, `GET_*` | any registration may fail and the error labels are out of order; timers start themselves again while the module exits; two applications reset the PHY at a time |
| Watchdog driver | `cpu/RK3568/drivers/watchdog/watchdog.c` | `isSystemRunning`, `wdtTimeOutCount`, `wdtTimer`, the kick pin | open, feed (ioctl), `wdt_Tasklet` (100 ms), module exit | the count is decremented and stored on two CPUs; a second open sets up a pending timer; open and timer function both set the kick pin |
| AutoMac | `cpu/RK3568/uboot/u-boot/net/automac.c`, `common/cmd_automac.c`, `common/automac_environment.c` | protocol state, retry counts, environment in RAM and flash | `do_automac`, packet handler, time-out function | lost, late and repeated packets, retries, ctrl-C, power cuts |
| Network loop | `cpu/RK3568/uboot/u-boot/net/net.c` | `net_state`, handlers | `net_loop`, `net_start_again` | order of packets, ctrl-C, time-outs and the test of `net_state` in a round |
| USB upgrade | `cpu/RK3568/uboot/u-boot/common/cmd_usbupgrade.c`, `common/main.c`, the script written by `board/NVR_RK3568/package/production_release/Makefile` | variable `signature` in RAM and in flash, four partitions | `do_usbupgrade`, the steps of the script | the environment in RAM holds the new signature before the image is read; reads, writes and the power fail between two steps; nothing looks at the result of a write |
| Bluetooth session | `package/Bluetopia/Patch/.../LinuxGAT_MAT/TestApp.c` | thread status, `btConnected`, `btReadReqTimerF`, `ReceiveDone`, `startAdvtF`, `prevSysTick` | start of the service, GATT and device events, session and advertising time-outs, notification | flags shared without a lock by `main`, the start thread and the stack's callback thread; events arrive late |
| CLI, OTP, password update, LCD, start scripts | see `PROJECT.json` | files | sequential | left out, section 7 |

Interaction. Applications reach both drivers through `ioctl` on a device node
and sysfs; `Appl/MxGpioCtl.c` is a command line wrapper around the same ioctls.
The drivers share no state with each other. In the boot loader
`CONFIG_PREBOOT` runs `automac` and then `usbupgrade`, and both work on one
environment: the first saves it once the addresses are granted, the second sets
`signature` in RAM and leaves it to the last line of the upgrade script to save
it. The Bluetooth application calls the stack and is called back by it on a
thread of the stack, one event after the other. The kernel is built with `CONFIG_SMP` and
`CONFIG_PREEMPT_VOLUNTARY` (`board/NVR_RK3568/config/kernel.config`), so timer
functions and ioctls run at the same time on different CPUs.

What makes each part correct, in a sentence: the most urgent response is played
and every response gets its turn or is cleared; an input is only reported after
enough equal samples (which the first lows after a load are not); a hung application is reset and a healthy one is not; a
board ends with as many distinct granted addresses as it has ports, or with none;
a package is recorded as installed only when it is; the kernel gets back what
the module took; a phone that hangs does not keep others away (it does, in one order of two
threads) and no request outlives its session.

`PROJECT.json` lists, under "hazards", every place where this can go wrong in a
way that a test would hardly reach.

## 2. Modules

| Module | Models | Correspondence |
|---|---|---|
| `MxGpioTables` | the constant tables of `MxGpioDrv.c` 90-238 | one row per response, all 17; a cadence is the set of slots in which the output is on |
| `MxGpioCadTable` | what the driver's functions compute on the table | one operator per function or loop body, from entry to entry or table to table |
| `MxGpioCadence` | ioctls and timer functions as actions, one step per call of `FillStructOfLedBuz`, `ClearCadence` or a timer function | variables carry the names of the code; `syncPending` is the armed 10 ms timer, `call` is how far a `SET_CADENCE` has come |
| `CadenceArbiter` | the promise: a priority arbiter without a table | the refinement maps `active` to the priorities with cycles left |
| `MxGpioCadenceSmp` | the same calls taken apart into stores and loads | `call` and `proc` are program counters with registers; a value may be reused or read again, which covers what a compiler may do; `apart` is a history variable, the applications into whose row no other ioctl has stored since theirs began |
| `MCMxGpioCadence`, `MCMxGpioCadenceSmp` | instances for TLC | constants only |
| `MxGpioInput`, `Debouncer` | input polling and the promise of a debouncer, which a load of the module restarts | `sampleVal` is the shift register under its mask, bit by bit, the newest sample in bit 0; `taken` counts the samples since the load, so that the zeros behind them are not taken for samples; a component without `Next` of its own |
| `MxGpioModule` | EXTENDS `MxGpioInput`: load and removal of the module, each registration and its failure, the three timers, applications that reset the PHY | `step` is the place in `GpioModInit` or `GpioModExit`, `held` what the kernel has given, `armed` and `running` the timers: a timer function runs on another CPU and `del_timer` does not wait for it; `Oops` is one that outlives the module |
| `Watchdog` | the driver and the chip behind it | the timer function is split at each access of a shared variable and of the pin: `Kick`, `SetKickPin`, `Rearm`, `Load`, `Store`, `Test`, `Expire`; so is the end of an open (`opener`): `OpenStatus`, `OpenPin`. `wdtPinStatus` is what the driver takes the level to be, `pin` what it is |
| `AutoMac` | command, protocol and network loop of the boot loader, server, network, user and power | `phase` is the place in `do_automac` and `net_loop`; `time_handler`, `udp_handler` whether the handlers are AutoMac's |
| `MacGrant` | what `automac` promises to whatever runs after it and to Linux | implemented by `AutoMac` in detail and kept by `UsbUpgrade`, which builds on it: the two are composed over one environment through this contract |
| `UsbUpgrade` | power-on, `automac` as `MacGrant` promises it, `do_usbupgrade`, the script line by line, the user with the sticks | `pc` and `part` are the place in the command and the script; `env` and `saved` the environment in RAM and flash |
| `BtSession` | the Bluetooth application while its service is enabled | `main` and `callback` are the places of the two threads; `elapsed` is the time since `prevSysTick`; `queue` the events under way; `DisconnectRemoteDevice` is three steps, `DisconnectRemote`, `DropConnection` and `ClearRequest` |
| `BtStart` | the start of the service on three threads | `creator`, `starter` and the device callback |
| `MxGpioTables_proofs`, `MxGpioCadence_proofs`, `MxGpioCadenceSmp_proofs`, `MxGpioModule_proofs`, `Watchdog_proofs`, `AutoMac_proofs`, `UsbUpgrade_proofs`, `BtSession_proofs` | the theorems | section 5 |

`MxGpioCadence` is deliberately at the grain of calls: it shows what the
algorithm guarantees if calls were atomic. `MxGpioCadenceSmp` shows what is left
of it without a lock.

## 3. Runs

| Run | Checks | Shows |
|---|---|---|
| `cadence` | `TypeOK`, `ForeverOnlyByTable`, `CurrentIsHighest`, `KeepsArbiterPromise`, `DrainsToForever`, `NothingStaysLit`, `OutputsFollowCadence` | two applications whose three-part sets overlap, direct pin writes, four responses on three priorities, two of which share one, every kind of clear |
| `cadence_smp` | `TypeOK`, `HoldIsTaken`, `SetIsComplete`, `PlayingResumes` | one ioctl against the timer function, store by store |
| `cadence_smp_race` | `QuietCurrentIsHighest` is violated | a lost update of `CurrentPriority` |
| `gpio_module` | `TypeOK`, `RegistrationsGivenBack`, `ResetIsReleased`, `TimersLive`, `ReturnsAfterReset`, `PhyStaysUp`, `DebouncesButFirstLows`, `StableLevelIsReported` | two loads, one failing registration anywhere, timers on another CPU, two applications that reset the PHY; but for the first lows after a load the input polling is a debouncer |
| `gpio_first_low` | `Debounces` is violated | the first low sample after a load makes an input inactive |
| `watchdog` | `TypeOK`, `NoResetUnlessExpired`, `StopsOnlyUnfed`, `HungApplicationIsReset` | opens, feeds and exit at any point of the timer function |
| `watchdog_lost_feed` | `FedInTime` is violated | a feed inside the decrement is lost |
| `automac` | `TypeOK`, `SavedAreGranted`, `AsksUntilGivenUp`, `KeepsMacPromise`, `GetsAddresses` | two ports, reliable and unreliable networks, `netretry` set or not, two mishaps |
| `usb_upgrade` | `TypeOK`, `RecordsWholeUpgrade`, `KeepsMacPromise`, `UnrecordedIsInstalled` | two packages, sticks that come and go, three failures or power cuts at any step |
| `bt_session` | `TypeOK`, `RequestHasSession`, `StaysReachable`, `ReachableAgain`, `WriterIsNotified`, `HungPhoneIsDropped`, `BusyPhoneIsDropped` | two phones, the main loop against late events, one failing call of the stack |
| `bt_idle` | `StatusReadEndsConnection` is violated | without any failure, `main` clears `btConnected` under a new phone, which is never timed |
| `bt_start` | `EnabledIsRegistered` is violated | an event during the start advertises, the start takes the service for registered |

Five runs find a violation: `cadence_smp_race`, `gpio_first_low`,
`watchdog_lost_feed`, `bt_idle` and `bt_start`. Each quotes, under "findings" in
`PROJECT.json`, the comment of the code that it tests. `UsbUpgrade`,
`MxGpioModule` and the watchdog may really stop (a crashed kernel, a board
without a boot loader, a reset), as may `AutoMac` when it is done: their
configurations do not check deadlock. All others do.

### Bounds, and why they are enough

- `MaxOps` bounds the ioctls and pin writes of a behaviour: three in
  `cadence` (a response that plays, one that pre-empts it, one clear),
  one in `cadence_smp`, which starts in a table with any response playing, five
  in `watchdog` (two opens and three feeds, or any other mixture). All actions
  of the timers are unbounded.
- The responses of `cadence` are rows of the driver's own table. Cadences are
  scaled to at most two slots, finite cycles to 1 or 2, keeping which output
  ends first; priorities in use are renumbered without gaps. `TablesArePlayable`
  is evaluated on the unscaled table (`ASSUME DriverTables`): finite cadences
  end in an off slot, rows are finite on all outputs or on none, only the idle
  response has the lowest priority. The proofs do not need any of this except
  what `TableAssumption` says.
- `cadence_smp` has two responses of two priorities. Its timer function starts
  at most once during an ioctl (variable `met`): the ioctl takes microseconds,
  the timer 500 ms. Races need one meeting only. It has one application: two
  with two ioctls are beyond five minutes. What several do to each other's sets
  is left to `SetsComplete` (section 5).
- `watchdog`: `WATCHDOG_TIMEOUT` is 4 intervals instead of 600 and the chip
  waits 3: a feed can be early, in the middle and late. A chip of 2 intervals would
  reset a healthy board, since an open that meets a kick costs an edge; the real
  chip waits for many, and `TimeoutAssumption` says 3 or more. One application opens at a time.
- `gpio_module`: one input, since the polling treats every input by itself and
  a step samples all of them; 3 samples instead of 5, enough for a run that is
  broken off in the middle; two loads (a removal followed by a new load), one
  failing registration, and two clients, which is what an overlapping reset
  takes. `gpio_first_low` needs one load, one application and no failure.
- `usb_upgrade`: two packages besides the one delivered (an upgrade, and another
  one on top of a half finished first), three failures or power cuts before the
  boot. Switching a booted board off is not counted.
- `bt_session`: two phones (the one that is dropped and the one that comes in
  between), time-outs of 1 and 2 ticks, two events under way and the end of the
  connection besides, which always finds room, and one call of the stack that fails; none in `bt_idle`.
- `automac`: four ids are enough for one current, one late and two granted
  addresses; `TIMEOUT_COUNT` = 1 and `AUTOMAC_RETRY_COUNT` = 0 give two requests
  per start of the ethernet and one restart, the same control as 10 and 30.
  `MaxMishaps` bounds ctrl-C, power cuts and ethernet failures together.
  `macreceived` is not counted beyond `required_macaddr` + 1, from where all
  values behave alike (the code's 8-bit parameter would wrap at 256).

### Fairness

- Timers that are armed expire, and re-arm themselves: `WF` of `SyncBuzLedCad`,
  `ProcBuzLedCad`, `PollInputs`, `Interval` and the steps of the
  watchdog's timer function. Kernel timers guarantee this.
- An ioctl that has begun returns (`WF` of its steps): nothing in it blocks.
- No fairness is assumed of applications: they may stop calling at any time,
  and with a bounded number of ioctls they do.
- The boot loader's loop goes round (`WF`), a time-out that is set expires at
  last (`SF`, it can only be taken in one phase of the round). In `automac` the
  server answers (`WF`) and a packet that stays under way is received (`SF`);
  packets may still be as late as they like, and `GetsAddresses` is claimed only
  for networks that neither lose nor repeat packets.
- In `gpio_module` the steps of `GpioModInit`, `GpioModExit` and of a reset go
  on, armed timers fire and their functions return. Nobody has to load or
  remove the module.
- In `usb_upgrade` the boot loader goes on (`WF`; the power cuts that
  interrupt it are bounded). That a booted board is at last switched off and on
  again is `SF` and the user's patience; `UnrecordedIsInstalled` says what it buys.
- In `bt_session` both threads run and time passes. Phones owe nothing: what a
  property needs of them is a premise of that property.

## 4. What the properties say

*Cadences.* `KeepsArbiterPromise` is a refinement: every step of the driver is a
raise, a finish or a clear of the abstract arbiter, so a pre-empted response
cannot be lost, neither playing, setting nor clearing drops a priority that
waits, and the played one is elected anew at every change. `ForeverOnlyByTable`
rules out that 255, which means for ever, comes about by counting. `DrainsToForever` and `NothingStaysLit` are the
liveness side: finite responses drain, and no output stays driven without a
response as long as the idle row exists, but those that an application itself was the last to
write (`written`). The first condition is needed: a clear of the
present response while the driver is idle destroys the idle row itself, and the
buzzer of a response that is set and cleared later then stays driven. So is the
second, `~mixed`: a clear that comes amid another application's set leaves a row
whose led has been cleared while lit and whose buzzer is then filled and played for ever.

*SMP.* `HoldIsTaken` and `PlayingResumes`: the hold on the playing always has
somebody who ends it. `SetIsComplete`: whatever the timer function does
meanwhile to cycles and positions, and other ioctls to other rows, a set leaves
the response, its cadence and its length in place. Only an application whose own row another ioctl
has stored into, so that the two mix, is outside it (`apart`).
`TypeOK` is about the widths of the fields: the timer function may test the position of one
row and move on that of another, so the position is bounded by its UINT8 only. Not true without
a lock is that the most urgent response is played (`cadence_smp_race`).

*Watchdog.* `StopsOnlyUnfed` relates giving up to `cleanGap`, the intervals since
the last feed that did not fall into the decrement; `FedInTime` is the promise
of `watchdog.h`, without that exception, and fails. Both exempt `relinked`: a
second open sets up a timer that is pending, after which the kernel's timer
wheel is undefined and the model lets it run at any time.
`NoResetUnlessExpired` is more than that the timer goes on: an open stores
`wdtPinStatus` and sets the pin while `wdt_Tasklet` does the same, in either order. The status
may then disagree with the pin and the next kick set the level that is there
already, which is no edge for the chip; that this happens once and is made good by
the kick after it is what the property checks.

*AutoMac.* `SavedAreGranted` relates flash to the grants: after any mixture of
retries, repeated packets, ctrl-C and power cuts it is untouched or complete,
with distinct addresses, and never contains the random address that is used
while asking. `AsksUntilGivenUp`: the loader never waits without a time-out
before its last retry. `KeepsMacPromise` is the refinement of `MacGrant`: whatever the
command goes through, to those who come after it it either is still asking or
has left a complete set in flash. After its last retry the loader prints
"Automac terminated after max retry" and waits on for an answer or a ctrl-C; that
is why `GetsAddresses` needs a network that loses nothing. A ctrl-C typed while the
addresses are being saved makes `net_loop` fail although it has succeeded; `do_automac`
begins again and may replace the saved addresses by others that were granted,
which `SavedAreGranted` and `MacGrant` allow.

*Life of the driver's module.* `RegistrationsGivenBack`: the error labels do not
follow the order of the registrations, and still no registration is left over, because
the attributes go with the device. The one pin that `GpioModExit` forgets,
`PHY1_RST_PIN`, is the exception the property names. It says nothing of
timers: `del_timer` does not wait for a function that runs and will start its timer again, so
that a timer may be pending after the exit. The run takes that step too, `Oops`. `ReturnsAfterReset` and
`PhyStaysUp` are about two applications in `phy_power_on_off` at a time: the chip
may be pulled low twice, and yet no request returns before a whole reset and the
chip ends out of reset. `ResetIsReleased` is what that rests on at every moment: a
low pin always has an application in the delay that raises it. `TimersLive`: a
timer that starts itself again is lost for good if it misses once; polling and
playing survive every hold, failed load and removal before. The resets of PHY2 and ASM repeat the code. `Debounces` is
the refinement of `Debouncer`, which counts samples taken since the load and is violated: the
zeros that the shift registers start with pass for low samples, and one low sample is
enough. `DebouncesButFirstLows` is what holds: every step is one of `Debouncer`
or a sample before the register is full that makes an input inactive which
has been low in all of them. `StableLevelIsReported`
covers the sample that comes before the initialisation sets the statuses to unknown.

*USB upgrade.* `RecordsWholeUpgrade` relates the signature in flash to all four
partitions, `UnrecordedIsInstalled` is its converse in time: what is not recorded
is tried again until it is installed. Both except a partition whose write failed,
since the script looks at no result of `mmc write`; the second also excepts a
power cut while U-Boot's own partition is programmed, after which nothing starts.
`KeepsMacPromise`: no upgrade, whole or broken off, loses the addresses. Someone
who types `usbupgrade` at the console after a failed read finds the package
skipped, as the signature is in RAM already; the next power-on tries it again.

*Bluetooth.* `RequestHasSession`: whichever thread ends a session, no request is
left for the next phone. What `main` has already tested it still answers, so a
phone that has gone may be answered once. `StatusReadEndsConnection` is about the link: a phone that has
read its status is disconnected in the end. It fails without any fault of the
stack. `main` disconnects a phone; before it clears `btConnected`, the device advertises,
another phone connects and its status read is handled; then `main` clears the
flag of that session, and nobody times it any more. `HungPhoneIsDropped` says that this
store, `ClearsFlag`, is the only way out: a phone that is connected and hangs
loses its link, or `main` clears the flag under it. `BusyPhoneIsDropped`: even after
that a phone that goes on asking is disconnected, since its next request sets the flag again.
All three are about phones that do not read their status again and again, as every such
read starts the 500 ms anew. `ReachableAgain` and `HungPhoneIsDropped`
hold although `main` reads `prevSysTick` while the callback stores it, so that a
new session may look expired at once, and although `DisconnectRemoteDevice` may
hit a phone that has just come. `StaysReachable` says more than `ReachableAgain` does
and needs no fairness: while no call of the stack has failed there is no moment in which
the device neither advertises nor serves a phone without the callback thread
having the end of a connection still to work off. It is why a start that the stack
refuses while a phone is connected may be forgotten. `WriterIsNotified`: writes that find the slot taken
are acknowledged and dropped, but a phone that keeps writing is served.
`EnabledIsRegistered` fails (`bt_start`).

## 5. Proofs

`tlapm` checks the eight proof modules completely. Assumptions are only the named
ones of the modules: `TableAssumption`, `ClientAssumption` and `OpsAssumption` (shapes
of the tables, any number of responses, priorities and clients, any `MaxOps`),
`TimeoutAssumption` (a positive time-out, a chip that waits for more than two intervals) and `AutoMacAssumption` (one or two
ports, any limits, more than three ids), `UsbUpgradeAssumption` and
`BtAssumption` (names that differ, any limits), `ModuleAssumption`, and
`InputAssumption` (finitely many inputs, a positive number of samples).

`MxGpioTables_proofs`. The runs scale the tables; the proofs speak of any tables
under `TableAssumption`. `DriverTablesFit` closes the gap: the seventeen rows of the
driver, with their real lengths and cycles, meet that assumption. `TablesPlayable` is
what the playing relies on besides (`TablesArePlayable`), column by column of the tables.

`MxGpioCadence_proofs`. The inductive invariant is
`IInv == TypeOK /\ ForeverOnlyByTable /\ CurrentIsHighest`. Type correctness is
not inductive by itself: that a decrement stays in range needs that the entry is
not played when its count is zero, and the position stays within 16 because it
is put back when it reaches the length. The argument is split in two: lemmas
about entries, rows and tables (`PlayEntryFacts`, `PlayRowFacts`, `ClearLedFacts`,
`ClearBuzzerFacts`, `FillFacts`) end in `Sound(tab, new)`, which says that a new
table is well typed and holds no infinite entry that the old one did not
justify; `NextInv` then has one step per action. Theorems: `TypeCorrect`,
`NoUnderflow`, `PlaysMostUrgent`, and `KeepsPromise`, the refinement of
`CadenceArbiter`: each action maps to a raise, a finish, a clear or a stutter. The
hard case is a clear; `ClearLedHalf` and `ClearBuzzerHalf` show of each half of
`ClearCadence` that it wakes the priorities it reaches or ends the current one.

`Watchdog_proofs`. `IInv` adds to the types: `CountBounded`, a lower bound for
the count, or for the value the timer function has loaded, by the time since the
last clean feed, at each place of the timer function; `Kicking`, that until the
driver gives up its timer is pending or served, and how long the chip has waited at each
place of the timer function and of an open: one interval, or two when status and
pin have come `Apart` or an open is about to set the level a kick has
just set; and `Dormant`, that nothing runs before the first open.
Theorems: `TypeCorrect`, `KicksInTime` (`NoResetUnlessExpired`) and
`GivesUpOnlyUnfed` (`StopsOnlyUnfed`), for every time-out and every chip of more than two intervals.

`AutoMac_proofs`. `SavedAreGranted` is not inductive: the second address is saved
next to whatever is in RAM. `FirstInv` says what is there, a granted address
that is not the one being asked for, once one address has been counted; it needs
`OffInv`, that nothing is counted when the board is switched on. `LoopInv` gives
`AsksUntilGivenUp` at every place of a round and not only where packets are
received, and `TimerInv` bounds the count of time-outs for the types. Theorems:
`TypeCorrect`, `OnlyGrantedAreSaved` (`SavedAreGranted`) and `NeverWaitsUntimed`
(`AsksUntilGivenUp`), for any number of ids, time-outs, retries and mishaps.
`KeepsPromise` is the refinement of `MacGrant`. It needs `SuccessInv`, that the
loop only succeeds with something in flash, which `SavedAreGranted` makes complete;
every grant that saves maps to `Grant`, the end of the command to `Finish`.

`UsbUpgrade_proofs`. `ScriptInv` is the loop invariant of the script: all
partitions before the present one hold the package or are damaged. That it is
*the* package needs `StickInv`: from the comparison to the save, the signature in
RAM is the one of the stick. `EnvInv` ties the addresses in RAM to those in flash,
so that the save at the end of the script changes only the signature. Theorems:
`TypeCorrect`, `RecordsOnlyWholeUpgrades` (`RecordsWholeUpgrade`) and `KeepsPromise`
(`KeepsMacPromise`), for any number of packages and failures.

`MxGpioModule_proofs`. `HeldInv` bounds what is held by the step that has been
reached, `UndoneFacts` shows of every label that it and those behind it release
just that, and `ResetInv` that the flag is only set after a whole pulse and
the module stays while an application has the device open. `LiveInv` adds to
`ResetIsReleased` and `TimersLive` what holds of the pin and of the poll timer when
`GpioModInit` is about to finish. Theorems: `TypeCorrect`,
`GivesBack` (`RegistrationsGivenBack`), `WaitsForReset` (`ReturnsAfterReset`), `LowPinHasOwner`
(`ResetIsReleased`) and `TimersStayAlive` (`TimersLive`), for any inputs,
applications, loads and failures. `DriverDebounces` (`DebouncesButFirstLows`) is about every step of
the driver against `Debouncer`, for any number of samples. The abstract run of equal samples is read off the register
as the number of its prefixes that agree (`RunLength`); `RunBreaks` and `RunGrows` say what
a shift makes of it, `FullRunPattern` that the run is full just when all bits under the mask are
equal, which is what the code compares with. `RunIsAgreement` reads a run
back as the samples that agree. `StatusInv` says that the logical and the sampled
status agree unless the latter is unknown, and that a register holds zeros
behind the samples taken since the load, so that a pattern that is complete too early is
one of lows; a load is the step `Restart` of the abstract debouncer.

`BtSession_proofs`. `RequestHasSession` is not inductive: a write that is still
in the queue must come before the end of its connection. `OrderInv` says so for
the whole queue, and the types need `QueueOK`: a phone that is connected
can always leave. `StaysReachable` is inductive on top of them: a start of the
advertising leaves the device advertising or with a phone unless it fails
(`StartReaches`), and the end of a connection stays in the queue until the callback that
advertises takes it (`EndWaits`, `EndStillWaits`). Theorems: `TypeCorrect`, `NoRequestLeftOver` and
`StillReachable`, for any phones, time-outs, lengths of the queue and failures.

`MxGpioCadenceSmp_proofs`, for any number of applications and ioctls and for every
table, where the run has one application with one ioctl. `HoldEnds` (`HoldIsTaken`):
`PlaceInv` says that an application past the flag is inside an ioctl; the hold is ended
by the application that set it, by another one, or by the timer that is pending.
`TypeCorrect` (`TypeOK`) needs no more than the widths of the fields. `SetsComplete`
(`SetIsComplete`): `SetInv` says how far the row of a set that is `apart` is filled, the
outputs before the present one and the fields before the present one of that. It is kept because the
timer function stores only cycles and positions (`SteeredKept`), a fill stores what the
response asks for (`FillProgress`), and an ioctl that stores into the row of somebody
else takes that one out of `apart` (`OthersStep`).

Only model-checked: the liveness properties (`DrainsToForever`, `NothingStaysLit`,
`OutputsFollowCadence`, `PlayingResumes`, `PhyStaysUp`, `StableLevelIsReported`,
`HungApplicationIsReset`, `GetsAddresses`, `UnrecordedIsInstalled`, `HungPhoneIsDropped`,
`BusyPhoneIsDropped`, `ReachableAgain`, `WriterIsNotified`), since liveness under fairness and `ENABLED` are out
of the prover's reach. Every invariant and every action property or refinement that a
passing run checks has a theorem. `BtStart` has none: its one property is violated.

## 6. What is abstracted

Log messages, the copying between user and kernel, the wording of the protocol.
The boot loader's transaction ids are taken as different from each other while
they are about; in the code they are random 16-bit numbers. The source port of
an answer is either the server's or not, at random; the board's own port, which
changes with every start, is covered by the id, which changes too. `env_save` is
taken to happen as a whole or not at all, and not to fail; the 10 s that `net_start_again` waits
without a packet handler, once it has tried all interfaces, are left out. In `BtStart` the advertising may start from the
callback while `advertisingInfo` is still zero; whether the stack accepts that
is external, and both answers are possible. The chip of the watchdog, the wiring of
inputs, the server, the network, the kernel's timer wheel and module loader, the
boot loader's USB, FAT and shell, and the Bluetooth stack are external and marked
so in the map where a definition stands for them.

Applications open the MxGpio device of a loaded driver only, as the start scripts
have it: an ioctl during `GpioModInit` would meet timers that are not set up yet.
`getGATTConnected` reads the address of the phone through the union member of
another event (`TestApp.c` 1620); the two are taken to lie at the same place. A
package on a stick is known by its signature.

## 7. Not modelled

- `MXGPIO_GET_CAD_STS` and `MXGPIO_GET_BUZ_STS` read the table field by field and
  may return a mixture; they change nothing, and nothing says what a reply is
  worth. Relays, fans and USB power are one pin write each, card type and
  board version one read. `MXGPIO_SET_CADENCE` reads its argument as 32 bits and
  passes it on as an 8-bit enumeration after the check.
- In `MxGpioCadenceSmp`: the clears by response and of everything.
- `StopBluetoothServiceFn`, which the constant `btEnable` makes unreachable; the
  encoding of attributes.
- `Appl/MxGpioCtl.c`, `passwordupdate.c`, `lcd_configure.c`: sequential
  programs without state between runs; there is nothing to interleave.
- One-time passwords and start scripts: patches of third-party code and shell
  scripts around mount and fsck.
- Vendored and generated code: the kernel's and U-Boot's DRM, SATA, clock and
  network drivers, unzip, the Bluetopia sample below `TestApp.c`, configuration
  and device trees.

What the last item means in numbers: of some 57,000 lines of source about 6,600,
comments included, are written for this product, and the map names about 2,200 of
them, besides 300 lines of the vendored files in which the product's code runs
(`net.c`, `main.c`). The rest of the 6,600 is comments, declarations, pin and
attribute tables, single pin accesses, and the sequential tools above. Modelling a display driver or an unzip that the repository only carries along
would raise the share and say nothing about this product.

## 8. Plan

1. Done: cadences, SMP, inputs, driver life cycle, watchdog, AutoMac, USB upgrade,
   Bluetooth session; `AutoMac` and `UsbUpgrade` joined by `MacGrant`; the proofs
   of section 5.
2. The clears by response in `MxGpioCadenceSmp`.
3. An abstract session that `BtSession` implements; a statement of when the
   overlapping elections of `cadence_smp_race` settle.
4. The lock of the one-time password list.
