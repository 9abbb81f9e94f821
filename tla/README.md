# TLA+ models of og3

og3 is a C++ library for small networked devices (ESP32 and ESP8266): modules that are
linked by name, a queue of timed callbacks that drives everything, WiFi, MQTT and Home
Assistant glue, relays, LEDs and sensors. This directory holds TLA+ modules that model its
core, TLC configurations that check them on small instances, and TLAPS proofs.

Everything on a device runs in one loop: `App::loop()` calls the update functions of the
modules and then `Tasks::loop()`, which runs the callbacks that are due. Concurrency comes from
three places: callbacks that reschedule themselves and others, interrupt handlers
(`Tasks::run_next()`), and on the ESP32 the task in which the WiFi driver reports events
(`WifiManager::onWifiEvent()`). Hardly anything blocks; whatever must happen later is an entry of
the one `TaskQueue`, and a component whose entry is lost stops for good.

## The system

| component | state | operations | what makes it correct |
|---|---|---|---|
| `isBefore` (util.h) | none | compares two wrapping timestamps | an order, as long as times lie less than half the clock's range apart |
| `TaskQueue` | a pool of nodes, a doubly linked list and a free list in it | insert, insertReplace, remove, runNext, popFirst, popLast | sorted across the wrap, one entry per id, no node lost, only the latest entry evicted |
| `Tasks` | a `TaskQueue`, the slot `s_run_next` | runAt, runIn, loop, run_next (interrupt) | what is queued runs, not early, in order; loop() returns; the last request under an id counts |
| `PeriodicTaskScheduler` | `m_prev_msec`, an id | setTasks, runAt, runIn, cycle | exactly one run queued, catches up after a late one, runs for ever |
| `Relay`, `DOut` | pin level, off callback, last-on time, timers in the queue | turnOn, turnOffIn, turnOff, set | a timed "on" ends, and not before its time |
| `ModuleSystem`, `Module` | modules, requirements, function lists, `m_is_ok` | construction, require, setup (link, sort, init, start), update | fails exactly on a cycle or a missing module; functions run in order of dependency |
| `WifiManager` | AP mode, was-connected, two timestamps, back-off, a queued thunk, a queued sanity check | trySetup, startAp, startClient, onConnect, onDisconnect, sanityCheck, onWifiEvent | its view agrees with the link; a client that lost its network tries again |
| `Mdns` | started, connected, queued retries | connect, on the callbacks of `WifiManager` | tries until the responder starts |
| `MqttManager` | enabled, connected, subscriptions, a reconnect task | connect, disconnect, subscribe, the client's handlers | comes back online after every loss of broker, client or link |
| `HADiscovery` | index of the next discovery callback | onMqttConnect with pauses and retries | no pause, failure or reconnection loses the rest |
| `BlinkLed` | on/off, blinks left, a scheduler | on, off, blink, delayedBlink, blinkCallback | the number of blinks asked for; ends off |
| `Pir`, `DIn` | one static callback and flag | callOnMotion, interrupt, read | no motion is lost between the interrupt and the loop |
| `VariableGroup` | variables with flags | conversions from and to text, form fields and JSON | what a form or a file shows converts back to the value |
| `ConfigInterface`, `ConfigModule`, `FlashSupport` | files | read_config, write_config, handlers of forms | a restart brings back what was saved, whole |
| ring buffers, `TextBuffer` | start, size; text and length | push, pop, insert, remove; add, split | contents are the expected sequence; lines fit |
| `KernelFilter` | ring of samples, count, sigma | addSample, saveState, restoreState | the window is the last samples, also after a sleep |
| packets | buffer, offsets | add_message, add_crc, parse, get_msg | reader reads what the writer wrote |
| `Watchdog`, `WifiWatchdog`, `OtaManager` | a queued update; callbacks | update, enable, disable, the callbacks of an update over the air | resets a loop that is stuck, and no other |
| others | | logging, web pages, PID, drivers | I/O or arithmetic; left out |

How they interact: `TaskIdScheduler`, `TaskScheduler` and `PeriodicTaskScheduler` call `Tasks`
with an id; `Relay`, `BlinkLed`, `WifiManager` and `MqttManager` use those or call `Tasks::runIn()`
without an id; the WiFi driver calls `WifiManager` from its own task; `MqttManager` connects in a
callback of `WifiManager`, as does `Mdns`; `HADiscovery` runs in a callback of `MqttManager`; the handlers of
web forms read a request into a `VariableGroup` and write it with `ConfigInterface`; every module finds the
others through pointers that `ModuleSystem::link()` fills in.

`PROJECT.json` lists the hazards, at the lines where they bite, with the properties that cover them
or the reason why none does.

## Modules

| module | models | state and actions |
|---|---|---|
| `Millis` | the clock and `isBefore()` | `Modulus` stands for 2^32; `Plus` and `Minus` are the unsigned operations |
| `TimedThunks` | the list a `TaskQueue` represents | operators on sequences: `Removed`, `Place`, `InsertedReplacing`, `Inserted`, shared by every module below except TaskQueue; `Age` and the assumption on timing (`Horizon`, `Lateness`) |
| `TimedQueue` | abstract specification of `TaskQueue` | `queue`, `now`; one action per public operation |
| `TaskQueue` | the C++ class | `pool` is the object (nodes, head, tail, free list, size); each private helper is an operator on pools; refines `TimedQueue` by `queue <- Listed(pool)` |
| `Tasks` | `Tasks` on one core | the loop's position is `phase`; one step per stretch of code that runs with interrupts disabled, so interrupts come between any two calls of `getThunk()` and while a thunk runs; `latest` and `edges` are history |
| `PeriodicTask` | `PeriodicTaskScheduler` | `cycle()` is two steps, before and after its callback, and the callback may itself queue tasks and move the schedule; `cycleMsec` is history |
| `Relay` | `Relay` on `DOut` | `relay` holds the fields and the queue; callbacks are names, "again" is one that calls `turnOn()` inside `turnOff()`; `until` is history |
| `ModuleSystem` | `ModuleSystem`, `Module` | the recursion of `visit()` is a stack of frames (`stack`), so the search can be stopped and looked at between any two edges |
| `WifiManager` | `WifiManager` on the ESP32, with the driver | the entry under `m_scheduler` is `pending`, that of the sanity check `sanityQueued`; a full task queue may refuse any `runIn()`, see below; `newsLost`, `checkLost` are history; `link`, `outcome` and `events` belong to the driver; timestamps are ages |
| `Mdns` | `Mdns`, composed with `WifiManager` | a callback of `WifiManager` is one step with the handler that makes it (`MdnsToldConnected`, `MdnsToldDisconnected`); retries have no id, so they are counted |
| `MqttManager` | `MqttManager` with the MQTT client and the broker (external) | `client` is what the client believes, `session` what the broker does, `retained` what the broker shows of the device, `birth` an "online" on its way; `timers` are the entries of these modules in the queue |
| `HADiscovery` | `HADiscovery` on `MqttManager` | a run of `onMqttConnect()` is one step with one of its `Outcomes`: all it may send, or a failure at any entry; `begun` is history |
| `HAApp` | the composition of the last three | `WifiConnected` is the callback that connects MQTT, `DiscoverOnConnect` the one that starts discovery; every other step is one of one module |
| `Variables` | the conversions of `VariableBase` and its kinds | operators: `FromString`, `FormEntry`, `ToJson`, `FromJson`, a case per kind; texts and numbers are the few that the conversions tell apart |
| `Settings` | a group with its file, the handlers of forms, restarts | `handler` is where the handler is: it reads the request, opens the file, puts in the variables one by one, closes; the program and losses of power come in between; `asked`, `kept` are history |
| `RingBuffer` | `RingQueue`, `SortedRing` | `ring` is the array with start and size; `items` is the sequence that the same calls make of a list (history) |
| `KernelFilter` | the sample window | `filter` and the saved `state`; `recent`, `savedRecent` are history |
| `Packets` | `PacketWriter`, `PacketReader` | `packet` is the message headers by offset; `sent` is history; reading is the operators `Parse` and `Read` |
| `TextBuffer` | `TextBufferBase` | `cursor` is the locals of `split()`, one step per turn of its loop |
| `BlinkLed` | `BlinkLed` | the LED, `m_num_blinks`, whether the callback is queued; `flashes`, `due` are history |
| `Watchdog` | `WifiWatchdog` with the task watchdog timer and the callbacks of `OtaManager` | `pass` is what the loop is doing, `unfed` the timer, `updateIn` and `late` the queued `update()`; `LoopTime` is the longest that a loop which is not stuck keeps it waiting |
| `Pir` | `Pir` on `DIn`, with the slot of `Tasks` | an interrupt (`PinChanges`) comes between any two steps of the loop; `unread` is history |
| `TimedThunks_proofs`, `TimedQueue_proofs`, `TaskQueue_proofs`, `Tasks_proofs`, `PeriodicTask_proofs`, `Relay_proofs`, `ModuleSystem_proofs` | | lemmas and theorems about the module of that name |
| `Parts_proofs` | | theorems about `Watchdog`, `BlinkLed`, `Pir`, `KernelFilter`, `RingBuffer`, `Packets`, `TextBuffer`, `Settings`, and `WifiManager`, `Mdns`, `HAApp` |

The `MC...` modules give the model values; each `.cfg` gives the bounds. Definitions marked
"Fault:" are wrong variants of the operator that follows them and are used by no specification:
replacing the operator by its fault must make TLC report the property named for it in
`PROJECT.json`, which shows that the property depends on that code.

What the models abstract: thunks are names, logging and formatting are left out, and `getId()` is the set
`Ids`. `millis()` advances by `Tick`, which is guarded by an assumption on timing: callers
schedule at most `Horizon` ms ahead, and no entry waits more than `Lateness` ms past its time
(nor does a call of `loop()` take longer), with `Horizon + Lateness < HalfRange`. On a device
HalfRange is 24.8 days. The assumption is what the 32-bit comparison needs; outside it the queue
can be unsorted, and nothing is claimed.

The task queue has one model of its own and its users see it in three ways. `Tasks`, `PeriodicTask` and `Relay` keep the
list itself. `Mdns` and `MqttManager` count their entries against the room that is left for them (`MdnsRoom`, `Room`), and
remember that one was refused (`mdnsRefused`, `refused`). `WifiManager` does not model who fills the queue: each of its
`runIn()` calls may be accepted or refused, a free choice at that call. `Refusable` names the kinds that may be: those of an event
(wifi_manager.cpp:315, 321), of another task (157, 181, 273) and of `scheduleSanityCheck()` (126, 237). A refused call leaves what
was queued under the id, as `insert()` refuses before it looks at the id. The choice includes more than can happen where a
task queues itself again in the node that its own run has just freed. That makes the properties stronger, as each holds
whatever is refused, but for the exceptions it names: `newsLost`, the last event found the queue full, and `checkLost`, a
sanity check did. Nothing in the code makes up for either: the driver does not tell again, and the check
was what queued itself.

## Runs

All bounds are constants of the modules.

| run | bounds | why they are enough |
|---|---|---|
| `timed_queue` | clock of 12 values, 3 nodes, 2 callbacks, 2 ids and none, Horizon 2, Lateness 2 | wraps within a run, equal times, full queues, replacement at head, middle and tail |
| `task_queue` | clock of 8, 3 nodes, 1 id and none | every shape of the two lists of 3 nodes, eviction with and without the id queued |
| `tasks` | clock of 12, 3 nodes, 1 id, 1 one-shot entry at a time, 2 interrupts | one node is always spare (the condition of `RequestsHonoured`); an interrupt at each point, and a second before the first is served |
| `tasks_full` | the same with 2 nodes | violation: no spare node |
| `periodic_task` | clock of 16, 3 nodes, period 2, first delay 1, Horizon 3, lateness up to 3, one move, one foreign task | runs later than a period, a move before, during and after a run, wrap |
| `relay` | clock of 10, 4 nodes, up to 2 timers and the one its callback adds, 1 foreign task | room for every timer, which `OffTimerQueued` needs |
| `relay_stale` | the same, 3 nodes, one kind of callback | violation |
| `module_system` | up to 3 modules, 4 requirements | self-requirement, cycles of 2 and 3, chains, diamonds with a repeated edge, missing modules, all orders |
| `wifi_manager` | driver up to 3 events ahead, auto-reconnect on, every kind of `runIn()` refusable, room for 2 retries of mDNS | any of the entries refused at any point, the constructor's check included; an event replaced by the next before the loop runs, and the events the manager causes itself; a retry next to one queued by another connection |
| `mqtt_discovery` | driver 1 event ahead, events refusable, 2 discovery entries, 1 per go, the first with a command, room for 2 queue entries | links are lost and sessions closed without a bound; a pause and a failure at each entry, two chains at once, a queue that is full, a lost or a new connection that `MqttManager` is never told of. That the other calls of `WifiManager` are refused too is `wifi_manager`'s question |
| `parts` | ring of 3 with 3 elements, 2 of one key; 5 samples into a window of 2; buffers of 11 to 34 bytes with messages of 0, 1 and 5; up to 3 blinks; 2 sensors; a watchdog of 5 fed every 2, late by up to 2; groups of 1 or 2 variables of each kind, a float with no decimals and one with one; text of up to 9 in a buffer of 8, lines of 4 and 5 | rings that start anywhere and wrap; windows that wrap before and after a save; packets full with and without CRC, odd sizes, more messages than a reader holds; every state of the LED at a new blink; an update over the air at each age of the last feeding; every stop between the steps of a write; a line broken twice and not at all |
| `wifi_manager_ap` | that of `wifi_manager`, nothing refusable | violation, with a task queue that has room for everything |

What they show:

- `timed_queue`: `Sorted`, `UniqueIds`, `InWindow`, and `EvictsOnlyLatest`: a full queue changes only by
  replacing the same id or by giving up its tail for an entry that is not later.
- `task_queue`: the linked nodes implement the list (`ImplementsTimedQueue`), no node is leaked or on both
  lists (`NoNodeLeaked`), the back links mirror the forward links (`ReadsBothWays`).
- `tasks`: `RunsInTimeOrder`, `LoopReturns` although thunks reschedule themselves with no delay,
  `OneShotsRun`, `InterruptServed`, and `RequestsHonoured` with a spare node.
- `periodic_task`: `OneRunQueued` (moves never double or cut the chain), `NextRunWithinPeriod`
  (missed runs are skipped), `RunsForEver`.
- `relay`: a timed "on" has a timer that ends it in time, whatever calls come in between, and ends.
- `module_system`: `FailsOnlyIfUnsound` compares the search with a definition that does no search;
  `SearchInv` is what the search maintains; `RequiredRunFirst` is the promise of docs/modules.md; `SetupEnds`.
- `wifi_manager`: `ViewMatchesLink` and `RecoversByItself`, both with any entry refused. A retry that is refused, or replaced by an
  event, is made up for by the hourly check, and an event by the next one that is accepted; a refused last event and a refused check are
  the exceptions. The type invariant also says that the back-off
  delay is never beyond one doubling, because a connection resets it before it can grow:
  `kMaxRetryDelayMs` is never reached. `MdnsKeepsTrying`: the responder's chain of retries does not end.
- `mqtt_discovery`: `ComesBackOnline` is what a user expects of the whole: with MQTT enabled and WiFi up
  from some time on, the client ends up connected, the broker's session alive and "online" retained on
  the topic of the will, although the code never compares the three. It needs both ways of reconnecting: the
  10 s task alone is not queued when WiFi is down, the callback of `WifiManager` alone misses a broker
  that closes. Sessions may be closed without a bound, so the two liveness properties are about behaviours in which
  that ends (`SessionsLast`), as losses of WiFi do (`WifiStays`, which also excuses an event that was refused). `DiscoveryGoesOn` and `DiscoveryCompletes` say that the chain of pauses and retries has no
  end before the last entry. All excuse an entry that a full task queue refused (`refused`), after which the
  chain may be gone for good.
- `parts`: one run for the parts that only their callers drive; `part` says which part a behaviour is about, so
  the state space is the sum of theirs. `RingIsSequence`, `WindowIsRecent` and `ReadsWhatWasSent`
  compare an implementation on indices with sequences; `BlinksAsAsked` and `MotionNotLost` are about calls
  and interrupts at every moment; `BitesOnlyStuck` says both that the watchdog spares a loop that works, also right after a
  failed update over the air, and that it is on whenever the loop could get stuck; `RestartRestores` and `UneditedKept` about settings;
  `SplitsAtSpaces` about each line that `split()` leaves.

Three runs expect a violation, where the code does something else than its documentation says:

- `tasks_full`: `insert()` refuses a full queue before it looks at the id (task_queue.h:26-28, tasks.h:64-65).
- `relay_stale`: the timer of an earlier `turnOn()` ends a later one early (relay.h:40).
- `wifi_manager_ap`: a first connection that fails leads neither to a retry nor to the AP (wifi_manager.h:38-39).

Met while modelling, without a run of their own. Where the models contain such behaviour, the property
next to it names the exception.

- Queue and loop: `runNext()` runs the head whether or not its time has come (task_queue.h:99 says it does only
  then); the second run of a periodic task comes (period - first delay) after the first
  (docs/scheduled-tasks.md:57); entries for equal times run in an order that depends on what else is
  queued; `Tasks::loop()` runs twice per `App::loop()`, once as an update function.
- Relay and start-up: an `off_fn` given with `on_msec` 0 is never stored (relay.h:41); a relay that is on when
  its pin is low is switched on by the start function of `DOut`; `App::setup()` ignores the failure of
  `ModuleSystem::setup()`; `std::sort` leaves the order of two functions of one module open; a required
  module is looked up by the address of its name.
- WiFi, MQTT, discovery: `wasConnected()` is false again once the link was lost, where wifi_manager.h:83 says "true if at
  least one successful connection was made this boot"; `ViewMatchesLink` is about the flag as `onDisconnect()` uses it and
  does not hold of what is documented. An event that finds the task queue full is never told again: the manager then takes a
  lost link for a connection, or the other way round, until the next event. A sanity check that finds it full ends
  the hourly checks for good. `kMaxRetryDelayMs` is unreachable; the `DISCONNECTED` event caused by
  `WiFi.disconnect()` in `onDisconnect()` usually replaces the retry just queued, so that the hourly check
  is what recovers; `MqttManager::disconnect()` leaves "online" on the topic of the will and is followed
  by a reconnection after 10 s; enabling MQTT in the form connects at the next WiFi connection or restart only;
  the disconnect callbacks of `MqttManager` are never called; each failed attempt at a discovery entry
  with a command adds a listener that `onMessage()` never reaches; the index of discovery is never reset, so an entry
  published into a session that was dead counts as sent, and a reconnection subscribes nothing again.
- Settings: on the boot that formats the flash nothing can be saved, and the WiFi form restarts all the same;
  a failed variable is left out of the file that replaces the old one, so its stored value is gone; NaN is
  saved as null and an enumeration value without a name as "??", neither of which can be read back;
  `fromJson()` does not clear the failed state; posting an unedited form changes a number that has more decimals than its
  variable, as the field shows `String(m_value, decimals())` (variable.h:356), a String with a quote, which is cut there, and an
  enumeration value without a name, which becomes the first option;
  "no" is true for a bool; a page that is only looked at writes its file too; a posted form sets
  what the program changed since the page was made; the results of `serializeJson()` and
  `deserializeJson()` are ignored.
- Data structures: `remove()` of a ring takes the last match (ring_buffer.h:65 says the first), and
  `SortedRing::insert()` refuses a full ring whatever the element is (ring_buffer.h:126 says false if it is full "and element is
  out of range"); the list that `RingIsSequence` compares with does as the code in both. `insert(t, index)` has no return
  statement for a valid index; `restoreState()` of `KernelFilter` leaves `m_exp_scalar` as it was; `get_msg()` tests the index against all messages, not the 16 it has offsets for;
  packet sizes have 16 bits; the size of a message does not include its header, and all numbers but the CRC are written and read
  most significant byte first (packet.h:17-22 says "includes msg header" and "uint16le"; writer and reader agree, which is what
  `ReadsWhatWasSent` is about); a packet whose CRC flag was damaged would be read without a check, which the model, where
  packets are cut short and not changed, cannot say; `split()` never tests the first character of a line, which so may be a
  newline (`LineFits` then has an empty line, and says nothing of the one behind it), and looks past the NUL of a text that is
  empty, ends in a newline or ends at the space where it is broken.
- Watchdog: when the task queue is full at start-up, `update()` is refused and the device resets again and again. The
  progress callback of `OtaManager` divides by `total / 100`, which is 0 for an image of less than 100 bytes.
- LED and motion: `delayedBlink(msec, num)` flashes num + 1 times with the LED off (blink_led.h:47); a full task queue
  leaves the LED on; a second `callOnMotion()`, of whatever sensor, replaces the callback of the first and attaches
  no interrupt (pir.cpp:46).

`CHECK_DEADLOCK FALSE` is given to `module_system`, where a failed setup is the end, to the two runs of
`WifiManager` and to `mqtt_discovery`, where nothing need happen any more once the AP is up, and to `parts`, where
a packet that is full takes nothing more.

A module whose type invariant says something about the code has one (`TypeInv`, `WifiMdnsTypeInv`, `NetTypeInv`: bounds of the
queue, the pool, the back-off, the single reconnect entry); the others would only list the values their actions assign.

## Fairness

Arduino's core calls `loop()` again and again, so what the main loop does next is weakly fair
(`EnterLoop`, `GetThunk`, `CycleStarts`, `RunPending`, ...); a thunk returns (`ThunkReturns`,
`CycleEnds`), as the library has no way to stop one that does not; the clock ticks. No
call of an application (`runIn`, `turnOn`, `turnOff`, `Move`), no interrupt and no loss of a link is
fair. In `WifiManager` an attempt to join has some outcome (weak fairness of
`JoinSucceeds \/ JoinFails`, never of success alone) and the driver's events are delivered. The loop runs the sanity check
while it is queued: fairness is of the run that queues itself again (`WF_vars(SanityCheck /\ sanityQueued')`), so that no refusal is
forced, and none is ruled out; after one it is not queued and nothing is fair about it. In `HAApp` the
loop runs what is queued (weak), the client hears of a failed attempt and of a session that is gone (weak,
its timeouts), an "online" that is under way arrives (weak); that a connection attempt made again and again is
accepted some time, and a publication made again and again succeeds, is strong fairness about the
broker: without it nothing can be promised. In
`ModuleSystem` the constructors end and `setup()` is called.

## Proofs

Every invariant and every action property that a run checks, and the refinement of `TimedQueue` by
`TaskQueue`, is also a theorem, for every value of the constants that the named assumptions allow; `PROJECT.json` lists
them under "theorems". What stays with TLC is liveness. Each theorem comes from an inductive
invariant, proved in the same way: the initial states satisfy it, there is one lemma (or case) per
action, and the temporal rule does the rest.

### Time and the queue

`TimedThunks_proofs` holds the lemmas about sorted lists of timed callbacks that the next five modules share.
`isBefore()` is no order on all clock values (it is not transitive around the circle), so `Sorted`
alone is not inductive: a tick would break it for entries half a range apart, and an insertion could not use it.
The proofs measure each queued time by its age, `Minus(Plus(t, Lateness), now)`, a number of milliseconds:
a tick makes every age one less (`AgeAfterTick`), a request has the age `Lateness + delay` (`AgeOfRequest`), and
inside the window `isBefore()` is `<=` on ages (`BeforeIsByAge`). A list is `WellFormed` at a time if its entries are
typed, their ages in the window and not decreasing, and its ids unique. Removals and insertions keep
that; with room, an insertion adds the entry, takes out the one of its id and counts up by one
(`InsertWithRoom`), which is what the users of the queue need.

- `TimedQueue_proofs`: `TypeCorrect`, `StaysInWindow`, `AlwaysSorted`, `AtMostOnePerId` from
  `WellFormed`; `FullEvictsOnlyLatest` of the steps from such a state: taking out what was just linked
  in gives back the list it was linked into (`RemoveUndoesInsert`), which is the old one without the entry of the
  same id or without its tail, and in the second case the new entry is not after the tail.
- `TaskQueue_proofs`: the invariant says that there are two sequences of nodes, s and f, without a common node and
  with all nodes between them, such that head, tail and the links both ways are those of s, and the
  free list is f (`Lists`). Each private helper of the class has a lemma that says what it makes of s and f
  (`UnlinkChain`, `FreeNodeChains`, `AllocNodeChains`, `LinkBeforeChain`, ...), the walk of `insertSorted()` one that
  it stops at `Place` (`WalkFinds`). From these, `Removed`, `Popped` and the insertions on a pool that holds a list
  d give a pool that holds what the operator of `TimedThunks` gives on d; `StepSimulates` is the step of the
  refinement `PoolImplementsQueue`. `TypeCorrect`, `NoLeak` and `BothWays` read the same invariant.
  Together with `TimedQueue_proofs` it makes the C++ list sorted and unique in its ids for every capacity.
- `Tasks_proofs`: `InTimeOrder` adds to the window that the clock moved at most `Lateness` since `loop()` read it:
  what was due then is due now (`DueAtEntryIsDue`, false outside the window). `LastRequestQueued` counts: entries
  with an id are at most `Cardinality(Ids)`, the others at most `MaxOneShots`.
- `PeriodicTask_proofs`: `NextRunInTime` rests on `NextMsecIsNext`, arithmetic of the multiples of the
  period on a clock that wraps; the invariant bounds how far back the anchor lies. `ChainNotDoubledOrCut` needs
  that every entry is the run or a one-shot task.
- `Relay_proofs`: `TimerAlwaysQueued` from an invariant on the queue alone: a request for a time has its timer also
  while the relay is off, and there is one timer more than the bound while `turnOff()` runs its callback.

Three of these modules define a condition `Room`, and their theorems read "Room implies ...": there is one
node more than the entries that the bounds allow (in `PeriodicTask`, also a period that is not 0: with period 0 `cycle()` runs
once and queues nothing). This is not for convenience. The run
`tasks_full` shows that `RequestsHonoured` is false without a spare node, and a timer or a run
that a full queue refuses is lost. The `cfg` of each passing run satisfies it.

### Start-up

`ModuleSystem_proofs`: the search is a stack that is a path of requirements without a repetition; every edge before
the one at which a frame waits leads to a sorted module, or to the next frame (`EdgesFollowed`); a
module is sorted after all it requires (`RequiredBefore`). That is kept by following an edge, finishing a visit and
starting another one (`SearchKeepsBooks`). A module found on the stack closes a circle, which is a set of
modules none of which could come first (`CircleIsUnsound`); a complete order refutes such a set, by taking the
module of it that comes first (`OrderIsSound`): hence `FailureIsReal`, in both directions. `RequirementsFirst`: what has
run is a first part of the order. `Modules` is any finite set.

### The other parts (`Parts_proofs`)

| theorem | inductive invariant, and why the property needs it |
|---|---|
| `BitesOnlyStuckLoops` | `FedInTime`: how long the timer was not fed is bounded by the time since `update()` was queued and the time it could have run |
| `FlashesAsAsked` | `FlashesAddUp`: the flashes made and those owed add up to what was asked for |
| `NoMotionLost` | the property, with: callback and interrupt are set by the same call |
| `AverageOfRecent` | `KeepsLast`, of the live and of the saved window: the slots, by the count modulo the size, hold the last samples |
| `RingHoldsSequence` | `Holds`: the element at each index, modulo the capacity from the first, is that of the sequence; a lemma per operation, with the shift of each half |
| `WhatWasSentIsRead` | `Places`: offsets at which the accepted messages lie, each the next multiple of four bytes behind the one before; the reader's offsets are those (`OffsetsArePlaces`) |
| `SplitAtSpaces` | `Splitting`: what lies between the start of the line and the index: no newline, no space behind the remembered one, and the remembered one in reach unless it is the first |
| `SavedIsRestored`, `UneditedFormKept` | `SettingsInv`: what the form left and nobody changed is what the variables are, the document under way holds what these convert to, and what must be there is what the file converts back to; with the round trips `JsonRoundTrip`, `FormRoundTrip` for each kind of variable |
| `ViewIsTrue`, `WifiTypeCorrect` | `WifiInv`: the last that was reported, handled or not, is the state of the link, unless it found the queue full (`NewsOfLink`); whatever else is refused leaves a retry or nothing queued, which says of the link the same; the driver is one event further ahead only after a call that a client repeats only after it was connected again (`OneMoreEvent`) |
| `MdnsRetryQueued` | `WifiMdnsInv`, the property with the invariant of the manager that calls it |
| `NetTypeCorrect`, `DiscoveryRunQueued` | `NetInv`: the counts of the queue fit, and a run of discovery is queued or was refused; each outcome of a run leads to another one or to the end (`OutcomesGoOn`) |

Assumptions on the constants, beyond their types: windows and sizes are not 0; `Update + LoopTime < Timeout`
(`WatchdogAssumption`), a loop that is not stuck feeds the watchdog in time; buffers are smaller than the modulus of the sizes
(`PacketAssumption`), 16 bits on a device; lines of `split()` are of at least 4 by its own early return; the values of
variables and JSON numbers are those that the model's texts spell (`SettingsAssumption`), so the round trips are proved of
any group of variables of these values, not of every number. Sequences of calls are of any length: where an
action is guarded by a bound, that bound is a constant too.

### Only model-checked

The nine liveness properties: `LoopReturns`, `OneShotsRun`, `InterruptServed`, `RunsForEver`, `TimedOnEnds`, `SetupEnds`,
`RecoversByItself`, `ComesBackOnline` and `DiscoveryCompletes`. They need fairness and ENABLED, which are out of the prover's
reach. What they rest on is mostly proved: that a run, a timer or a retry is always queued
(`OneRunQueued`, `OffTimerQueued`, `DiscoveryGoesOn`), that it is not early and in order, and that what is not
yet due stays in the window.

## Plan

The modules were written with the most important behaviour first: the queue (abstract, then concrete), the loop
that runs it, its users, start-up, WiFi, MQTT with discovery, settings, data structures, the LED and the motion
sensor; then the proofs in the same order. What could come next:

1. Safety halves of the liveness properties, as invariants with theorems: `loop()` runs only what was queued when it
   began or is due by its reading of the clock (`LoopReturns`); in the client's view, the connection has a way back
   queued or under way (`ComesBackOnline`).
2. Refinements of small abstract specifications: a periodic task as "one run per period", a relay as
   "on until".
3. Lemmas about values beyond those the texts spell, for the conversions of `Variables`.

## Not modelled, and why

Web pages, HTML, ArduinoOTA, logging and the sensor drivers are I/O or text. PID and the kernel weights are floating
point. `AppStatus` and `WifiMonitor` are chains that queue themselves again and publish what they read. Data races of the
ESP32's second core (an event handler that changes the queue while the loop walks it, a torn `s_run_next`, the
handlers of the MQTT client next to the loop) are below the level of the models, which take each call of the
queue, and each handler of the client, as one step, as `noInterrupts()` intends. The ESP8266 variants of
`WifiManager` are left out. `SortedRing::insert(t, index)` and the reads past the end named above are
undefined behaviour; the models stop short of them. The mode of `MqttManager` stays Home
Assistant: its change at run time only ends the discovery chain.
