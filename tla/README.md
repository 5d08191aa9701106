# go2_ws — a TLA+ model of the Go2 navigation workspace

This directory holds TLA+ modules that model the workspace's own code, the TLC
configurations that model-check them on small instances, and TLAPS proofs of
what holds for every instance. Paths below are relative to the repository; the
lidar driver is `src/hesai_ros_driver_2`, its SDK
`src/hesai_ros_driver_2/src/driver/HesaiLidar_SDK_2.0`, abbreviated `SDK/`.

    tlc -workers 2 -config MCGo2NavBridge.cfg MCGo2NavBridge     # a run
    tlapm Go2NavBridge_proofs.tla                                # a proof module

`PROJECT.json` lists the components, the runs, which definition models which
lines, the hazards, the findings and the theorems.

## 1. Inventory

The robot runs one launch file (`src/go2_nav_bridge/launch/bringup.launch.py`).
Data flows from left to right:

    hesai driver --/lidar_points--> pointcloud_to_laserscan --/scan--> slam_toolbox --map->odom--> Nav2
    Go2 odometry, lidar IMU --> odom_tf_broadcaster --odom->base_link->base_stabilized-->
    Nav2 --cmd_vel--> go2_nav_bridge --sport_mode_cmd (best effort, depth 1)--> the robot's controller

| component | state it keeps | operations | what is hard | what makes it correct |
|---|---|---|---|---|
| velocity bridge (`bridge_node.cpp`) | stamps of the last command and the last stop, two flags, one mutex, a wall timer | constructor, `cmd_vel_callback`, `watchdog_callback`, `on_shutdown` callback, destructor | two threads, a clock that can be set, `publish()` that throws, a lossy link | the robot never outlives its last command; nothing out of the limits is sent; the stop is repeated; the process ends |
| bridge utilities (`bridge_utils.*`) | none | clamping, sanitising, parameter validation, timer period | NaN and infinity | every input maps into the limits |
| deployment (`bringup.launch.py`) | which process lives | start, respawn | crash between two steps, lost messages | a bound on uncommanded motion over crashes and losses |
| odometry/IMU broadcaster (`odom_tf_broadcaster.cpp`) | filter state, last stamp, resolved mode | `on_odom`, `on_imu` | late, lost and overtaken samples; a mode decided once | the tilt does not drift; no interval is integrated twice; the stabilised frame is fed |
| map-odom broadcaster, scan preprocessor | a transform; none | one timer, one callback | little | not modelled (section 9) |
| blocking ring (`SDK/libhesai/Container`) | ring indices, a mutex, one condition variable | push, pop, timed pop, clear | one condition variable for two kinds of waiters, `notify_one`, spurious wake-ups | it is a bounded buffer; nobody waits for ever |
| receivers (`lidar.cc` ReceiveUdpThread...) | `is_timeout_`, the ring | receive, store | two producers check `full()` outside the lock | a silence is reported once; they end |
| SDK life cycle (`hesai_lidar_sdk.hpp`, `Lidar::Init`, node main) | milestones `init_finish_`, flags, thread pointers | Init, Start, Run, Stop, `~Lidar` | four kinds of threads handed over and joined by unprotected flags | the handover is clean, Start and Stop come back |
| packet pipeline (`Run`, ParserThread, HandleThreads) | the frame, index queues, a count | decode, dispatch, compute, publish, overflow | a count is all that ties a computation to its frame | what is published is computed, and of this frame |
| frame split and loss count (`general_parser.cc`, `udp6_1_parser.cc`) | the last two azimuths, the direction, packets of the frame, the last sequence number | `DecodePacket`, `IsNeedFrameSplit`, `UpdateRotation`, `CalPktLoss` | packets lost, repeated, overtaken; wrap-arounds of azimuth and sequence number; first values that no packet had | a frame is one turn; it begins where the lidar passes the frame's azimuth; losses are counted exactly |
| PTC client (`ptc_client.cc`, `tcp_client.cc`) | a socket, its time-outs, one mutex | connect, query, re-open, close | three threads on one connection; answers late, cut up or cut off; a time-out set after the socket is open | what is taken for an answer is one; queries return |
| logger (`logger.cc`) | a queue, a file, a thread, `exit_` | `Start`, `Stop`, `AddToQueue`, `threadfunc` | shared by all lidars of a process; notifies without the mutex | lines are written in order; `Stop` returns |
| other sources and parsers, GPU, serial | connections | I/O | – | not modelled (section 9) |
| perception and Nav2 | – | – | code outside the repository | not modelled |
| `unitree_ros2`, `allan_variance_ros2`, `drivers/rtl8812au` | – | – | vendored or third-party | not modelled |
| scripts, docker, bags, documents | none | – | – | not modelled |

Interactions: the bridge and the broadcaster are alone in their processes and
talk to the others by topics. Inside the lidar driver the threads share the ring
(`origin_packets_buffer_`), the parser, the milestones, the control connection and
the plain `bool` flags; all lidars of a process share the logger.

## 2. Modules

| module | models | state ↔ code |
|---|---|---|
| `BridgeUtils` | `bridge_utils.cpp/.hpp` | pure operators; a double is an integer or one of `NonFinite` |
| `Go2NavBridge` | `bridge_node.cpp` | `pc` and `sig` are the program counters of main and of the shutdown thread; the members keep their names; a stamp is kept as its age, the only way the code reads it |
| `VelocityGate` | – | abstract: what the bridge promises, without flags, timers or threads |
| `BridgeSystem` | launch file, link, controller | extends `Go2NavBridge` with `link`, `mcu`, `down`; every publication of the bridge is also a write to the link |
| `OdomTfBroadcaster` | `odom_tf_broadcaster.cpp` | one action per path through each callback |
| `Ring` | `ring.cc` | pure operators on `[data, begin, size]`, modulo `N` |
| `BlockingRing` | `blocking_ring.cc` | a step is what happens between two waits; `waiting`, `awake`, `expired` are the condition variable |
| `BoundedBuffer` | – | abstract: a bounded sequence with atomic calls |
| `LidarReceive` | ReceiveUdpThread, ReceiveUdpThreadFaultMessage, `SocketSource::Receive` | `pc` per receiver, over an `INSTANCE` of `BlockingRing` |
| `SdkLifecycle` | node main, `HesaiLidarSdk::Init/Start/Run/Stop`, `Lidar::Init`, `InitSetPtc`, `~Lidar` | extends `LidarReceive`; `init`, `ptc`, `run`, `main` are program counters |
| `LidarPipeline` | `Run`, ParserThread, HandleThread, `ComputeXYZI`, `~Lidar` | a packet is a slot, fresh or not; the decoded ring is a bounded sequence, as `BlockingRing` is shown to be |
| `FrameSplit` | `DecodePacket` of the XT parser as `Run` calls it, `IsNeedFrameSplit`, `UpdateRotation`, `CalPktLoss` | the parser's members keep their names; `position`, `sent`, `held` are the lidar and the network; `at`, `before`, `turns`, `begun`, `newest`, `accepted` are history that the properties compare the code's conclusions with |
| `PtcClient` | `PtcClient`, `TcpClient`, and what `Lidar::Init`, `InitSetPtc`, `Run`, `~Lidar` do with them | `pc` per thread, `opener` is `TryOpen`; `rx` holds the locals of `QueryCommand`; the stream is a sequence of tokens |
| `Logger` | `logger.cc` | `thread` is `threadfunc`, `lidar` where each `Lidar` is between its `Init` and the end of its destructor |
| `MC*` | – | values for TLC; `MCLidarPipeline` also sets `FrameSplit` and `PtcClient`, `MCBlockingRing` also sets `Logger`, to work in casts of their own, while the other parts rest |
| `*_proofs` | – | theorems and proofs |

Compositions: `BridgeSystem` ⊃ `Go2NavBridge` ⊃ `BridgeUtils`;
`SdkLifecycle` ⊃ `LidarReceive` ⊃ `BlockingRing` ⊃ `Ring`.
Refinements: `Go2NavBridge` implements `VelocityGate` (`KeepsGate`: model-checked
and proved), `BlockingRing` implements `BoundedBuffer` (`KeepsPromise`:
model-checked and proved).

Definitions commented "Mutant:" are variants of the definition that follows them,
each with one plausible mistake (a guard dropped, a reset forgotten, an
off-by-one, a swapped order). They take no part in a specification. For every property of every passing run
one of them, put in the place of the original, breaks the property: `PROJECT.json`
says which.

### Abstractions

- **Bridge.** Time is discrete; `Lag` is how late the executor may serve a due
  timer, `Exec` how long a callback may take, and time does not pass beyond
  them: the bounds of the properties are stated in terms of both. The
  watchdog's reading of the clock and of the stamps is one step (main alone
  writes what it compares them with). Values are integers; formatting and
  logging are left out. Of `rclcpp` the model takes that a shutdown first
  invalidates the context and then runs the `on_shutdown` callbacks, and that
  `publish()` on an invalid context sends nothing and does not throw
  (`ContextOk`, `Publish`). SIGINT is the shutdown of the whole launch file,
  which restarts nothing after it, so `Crash` is a death before SIGINT.
- **Broadcaster.** Angles are fixed-point integers; the filter's division rounds down.
  Yaw and position, which are passed through, are left out.
- **Receivers.** What the receivers drop (GPS packets, repeated time-outs,
  errors) leaves no trace and is not a step, and waiting in `while (full())` is
  not either: a receiver that has found room goes to `Store`, where
  `emplace_back` looks again. That gap is what the properties are about.
- **Life cycle.** Parsing is opaque. After `delete lidar_ptr_` what the
  initialisation thread reads may go either way. Spurious wake-ups are checked in
  `BlockingRing` and left out here. NodeManager is taken with one driver. A signal only sets
  `sig_recv`, which main does not look at before `Start` has returned.
- **Frame split.** Azimuths are those of the packets' first blocks on a small
  circle; points and time stamps are left out. The lidar turns one way, by less
  than a turn from one reading to the next but one (`SplitAssumption`,
  `DirectionAssumption`). 32-bit counters wrap at
  `SeqRange`.
- **PTC.** A header is two identifying bytes and a rest, a payload two parts;
  `recv` returns any number of the tokens that have arrived. The bytes of a payload
  never look like the beginning of a header. Waiting for the
  connection is the guard of `Awaited`; time-outs are steps that may happen at any
  moment once they are set. `TcpFlushIn` does nothing, because the flags it passes
  make `recv` fail. The other end answers, refuses, delays or hangs up. TryOpen's
  first lines, up to the address, are one step.
- **Logger.** Only lines for a file are counted; the console and the call-back have
  no state.
- **Pipeline.** XT16 packets all have one size, so a packet accepted once is
  accepted again when it is decoded as the first of the next frame (one that is refused
  the second time is not in the model). A time-out
  packet is refused by the XT parser and does not split a frame.
  `SleepCovers` is the assumption that a computation under way ends within the
  100 µs that `Run` sleeps when it gives a frame up; it is dropped in
  `pipeline_overflow`.

## 3. Runs

| run | expectation | what it shows |
|---|---|---|
| `bridge` | pass | one process with a command that is too fast in two directions and NaN in the third, a `publish()` that throws, a clock set back and forth, SIGINT at any moment: `WithinLimits`; `StopLatency` and `RetryLatency` (how late a stop may be, without and with a failed publication), `NoSpuriousStop` (not early), `Heartbeat` (the topic never falls quiet), `StopFlagTruthful`, the inductive invariant `StopInv`, and `KeepsGate` |
| `bridge_live` | pass | motion ceases after commands do, even if a stop's publication throws; SIGINT ends the process without a deadlock on `state_mutex_` |
| `bridge_shutdown` | violation of `FinalStop` | section 7 |
| `system` | pass | link loss, crash, respawn: `RunawayBound` (until SIGINT, after which nothing is sent), `RespawnStops` |
| `system_downtime` | violation of `WatchdogCoversDowntime` | section 7 |
| `odom_tf` | pass | samples lost, late and overtaken, all modes and firmwares: `DriftBounded`, `IntegrationExact`, `StabilizedFed` |
| `ring` | pass | every kind of caller at once: `KeepsPromise`; the driver's cast of callers: `DriverServed`; in a cast of its own the logger under two lidars: `LoggerServes` |
| `sdk` | pass | initialisation, serving and Stop at any moment, on udp (with and without the fault-message receiver) and pcap: `Handover`, `DeletedUnused`, `SilenceReportedOnce`, `ReceiverNeverSleeps`; `StartReturns` and `StopCompletes` |
| `sdk_fault` | violation of `ReceiveExits` | section 7 |
| `sdk_early` | violation of `StopEndsRun` | section 7 |
| `pipeline` | pass | three casts. *pipeline*: no, two or three handlers, frames that fit and frames given up: `Accounting`, `CompleteMeansParsed`, `FrameCompletes`, `HandlersExit`. *split*: a lidar turning either way, two start azimuths, packets lost, repeated, overtaken: `SplitExact` and `OneTurn` (where frames begin), `DirectionLearnt`, `IndexMatches` (what `Run` queues is what the frame holds), `LossExact`. *ptc*: two programs of queries by three threads: `AnswerTrue` (what is taken for an answer is one), `QueryReturns` |
| `pipeline_overflow` | violation of `CompleteMeansParsed` | section 7 |

The first run of a specification also checks its `TypeOK` (`TypesOK` where a run
has several casts). What `BridgeSystem` adds to `Go2NavBridge` is typed in its
proof module (`SysTypeOK`), where it is proved.

## 4. Bounds, and why they are enough

- **Time.** One unit is 100 ms in the bridge: watchdog 200 ms = 2, timer period 1,
  republishing after 500 ms = 5, `FlushMs` 1. `Lag` and `Exec` are 1, so that a
  timer can be late and a callback can straddle a due time. Ages stop at `Cap`,
  above everything they are compared with. `bridge_live` and `system` shrink
  watchdog or republishing, and do without `Lag`, to keep the graph small; the
  order of the times stays.
  `Horizon` adds to `Cap` where a bound over several processes is checked: the
  age must not saturate below the bound.
- **Faults.** One failed publication, one step of the clock per direction, one
  crash, one lost message in a row: each alone and all together within a run.
  The properties' bounds are linear in these numbers, and the theorems hold for
  all of them.
- **Messages.** One Twist that exercises both clamps and the sanitiser (`bridge`),
  one to stand and one to move (`bridge_live`); queue depth 1 shows the
  overwriting that depth 10 does later.
- **Broadcaster.** Stamps to 6 with `MaxDt` 2 have gaps, overlaps and several
  restarts; two samples in flight overtake each other.
- **Ring and receivers.** `N` = 2: full, empty, one left (the case of the race
  between two producers) and wrap-around all happen.
- **Logger.** Two lidars, with and without a file each, and three lines: the logger
  is stopped while the other lidar still uses it, and started again.
- **Frame split.** A circle of 13 azimuths and steps of 2: the lidar never meets
  the same azimuths in the next turn, wraps around at different places, and hits the
  frame's azimuth exactly in some turns and passes it in others. Thirteen is the
  least that `DirectionAssumption` allows with two losses and a packet held up. 13 packets are
  two turns; two losses in a row are the most that leaves what lies between a
  reading and the next but one below a turn. `MaxFramePackets` = 8 lets a frame be too long, which drops it. `SeqRange` = 8
  wraps within a run, also across a loss. `RotationLimit` = 5 cuts the sum of votes down.
- **PTC.** Two programs: the settings made while the correction is read, and the
  queries about PTP while it is. One connection beyond the first, one hang-up.
- **Pipeline.** Four packets per frame, more than handlers (3): indices queue up
  behind each other, and the turn wraps. `kPacketBufferSize` (8000) exceeds
  `maxPacketPerFrame` (2000), so the lists of the handlers never lose an index
  in the code; `BufferSize` ≥ `MaxPackets` keeps that.

## 5. Fairness

- **Bridge.** The operating system runs both threads (weak fairness of the steps
  inside callbacks); `rclcpp`'s executor looks at timers before subscriptions, so
  a due watchdog is not starved by commands (strong fairness of `WdBegin`,
  `CmdBegin`, because each disables the other meanwhile); the mutex is
  eventually granted (strong fairness of `SendStopPublish`); time passes.
- **Ring.** The mutex is granted, `wait_for` ends, and consumers call again, as
  the loops of `Run` and ParserThread do. No producer is obliged to produce.
- **Life cycle.** Each thread is scheduled, `select` and `wait_for` return, time passes. Not assumed:
  that the lidar sends, that PTC connects, that anybody presses Ctrl-C; nor that
  the initialisation thread proceeds on a lidar that has been deleted.
- **Pipeline.** Each thread is scheduled. Not assumed: that the lidar sends, or
  that Stop is called.
- **PTC.** The threads of the driver are scheduled, and time-outs that are set expire. The
  lidar owes nothing: no packet, no connection, no answer. That is why `QueryReturns`
  excepts a thread that stays in a `recv` without a time-out (section 7).
- **Logger.** Its thread and a `Stop` under way are scheduled, the mutex is
  granted. Nobody is obliged to log, to start or to stop.

## 6. Proofs

`tlapm` checks, for every value of the constants that the named assumptions
allow, every safety invariant and every action property of the passing runs, and
both refinements. `PROJECT.json` says which theorem states which property.
Assumptions are of two kinds: `ASSUME`s of a module, and, where a module is only
instantiated or a theorem needs more than the runs do, definitions that stand as a
hypothesis of the theorem. `MCLidarPipeline` and `MCBlockingRing` assert the
former of the values their runs use, so TLC evaluates them.

- **`Go2NavBridge_proofs`.** `TypeCorrect`; `LimitsKept` (from
  `ClampedWithinLimit`: sanitising and clamping map every double into the limits);
  `StopInvariant`, from which follow `StopLatencyHolds` and `StopFlagHolds`;
  `NoSpuriousStopHolds`, `HeartbeatHolds`, `RetryLatencyHolds`; and
  `BridgeKeepsGate`, the refinement.
  `StopLatency` is not inductive: that a moving robot's last command is young
  says nothing of when the timer will look. `StopInv` adds (1) `ClockInv`, the
  age the code sees is at least the true one less what the clock was set back;
  (2) `FlagInv`, a stop flag or the absence of a first command implies standing
  still, so the watchdog cannot decide wrongly to do nothing; (3) `AgeInv`, while
  moving, *age + time until the timer is due* is bounded by timeout + period, so that
  the call of the timer that finds the command too old comes in time. `Heartbeat` and
  `RetryLatency` are proved by the same kind of account, of the time since the
  last message and of the time since the last stop that was stamped.
- **`BridgeSystem_proofs`.** `SysTypeCorrect`; `RespawnStopsHolds`;
  `RunawayBounded`. The bound is a sum of costs, one per message that the link may
  still lose, per failed publication and per crash. `RunInv` says how much of it has
  been spent: while a robot without a command moves, the age of its command is
  within what the losses, failures and crashes so far allow, in each place where the
  process can be; `FlightInv` treats the stop that is on the link already. The
  account, like the property, ends with SIGINT (`Undisturbed`): after it
  `publish()` sends nothing, and nothing bounds the motion (finding 1).
- **`OdomTfBroadcaster_proofs`.** `TypeCorrect`; `DriftStaysBounded`: the
  estimate never leaves `MaxTilt + cf_tau * MaxRate` (`BlendBounded`: one step of
  the filter maps that interval into itself, whatever dt, rate and
  acceleration; a nonlinear argument split into `ScaleKeepsOrder`,
  `ScaleReflectsOrder` and `QuotientBounded`); `IntegrationIsExact`;
  `LevelFrameFed`.
- **`BlockingRing_proofs`.** One lemma per method of `Ring` says what it does to
  `Contents` (`EmplaceBackAppends`, `PopFrontTakesHead`, ...), over indices that
  wrap around (`WrapsOnce`, `SlotsDiffer`). From them `RingKeepsPromise`: a
  step that performs a call is a step of `BoundedBuffer`, one that waits, wakes or
  times out is none. `RingInv` adds to `TypeOK` that only a timed pop expires.
  `TypesHold` is for the run with all three casts, and so for the logger too: its mutex is
  taken exactly by a `Lidar` that is in `Stop`, and its thread runs only while
  `running_` is set.
- **`SdkLifecycle_proofs`.** `TypeCorrect`, `HandoverHolds`, `NoUseAfterStop`,
  `ReceiverAwake`, `OneReportPerSilence`, all from `LifeInv`, whose parts are
  `MilestoneInv` (which milestones have been reached in each place of the
  initialisation and of `Run`; `Handover` follows), `JoinedInv` (a thread that
  main has joined has exited; `DeletedUnused` follows), `RoomInv` (a receiver that is
  alone and has seen room still finds it, because only others take items out) and
  `SilenceInv` (two time-out packets in the buffer have a point cloud between
  them, and if `is_timeout_` is not set, one comes after the last). The ring's
  books are those of `BlockingRing_proofs`, used through `INSTANCE`.
- **`LidarPipeline_proofs`.** `TypeCorrect`; `AccountingHolds` and
  `CompletionMeansParsed`, from `RoomAndTime`: a handler's list holds a frame (8000
  against 2000 in the code), and either no frame is given up or what is then being
  computed ends within the 100 µs of `Run`. Without the latter the property fails: that is
  finding 5. `CountInv` is the account of indices (queued = computed +
  on their way) and says in which places of `Run` nothing is on its way;
  `SlotInv` says that what is on its way is of this frame, and that every slot whose
  index has been queued is computed or on its way; so when the count reaches the
  number of packets nothing is on its way, and each slot has been computed.
- **`FrameSplit_proofs`.** From `SplitAssumption`, `CountAssumption` and
  `DirectionAssumption`: `SplitIsExact`, `FrameHasOneTurn`, `IndexIsMatched`,
  `LossIsExact`, `DirectionIsLearnt`. The heart is `ThreeReadings`,
  arithmetic over azimuths that wrap around: of three readings in order the lesser
  difference does not wrap, so it votes for the true direction, and the test of
  `IsNeedFrameSplit` holds exactly if a new turn has begun. `HistoryOK` says that the
  azimuths remembered are those of the last two places read; it makes
  `SplitIsExact` a property of one step. `OneTurn` is not inductive: `TurnOK` adds
  that the last packet decoded is where the lidar is, that the last two places are
  less than a turn apart in the order the lidar went through them, and that a
  frame that began in order knows the direction (`StaysLearnt`: right votes never turn
  the sum over, also where it is cut down); then the next packet is in order too
  (`ArriveTurn`), and a repeated one splits nothing (`DecodedAgain`).
  `LossExact` rests on the gap between two numbers being less than a round of them;
  `DirectionLearnt` on a count of the votes: each overtaken packet turns at
  most two, and each reading in order makes up for one.
- **`PtcClient_proofs`.** From `PtcAssumption` (the bounds are numbers and no program
  makes the same setting twice, which the driver does not): `TypeCorrect` and
  `AnswersAreTrue`. The stream between the two ends is a sequence of tokens. `StreamInv`
  says that it consists of whole answers, but that the first may have lost its
  beginning to a reader and the last its end to a hang-up; `HeaderInv` and `BodyInv`
  that what a reader has taken of its answer continues in the stream, and that its
  locals say where. So a header that names the command begins an answer to
  that command, and the body that follows is that answer's.

`FrameSplit` and `PtcClient` work in casts of the run `pipeline`. The end of
`LidarPipeline_proofs` carries their theorems over to `MCSpec`, the specification
that TLC checks: in each cast the steps are those of its part, while the others stay as
they are (`SplitOrRest`, `ClientOrRest`, `PipelineOrRest`). `BlockingRing_proofs`
does the same for the run `ring`.

What the attempts at a proof showed to be wrong has been corrected. The bounds in
`Heartbeat`, `RetryLatency` and `RunawayBound` held for the constants of the runs,
and not for all: a stop is stamped some time after it has gone out, and
republishing counts from the stamp, so `Exec` is paid twice; the cost of a loss
contains that delay. And `DirectionLearnt` needs the cut of the sum of votes to leave more
than twice what is overtaken: with a limit of 5 halved, two packets overtaken
turn the sum over right after it has been cut, and TLC shows it. The code's 1024
divided by 128 leaves 8, which up to three overtaken packets cannot outvote.

Only model-checked: the liveness properties (`EventuallyStopped`,
`ShutdownCompletes`, `DriverServed`, `LoggerServes`, `StartReturns`,
`StopCompletes`, `FrameCompletes`, `HandlersExit`, `QueryReturns`). Liveness under
fairness, `ENABLED`, and induction over data or recursive operators are
outside what the installed provers do.

## 7. Findings

1. **The final stop is never sent** (`bridge_shutdown`). `rclcpp` invalidates the
   context before it runs the `on_shutdown` callbacks, so `publish()` in
   `send_stop()` sends nothing, and neither does the destructor's: a robot in
   motion when SIGINT comes is left with its last command, and the 50 ms "to
   flush the stop command" wait for nothing.
2. **Nothing stops the robot during downtime** (`system_downtime`). The design
   document says the watchdog covers it; the watchdog dies with the process.
   `RunawayBound` is what holds.
3. **A receiver can be caught in `emplace_back`** (`sdk_fault`). With two
   producers, `full()` followed by `emplace_back` is not atomic; once Run is gone
   the push waits without looking at `running_`, and Stop never returns. With the
   udp receiver alone it cannot happen (`ReceiverNeverSleeps`).
4. **An early Stop is lost** (`sdk_early`). `Run` sets `is_thread_runing_` itself;
   Ctrl-C during the wait of `Start` makes main call Stop as soon as the thread
   has been created.
5. **A frame can be published before it is computed** (`pipeline_overflow`). After a
   frame is given up, a computation that takes longer than 100 µs is counted in
   the next.

Met while modelling, without a run of their own (each is a hazard of
`PROJECT.json`, and a precondition of a property names it):

- `InitSetPtc` can lose its race with the initialisation, so that the configured
  speed is never set (`lidar.cc:299`).
- `StopCompletes` has as a precondition that Run has begun: without it, finding 4.
- `notify_all` in `~Lidar` comes without the handlers' mutexes (`lidar.cc:83`): one
  that is between its test and its wait misses it and is joined for ever. `HandlersExit`
  excepts it.
- On udp `Stop` deletes the lidar before it joins the initialisation thread, which may
  still be using it (`hesai_lidar_sdk.hpp:188`): the exception in `DeletedUnused`.
- With `recv_point_cloud_timeout` at the node's default of -1, `Start` does not come
  back from a silent lidar (`config.yaml:18`): `StartReturns` is about the others.
- `IsNeedFrameSplit` says that the first two packets are not compared, "The initial
  value of last_azimuth_ is -1" (`general_parser.cc:283`); the constructor sets it
  to 0 (`general_parser.cc:49`), and they are. `DirectionLearnt` says when this is made up for.
- `TcpFlushIn` flushes nothing (`ptc_client.cc:207`): 0xFF as flags holds `MSG_OOB`.
  What protects a query from the answer to an earlier one is only that the header
  names the command. For a command that is repeated `AnswerTrue` therefore
  promises an answer to *a* query of this command, not to this one.
- A query that comes between `TryOpen`'s connect and `SetTimeout`, or that opens the
  connection again, may wait in `recv` for ever, and everyone behind the mutex with
  it (`ptc_client.cc:150`, `:214`): the exception in `QueryReturns`.
- The logger's `Stop` notifies without the mutex (`logger.cc:90`) and can miss the
  thread, which it then joins; and `exit_` is never reset, so a logger started
  again writes nothing. With the node's default, a log to the console, the thread
  ends at once and neither matters.

## 8. Plan

Done: all modules, and a theorem for every safety invariant and action property
of the passing runs. Left, in this order:

1. The logger: that lines are written in the order of the calls (the safety half of
   `LoggerServes`), as an invariant with a theorem.
2. `LidarReceive` with both receivers: what of `ReceiverNeverSleeps` remains, that
   at most one of the two is caught at a time.
3. `PtcClient` without `PtcAssumption`: which of several orders of one setting an
   answer may belong to.
4. `FrameSplit` from the weakest bound on what is overtaken under which the direction
   is learnt.

## 9. Not modelled, and why

- TCP, serial and rosbag sources, the parsers of other lidars and
  the CUDA path: not on the path of the vehicle's XT16, or I/O. Of the PTC client,
  the SSL variant, the firmware upgrade and commands no caller in the driver
  issues. `SetThreadNum` on a running lidar, and recording to pcap: no caller in
  the workspace reaches them.
- Of the parser, the loss of packets by time stamp (`CalPktTimeLoss`, which the
  node's configuration leaves off) and the one-second window of the loss log.
- `map_odom_broadcaster.cpp`, `scan_preprocessor.cpp`: not started by the launch
  files. One sends a stored transform again, the other copies the points of some
  rings; a model would state their few assignments a second time.
- The age of a command when it leaves the bridge's queue: a `Twist` has no stamp, so
  the code cannot know it; silence is counted from the callback, as in the code.
- `source_driver_ros2.hpp`: copies a frame to a message.
- `pointcloud_to_laserscan`, `slam_toolbox`, Nav2: not in the repository.
- `unitree_ros2`, `allan_variance_ros2`, `drivers/rtl8812au`: vendored; the
  robot's controller appears in `BridgeSystem` as one that executes the last command
  that reached it.
- Values that only pass through: a missing correction file, which no longer keeps
  packets from being parsed (`udp_parser.cc:390`), changes coordinates only; an
  all-zero quaternion is forwarded as base_link's rotation (`odom_tf_broadcaster.cpp:99`).
  A logger whose thread started without a file queues the lines of a second lidar
  for ever (`logger.cc:178`); `LoggerServes` speaks of one that has its file.
- Data races on plain containers (`ClearPacketBuffer` on the handlers' lists):
  listed as a hazard; the model clears in one step.
