# A TLA+ model of the SEADS energy monitor

SEADS measures the power a household draws and shows it on a web page.  A
meter (a PIC32 with an ADC) computes a wattage per window and prints it as an
NMEA-like sentence, `$SEDAT,<wattage>,<time>*<checksum>`, on a serial line.  A
Wi-Fi module (an ESP8266) reads the sentences, keeps the samples in a ring and
posts them to a Django server, which accounts for energy and cost and stores
the points in InfluxDB.  A second line of meters streams raw samples to a
BeagleBone instead.

This directory models the Wi-Fi firmware
(`src/ESP8266/ESP8266_SDK/sead_wifi_PROJECT/user`) with its embedded web
server, the acquisition of both meter firmwares
(`src/Hardware/PIC32 Based Hardware/DAQ/ADC Driver Code`) and the start of
meter and Wi-Fi module together, the program on the BeagleBone
(`src/Hardware/BeagleBone`), and the part of the web stack that changes what is
kept about a device (`src/Web Stack/microdata`, with the requests and commands
of `webapp` that do).  `TLC` checks small instances; `tlapm` proves the main
safety properties for every value of the constants.

## Inventory

| Part | State it keeps | Operations | Talks to | Hard behaviour |
|---|---|---|---|---|
| Receiver (`uart.c`, `send_recv_port.c`, `buffers.c`) | UART FIFO and flags, two task queues, `user_state`, `storing`, two message buffers | interrupt handler, receive task, one character of the state machine, store task | meter by UART, send ring | interrupt against task, characters arriving between any two turns of the loop, hand-over between two tasks, full buffers |
| Send ring (`buffers.c`) | `head`, `tail`, `count`, 200 slots | push, pop, size | store task pushes, uplink pops | full ring, wrap-around, 16-bit count read as 8 bits |
| Uplink (`http_request.c`, timer of `send_recv_port.c`) | `config`, `sending`, `connect_try`, `create_device`, `serv_conn` | timer, request logic, five connection callbacks, resolver callback | ring, resolver, TCP, server | late and overlapping callbacks, ignored results, retries without acknowledgement, restart into the other mode |
| Provisioning (`cgiwifi.c`) | scan flag and results, mode in flash | scan, connect, set mode, reset timer | embedded server, station | scan callback against page requests, restart |
| Embedded server (`httpd.c`, `httpdespfs.c`) | six connection slots, header and post buffers, open files | connect, receive, sent, disconnect callbacks | pages | pool at its limit, callbacks that do not name their connection |
| Sentences (`nmea0183.c`, `extralib.c`) | none | `check`, `process_message`, conversions | receiver | missing checksum, missing comma, widths |
| Meter, power variant (`SEAD_DAQ_v2.0c_Power`) | two DMA buffers, configuration flags | six DMA interrupt handlers, main loop | ADC, Wi-Fi module | handlers against main loop, handshake at start, buffers turning over |
| Meter, bandwidth variant (`SEAD_DAQ_v2_Bandwidth`) | the same | the same, raw samples to a FIFO | BeagleBone | the same |
| Acquire (BeagleBone `main.c`) | two buffers with running totals, current file | reader, writer and rotation threads | meter, files | three threads without a lock |
| REST API (`microdata`) | devices, accumulators, tiers, series | create, edit and delete devices, post events | Wi-Fi module, InfluxDB | lost updates, swallowed exceptions |
| Cron commands | accumulators, archive | reset, archive, mail | models, Glacier | a crash between deletion and upload, reset against events |
| User pages (`webapp/views.py`, `microdata/views.py`) | devices, settings | pair, edit, remove, settings | models, InfluxDB | the whole row saved over another request's change, removal in several steps |
| Dashboard, older firmwares, F28377D sampler, SDK, vendored code | - | - | - | not the subject |

What makes each part correct:

- Receiver: a wake-up is never lost or doubled; a message that passed the
  check is stored once, in order, and untouched by what arrives after it; no
  remains of one message are in front of the next; nothing waits for ever.
- Send ring: a queue of bounded length that drops its oldest entry.
- Uplink: no point is in the ring and under way, or in two requests, at once;
  requests go to the connection that is up; a device with a network is configured, registered and sending; one without
  becomes an access point.
- Provisioning and embedded server: a slot belongs to one connection and is
  given back once; a scan that was started is reported.
- Sentences: `check` accepts what `create_message` of the meter produces and
  nothing with a wrong checksum.
- Meter: a message or a frame speaks of one whole window and of every window
  once, although samples, checksum and computation go on at the same time; the
  checksum is of the samples it is appended to; the handshake with the Wi-Fi
  module ends.
- Acquire: no read runs past its buffer; every block is written once, whole
  and in order.
- REST API and commands: accumulators are sums of what was posted since the
  last reset, and agree with the tier while its limits stay; a device keeps its
  queries, and its owner until it is removed or an edit names another; a point
  is in the database or in the archive.

## Modules

| Module | What it is |
|---|---|
| `LossyFifo` | Abstract: a bounded queue where a new entry displaces the oldest one. |
| `SendRing` | The send ring as `buffers.c` keeps it: slots, `head`, `tail`, `count`. |
| `MessageStore` | Abstract: what the receiver promises the uplink - one accepted message waits at a time and becomes one sample. |
| `SendRecvPort` | The receiver, with `SendRing` as its ring. |
| `SendRecvPort_proofs` | Theorems about `SendRing`, then about `SendRecvPort`. |
| `Uplink` | Timer, requests, callbacks and modes, with a `LossyFifo` as its ring, and the network and server around it. |
| `WindowReports` | Abstract: what a meter promises - every window reported once, by itself, in order, before the next is complete. |
| `DaqBuffers` | The double buffer both meters have: acquisition, checksum, `currentBuffer`. |
| `DaqPower` | The power variant: `DaqBuffers` with the main loop and its messages. |
| `DaqBandwidth` | The bandwidth variant: `DaqBuffers` with the transfer to the parallel port. |
| `DaqPower_proofs`, `DaqBandwidth_proofs` | Theorems about the two. |
| `Uplink_proofs` | Theorems about `Uplink`. |
| `Handshake` | The start of meter and Wi-Fi module, joined by the serial line, either of which may start again. |
| `HttpdPool` | The connection slots of the embedded server, the callbacks and the page functions they drive. |
| `Provisioning_proofs` | Theorems about the two: both are at work until a device reports. |
| `Acquire`, `Acquire_proofs` | The threads of the program on the BeagleBone, and theorems. |
| `TierAccounting`, `TierAccounting_proofs` | Counters, cost and tier of one device under concurrent requests, job and page, and theorems. |
| `DeviceRegistry`, `DeviceRegistry_proofs` | Registration, events, pairing, editing, removal and archive of several devices, and theorems. |
| `MC...` | Instances for TLC. |

`SendRecvPort` extends `SendRing`, the ring it pushes to, and INSTANCEs
`MessageStore` for what it implements; both `SendRing` and `MessageStore`
INSTANCE `LossyFifo`.
`Uplink` uses `LossyFifo` in place of the ring: `RingImplementsFifo` is the
theorem that lets it.  The receiver in turn sees of the uplink only that it
pops (`UplinkPop`), and the uplink of the receiver only that samples are
pushed (`Produce`).  `DaqPower` and `DaqBandwidth` extend `DaqBuffers` and
INSTANCE `WindowReports` for what they implement.  `Handshake` composes the
two firmwares where they meet: its Wi-Fi module is the one of `Uplink` reduced
to what it prints, its meter ends where `DaqBuffers` begins.  `TierAccounting`
and `DeviceRegistry` are two views of the same table: one device with its
numbers, several with their rows.  What `Uplink` sees of them is `Answer`.

Operators named `mut_...` are broken variants of the definition that follows
them.  They are used by nothing; each shows that some property would notice
that fault.

### `SendRing` and the code

`slots`, `head`, `tail` and `count` are the fields of `circular_send_buffer_t`.
A slot keeps its value after a pop, as in C.  `PushFree` and `PushFull` are the
two branches of `push_send_buffer`; `pop_pop_buffer` on an empty ring changes
nothing and is a stutter.  `size_send_buffer` keeps its `uint8_t` width as
`SizeModulus`, with the assumption `Capacity < SizeModulus` (200 < 256) that
the code needs.  Tasks of the ESP8266 scheduler do not preempt each other and
the interrupt handler does not touch the ring, so each function is one step.

### `SendRecvPort` and the code

| Code | Model |
|---|---|
| characters arriving, flow control | `Arrive`, guarded by `FifoDepth` |
| `UART_RXFIFO_FULL_INT_ST`, `UART_RXFIFO_TOUT_INT_ST` | `fullInt`, `toutInt`, raised by `RaiseFull`, `RaiseTout` |
| `ETS_UART_INTR_DISABLE/ENABLE` | `uartIntr` |
| `uart0_rx_intr_handler` | action of the same name |
| `system_os_post` | `Post`: refused when the queue is full; the code never looks |
| `recv_message` | `StartRecv`, one `RecvChar` per turn of its loop, `LoopEnds` when it finds the FIFO empty, `ClearFlag`, and `RecvDone`, which unmasks the interrupt; `recv` is the place |
| `send_recv_store_fsm`, `case_*` | operators of the same names |
| `uart_buffer1/2`, `uart_buffer` | `text[1]`, `text[2]`, `current` |
| `put_buffer`, `reset_buffer`, `swap_buffer` | `put_buffer`, `reset_buffer`, `swap_reset_buffer` |
| `check(buffer, false)` | the constant `Check` |
| `process_message` | the constants `Fields` and `Sample`; it writes to the slot only when it succeeds |
| `store_send_message` | action of the same name |

`recv_message` is the one function that takes several steps, because characters
and flags arrive while it runs: between two turns of its loop, between the test
that finds the FIFO empty and the clearing of the flag, and between that and
the unmasking.  A flag cleared there may be the one of a character the loop has
not seen.  The hardware raises FULL again as long as the FIFO holds that much.
It need not raise TOUT again without another character (`timedOut`): nothing in
the repository says that it would.  The array after the text of a buffer is not
modelled; the NUL that ends it is, where it matters: at the last index it is
the byte behind the array, `buff_size`.  Framing errors only print.

The SDK runs the task with the highest priority number first, so the receive
task (0) starts only when the store task (1) has no event (`StartRecv`), and
neither runs while the other does.  The comments at `send_recv_port.c:321` and
`:324` call the receive task the one of higher priority; the model follows the
numbers that the code passes.  The uplink's timer runs
between tasks.

### `Uplink` and the code

| Code | Model |
|---|---|
| `send_timer_cb`, `send_http_request`, `network_start`, `package_send`, `post_device`, `get_config` | operators of the same names; `WithAddress`, `WithoutAddress` and `FallBack` are the three outcomes of `send_http_request` in station mode |
| `networkServerFoundCb`, `networkConnectedCb`, `networkSentCb`, `networkRecvCb` | actions of the same names |
| `networkReconCb`, `networkDisconCb` | `ConnectionLost` |
| `wifi_set_opmode` and `system_restart` | `RestartIn` |
| `resetTimerCb`, `cgiWifiSetMode` | actions of the same names |
| `serv_conn.state` | `state`; what the connection really is, is `link` |
| `espconn_gethostbyname` | `lookups` outstanding, and `cached`: a name at hand is answered by the return value (`espconn.h`), which the code does not use |
| `espconn_sent` | takes the request or refuses it; the code does not look |
| event, device and settings API of the server | `ServerReply`, with `Answer` for the status |

`known` stands for the row of the device at the server, whose whole life is
`DeviceRegistry`.  A creation is answered 201 also when the device exists
(`views.py:75`): the row is written anew.

A tick in which the timer callback finds nothing to do is a stutter.  `sending`
is set and cleared within one tick in the code as it is; it is kept because the
mutants show what it would take for it to stay set.  The period and the clock
offset in a 200 answer, and the text of all requests, are left out.

### `DaqBuffers`, `DaqPower`, `DaqBandwidth` and the code

| Code | Model |
|---|---|
| `CNInterrupt` and DMA channel 2 | `SampleArrives`: a sample is clocked out and stored |
| `StartSPIAcquisition`, `DMA_CRC_Calc` | operators of the same names |
| `DmaHandler2` | action of the same name, `BufferFull` for what the variants share |
| DMA channel 4 | `CrcCell`, one sample at a time |
| `DmaHandler4` | action of the same name, `ChecksumReady` for what the variants share |
| `main` and `ComputeBuffer` (power) | `PollBuffer`, the turns of `SB_RMS`, `SendMessage`, `destroy_message` |
| DMA channels 3 and 5, `DmaHandler3`, `DmaHandler5` | `TransferDone` (power); `PmpCell`, `PmpTrailer` (bandwidth) |

The value of a sample is the label of the window it was taken in.  A checksum,
a sum or a frame is then the set of labels that went into it, and "of one
window" is a statement about that set.  All channels and `main` run beside each
other, so each moves by one sample at a time; the interrupt handlers have one
priority and are short against the time of a sample, so each is one step.

`Finished` is the one assumption about time.  The last sample of a window comes
only when the work on the window before is done: a window lasts from about 8 ms
to a second, depending on the oversampling ratio; the work takes a few
milliseconds (a pass over 976 samples, a checksum by DMA, a short line at the
speed of the serial port).  The code has nothing that would enforce it: there
is no flag that holds the acquisition back, and `bufferFull` and `txStarted` of
`SampleBuffer` are never used.  The properties and theorems of both variants
rest on this assumption.  All of the interleaving before that last sample
is free.

Also left out are the millisecond counter in the message, and `strdup`
returning NULL.

### `Handshake` and the code

| Code | Model |
|---|---|
| `ADCModuleBoard_Init` (`ADCModuleBoard.c`) | `pc`: `BufferToUART_Init`, `StartReceiving`, `INTEnableInterrupts`, `SetReadyForConfigure`, `GetConfig`, `MCP391x_Init`, `StartSPIAcquisition` |
| `config` of `ADCModuleBoard_Init`, `config0Reg.OSR` of `MCP391x_Init` | `number`, `OSR` |
| receive channel until a newline, `DMAStartUARTRX` | `channel`, `dmaBuff`, `Transfer` |
| its `BLOCK_DONE` event and interrupt flag | `due` |
| `DmaHandler0` | `DmaHandler0`: the line is taken, or the channel armed again; then `ClearFlags`; `clearing` between the two |
| the UART | `fifo`; an overrun leaves the receiver off, since nothing clears `OERR`: `deaf` |
| `user_init`, `os_printf` | `Ready`, `Log`: lines on the same wire |
| `get_http_config`, `networkRecvCb` | actions of the same names; every 200 answer is printed, late ones too |

A line travels as pieces (text, `$SECNF,`, the number, the newline), the
smallest units whose loss or arrival in between makes a difference.  The DMA
channel and its handler are faster than the line, so a byte finds the UART full
only when neither can make room.  The handler arms the channel
(`DMA_Transfer.c:265`) before it clears event and flag (`:270-271`); the rest of
a line that is already in the UART can end a transfer in between, and
`ClearFlags` then erases the interrupt of a line nobody has looked at (`lost`).
`MCP391x_Init` is called with the address of the number and writes the low three
bits of that address to the register (`MCP391x.c:57,70`); `OsrOfAddress` is what
they happen to be.  Lines of more than 256 bytes, which fill the
DMA buffer, are left out.

### `HttpdPool` and the code

| Code | Model |
|---|---|
| `connData[MAX_CONN]` | per slot `conn`, `cgi`, `stage` (`headPos`, `postPos`), `buff` (`postBuff`), `file` and `opened` (`cgiData`) |
| `httpdConnectCb`, `httpdRecvCb`, `httpdSentCb`, `httpdDisconCb`, `httpdReconCb` | actions of the same names |
| `httpdSendResp`, `cgiEspFsHook`, `cgiEspFsTemplate`, `httpdRetireConn` | `httpdSendResp`, `cgiEspFs`, `httpdRetireConn` |
| the TCP stack | `sock` and `unsent` per address of a `struct espconn`, `Close` |

An address is given back with its connection and used again by a later one,
which is what makes `httpdFindConnData` fallible.  `httpdDisconCb` reads the
state of connections whose memory was given back; what it reads is a
nondeterministic choice.  The write behind `connData` at `httpd.c:384` is
recorded in `overrun` and the connection treated as refused.  `stage`, `file`
and `tail` return to their first value when a slot is retired; the code leaves
them until the next connection sets them, and nothing reads them in between.
The memory a template's page function keeps (`TplData`) is not modelled.

### `Acquire` and the code

`rpc` walks through `read_fifo`, `wpc` through `acquire_loop`, with one step per
access to what the threads share: `runningTotal`, `current_buffer`, the
buffers.  `+=` is a load (`Add`) and a store (`Store`).  The program is built
without optimisation (its `Makefile`) for one core, so accesses are in order.
A byte is the frame it belongs to and its place there.

The FIFO is empty at the start.  Errors of the FT library, which print, are
left out.  `file_timer`, the third thread, passes `sprintf` its arguments in
the wrong order (`main.c:80`) and takes the process down; that step is
`file_timer`.

`late` is history: it says that a thread did not keep up, that is, a byte found
the FIFO full, a read went beyond the end of a frame, or the reader came back to
a buffer that had not been written.  The code has no protection then, and what
the buffers hold is no longer recorded, only how many bytes.  `ReadFits` holds
nevertheless.

### `TierAccounting` and the code

| Code | Model |
|---|---|
| the counters of `Device` | `row`; `mem` is a session's copy |
| `current_tier`, `territories` of `DeviceWebSettings` | `tier`, `territory`; `level` is a session's copy of the tier |
| `max_kwh_for_tier` (`models.py:286`) | `limits`, one of `Limits`: computed anew for each point from tier, territory, season and days of the month |
| `datetime.now()` | `CalendarTurns`: other limits apply |
| `EventViewSet.create`, `Event.save` | `Receive`, then per point `Count`, `ReadTier`, `Price` or `Upgrade` or `Drop`, then `Store` or `Fail`, `Finish` |
| the bare `except` of `Event.save` | `Drop`, and the second outcome of `Upgrade` |
| `reset_kilowatt_accumulations` | `StartJob`, `ResetDay`, `ResetTier`, `ResetMonth`, `JobDies` |
| `settings_device` | `OpenPage`, `ClearTerritory`, `AddTerritory`, `SavePage` |
| `Tier.objects.get(tier_level=...)` (`models.py:292`) | `shared`: as soon as a second rate plan has tiers of the same level, the look-up, which ignores the plan, fails |

uWSGI runs 40 threads in each of 8 processes (`deploy/uwsgi.ini`), Django
commits each statement by itself, and `Device.save` writes every column: a
session that has not seen a save overwrites it.  `stale` and `clash` record
that; `used` is what the row should hold, `total` all there ever was.

Limits change with the season and the month (`CalendarTurns`), with a new
territory (`AddTerritory`) and when the monthly job puts the device into the
first tier of another plan (`ResetTier`); none of these looks at
`current_tier`, so the tier may then not be that of the energy.  `moved` says
that this has happened since the last monthly reset, `halfReset` that the job
died after it saved the tier and before it saved the counter
(`reset_kilowatt_accumulations.py:28-29`).  `JobDies` may happen at every step
of the job.  The rates by which a tier charges are one function (`Cost`), and a
request that still holds the tier of another plan is judged by the limits of
the new one; both concern neither counters nor sums, which follow what was
charged.

### `DeviceRegistry` and the code

| Code | Model |
|---|---|
| row of `Device`: `owner`, `registered` | `row`, None when there is none; `copy`, `pair`, `edit`: what an event, a user and an edit have read |
| continuous queries and series in InfluxDB | `queries`, by device and kind (the means that late points refresh, and the others), `series`; a device's derived series are one with its own |
| `DeviceViewSet.create`, `Device.save` | `RegisterQueries`, `SaveNew`, `CreateDies` |
| `EventViewSet.create`, `Event.save` | `LoadDevice`, `SaveCount`, `WritePoints`, for late points `DropMean` and `AddMean` (`models.py:310-336`), `SaveAddress`, `EventDies` |
| `DeviceViewSet`, `DeviceSerializer`: PUT and PATCH | `LoadEdit`, `SaveEdit`, `SaveCopy`; a save of `settings_device` or `device_location` is an edit that names no owner |
| `new_device` | `FindUnpaired`, `SavePaired` |
| `remove_device`, DELETE of `DeviceViewSet`, `Device.delete` | `RemoveDevice`, `ListSeries`, `DropSeries`, `DropQueries`, `DeleteRow`, `RemovalDies` |
| `archive_database` | `InitiateUpload` to `CompleteUpload`, `JobDies` |

A save of a row that has been deleted inserts it again: events under way leave
rows without queries behind.  `Device.save` stores settings that refer to the
row before the row; the data base in use does not enforce foreign keys.  Series
and queries are selected by names that hold `device.<serial>`, so those of
device 12 go with device 1 (`Inside`).  `bytes` starts again for every device
while `archive_size` counts devices, so an upload is completed only if the two
happen to be equal.

The API asks nobody who he is (`seads/settings.py:70` has the permission classes
commented out; `getting-started.rst:24` calls it "very trusting").  An edit
loads the row, sets the fields the request names and saves the whole row.  It
may name an owner; `registered` and `fanout_query_registered` are not editable.
It may also name another serial, one no device has: then the row is inserted a
second time under it (`SaveCopy`), without queries of its own, although it says
that it has them.  What the REST framework does is modelled as its versions 3.0
and 3.1 do it, the last that know `request.DATA`; older ones also create a device
by a PUT to an unknown serial.

A late point refreshes the query of each mean it is late for, one after the
other; the model has one for all.  Not every interleaving is there: a device has
one request with an event, one edit, one registration and one removal at a time,
a list of series or queries is read and gone through in one step but for the
series themselves, and two queries of the same text are one.  The retrieval of
archives, appliances, circuits and the
time stamps of points are left out.

## Runs

| Run | Specification | What it shows | States |
|---|---|---|---|
| `ring` | `SendRing!RingSpec` | `RingConsistent`, `RefinesLossyFifo` | 1,762 |
| `receiver` | `SendRecvPort!FairSpec` | `OneWakeup`, `StoreHandshake`, `FramedBuffer`, `RefinesMessageStore`, `MessagesGetStored`, `FifoGetsDrained` | 1.3 million |
| `uplink` | `Uplink!FairSpec` | `PointsOnce`, `StateIsNotStale`, `GetsConfigured`, `StaysRegistered`, `SendsData`, `FallsBackToAp` | 437 thousand |
| `daq_power` | `DaqPower!FairSpec` | `WholeWindow`, `ImplementsReports`, `EveryWindowReported` | 2,170 |
| `daq_bandwidth` | `DaqBandwidth!FairSpec` | `WholeFrame`, `ImplementsReports`, `EveryWindowSent` | 340 |
| `httpd` | `HttpdPool!FairPoolSpec` | `PoolTypeOK`, `PoolSuffices`, `OwnSlot`, `ReleasedOnce`, `Served`, `SlotsComeBack` | 60,888 |
| `handshake` | `Handshake!FairSpec` | `TypeOK`, `NumberAsPrinted`, `MeterStartsSampling` | 205,122 |
| `acquire` | `Acquire!FairSpec` | `ReadFits`, `WholeBlock`, `BlocksInOrder`, `FramesGetWritten` | 518,866 |
| `tiers` | `TierAccounting!Spec` | `NeverInvented`, `CountIsExact`, `BilledOnce`, `TierFits` | 6.0 million |
| `registry` | `DeviceRegistry!Spec` | `QueriesFollow`, `OwnerKept`, `DataKept` | 1.2 million |
| `paired_once` | `DeviceRegistry!Spec` | violates `PairedOnce` (finding) | |
| `archived_or_kept` | `DeviceRegistry!Spec` | violates `ArchivedOrKept` (finding) | |

`receiver` and `tiers` take about two minutes, `uplink` about one; the others
half a minute or less.  Fairness removes no reachable state, so a run under
`FairSpec` checks safety as one under `Spec` would.  The type invariants of the
modules that have a proof are proved (below) and not checked again by the runs.

Bounds, and why they are enough:

- `ring`: four slots and three samples.  Every relative position of head and
  tail occurs, full and empty, and a ring can hold the same sample twice.  The
  theorems lift the bound.
- `receiver`: the two characters the state machine tells apart (`$`, newline)
  and two others, which make two samples; buffers of two characters, so that
  messages are too short, accepted and overflowing; texts that fail the check
  (a second `$`) and texts without fields; a ring of two, so that pushes
  displace.  A FIFO of two with a threshold of two: a single character waits for
  the timeout interrupt, two raise both flags, and more arrive before, at and
  after the interrupt, the clearing of a flag and the unmasking.
- `MaxBurst` (2) bounds the characters that arrive during one run of
  `recv_message`: with the two it finds, enough to end a message and to overflow
  the buffer behind it in one run.  Without a bound one run could last for ever;
  the processor takes a character from the FIFO much faster than 115200 baud
  deliver one, so a run ends when the line pauses.  Because the store task waits
  for that end, a long burst is also what makes a second message arrive behind a
  waiting one.
- `uplink`: a ring of two and three points, so that one is fresh while two are
  in the ring or under way, three requests or answers under way, two lookups,
  `WIFI_CONFIG_TIMEOUT` 2 instead of 20, two faults of any kind.
- `daq_...`: buffers of four samples, so that acquisition, checksum and main
  loop are at different places of their buffers; three labels, since a buffer
  can hold the window it is given, the one two before it, or, if something goes
  wrong, the one between.  `MCDaqPowerEsp.cfg` has four: with an even number a label
  always meets the same buffer, so the label of a window that went to the
  parallel port is not excused by a later one of the same name.

- `httpd`: two addresses and two slots for two connections, files of at most
  one full block, two sends under way, two errors: enough for a slot to be lost,
  its address to be used again and the pool to overflow.  With a pool of three
  slots (470,714 states) everything holds as well.  The real numbers are
  `MAX_CONN` 6 for the 5 connections the stack has at a time
  (`MEMP_NUM_TCP_PCB`, `lwipopts.h:245`): a single spare slot.  A connection
  counts until its disconnect callback.
- `handshake`: two numbers that settings may hold, so that a wrong one is
  noticed; a UART of two pieces; two requests under way, so that a second
  answer follows the first; one other line and two restarts, of either side.
- `acquire`: frames of two bytes in buffers of five, a FIFO of two, three
  labels: chunks end before, at and beyond the end of a frame, and the buffers
  turn over several times.  Checked once with frames of three, buffers of seven
  and a FIFO of four (1.65 million states).
- `tiers`: three tiers with limits of one and two or of two and three units, of
  which the calendar or a new territory may choose the other, once each; points
  of one unit, two requests of up to two points, at once or one after the
  other, and one run of the job or the page between their statements.
- `registry`: two devices, one with a serial that begins the other's, and two
  users; up to two registrations, events, pairings, edits and removals and one
  run of the archive command, five of all these together (`MaxRequests`): enough
  for both devices to be registered and three others at once, or for one device
  to be registered again beside an event, a removal and an edit.  With six, and
  one edit and one removal, no violation was found among the first ten million
  states.  JSON of no points has two bytes, as many as there are devices, which
  lets an upload be completed.

`MaxFaults` bounds how often the network, the server or the user does
something that is not progress (a refused request, a broken connection, a
500, a failed or overtaken lookup, a deleted device, the station given up);
the two states of Wi-Fi alternate without a bound.

Five runs switch deadlock checking off, since their systems stop:
`handshake`, where a meter that missed the settings or lost their interrupt
waits for ever while a
configured Wi-Fi module has nothing more to print (`ADCModuleBoard.c:157`; the
modules restart only so often in the model), and `tiers`, `registry` and the
two findings about the registry, where the bounds on requests are used up.

## Fairness

`SendRecvPort!FairSpec`: weak fairness of the timeout flag (hardware), of the
interrupt handler and of each task step (the SDK runs every posted task).
Nothing makes characters arrive and nothing makes the uplink pop.  FULL is
raised as long as the FIFO holds that much; TOUT is raised once after a
character that no other follows, and need not be raised a second time.

`Uplink!FairSpec`: weak fairness of the timer (it arms itself again), of each
SDK callback that is due, of TCP giving up a connection without a network, of
the server's answer, of the expiry of a cached name, of the reset timer, and of
`Produce`.  The last one is an assumption about the meter, and a necessary one
for `FallsBackToAp`: once configured, the timer callback calls
`send_http_request` only when the ring holds something
(`send_recv_port.c:272`), so a device whose meter has gone silent does not
notice that its network has.  The liveness properties are of the form "if from
some time on there is (no) network, ...": no fairness of Wi-Fi is assumed.

`DaqPower!FairSpec` and `DaqBandwidth!FairSpec`: weak fairness of the ADC, of
each DMA channel and each pending interrupt (hardware), and of `main`, which
polls without ever waiting.

`HttpdPool!FairPoolSpec`: weak fairness of the callbacks the SDK owes for data that
was acknowledged and connections that were closed, and of a disconnect it was
asked for.  Nothing makes a client send or hang up, so a connection on which no
request comes may stay; `Served` is about one whose request has come.

`Handshake!FairSpec`: weak fairness of the meter's program, interrupt handler
and DMA channel, of the line, and of the Wi-Fi module's requests and answers.
Nothing makes it print anything else or either side start again.

`Acquire!FairSpec`: weak fairness of both threads, which the kernel runs and
which never wait for each other.  `FramesGetWritten` speaks of behaviours in
which they keep up and the process lives.

## Proofs

Every invariant and every action or refinement property a passing run checks is
also a theorem.  What a theorem adds is every value of the constants; its
assumptions are declared with them and evaluated by TLC in the runs.

`SendRecvPort_proofs`, the ring (assuming `RingAssumption`):

- `RingTypeCorrect`, `RingAlwaysConsistent`: `RingTypeOK /\ RingConsistent` is
  inductive.  The second part is needed with the first: the two indices and the
  count are updated by three functions, and only "the head is `count` slots
  after the tail" excludes that they drift apart.
- `RingImplementsFifo`: under the mapping `Live` (the slots from the tail on),
  a push is `Put` or `Displace`, a pop is `Get`.

`SendRecvPort_proofs`, the receiver (assuming `PortAssumption`): the inductive
invariant is `PortInv`, in four parts:

- the line: types of FIFO, flags and burst;
- the tasks: `OneWakeup`, with the types of the queues;
- the state machine: `StoreHandshake`, `FramedBuffer`,
  `WaitingMessageIsChecked`, with the types of the buffers;
- the ring: its type and `RingConsistent`.

`OneWakeup` is inductive by itself, as the interrupt is unmasked, queued or
served.  `WaitingMessageIsChecked` is not: that a message ends in the other
buffer as a framed text needs `FramedBuffer` before the newline, that it
stays there needs the two buffers to be different and no second acceptance
while it waits, which is `StoreHandshake`: the state machine swaps buffers only
where `storing` is false.  From the invariant follow `PortTypeCorrect`,
`WakeupNeverLost`, `StoreHandshakeHolds`, `BuffersAreFramed`,
`WaitingMessagesAreChecked` and the refinement `PortImplementsStore`, where the
waiting message is `text[Other]` while `storing` holds and the queue is the
ring's `Live`: the newline of a checked message is `Accept`, the store task is
`Store` or `Discard`, a pop is `Take`, and every other step stutters.

Three more theorems say how far the code's liberties go.  `NoPostIsRefused`: the
result of `system_os_post`, which the code ignores, would never be a refusal.
`OverflowEndsMostMessages` and `OnlyFullBuffersLoseTheirSize` are what is left of
the two comments that the findings below contradict: the overflow goes unnoticed
in one state of the state machine only, and the size field is wrong for full
buffers only, where it is zero.

The theorems hold for every set of characters, every `Check`, `Fields` and
`Sample`, every buffer size, FIFO depth, burst and queue length.

`DaqPower_proofs` and `DaqBandwidth_proofs` (assuming `DaqAssumption`: at least
one sample and three labels) have inductive invariants of the same shape,
`PowerInv` and `BandwidthInv`:

- which stages of the work can coincide (acquisition, checksum, main loop or
  transfer): the checksum of a window ends before its sum or frame begins;
- which buffer each of them has, in terms of `currentBuffer`;
- how far each has come, and that what it has covered is of the last complete
  window;
- what the last report spoke of: the last complete window if nothing is under
  way, the one before otherwise.

`WholeWindow` alone is not inductive: that the buffer `SB_RMS` reads is not
overwritten needs the place of the acquisition, which is only known from the
roles and the stage of the checksum; that it holds one window needs the same of
the buffer while it was filled.  From the invariants follow type correctness,
`PowerRolesAgree`, `SumsWholeWindows`, `ChecksumsCoverTheirBuffer`,
`FramesAreWhole`, and `PowerImplementsReports`, `BandwidthImplementsReports`:
the last sample of a window is `Complete`, the message or the last byte of a
frame is `Report`, every other step stutters.  They hold for every buffer
length, which TLC cannot reach (12,688 bytes in the code).

`Uplink_proofs` (assuming `UplinkAssumption`): the invariant `UplinkInv` adds
two parts to the types.  `LinkInv` is `StateIsNotStale` with the answers under
way: each of them makes the state "connected" when it arrives, so they too must
be of a connection that is up; without that a late answer would break the
property.  `OnceInv` is `PointsOnce` taken apart: within the ring, between and
within requests, between ring and requests.  It is inductive because
`package_send` empties the ring in the step that issues the request, and a
retry never puts anything back.

`Acquire_proofs` (assuming `AcquireAssumption`): `ReadsFit` needs the same of a
sum that is on its way into the counter (`AddFits`): the writer may set a
counter to zero between the test for room and the read, which only makes room.  For `BlocksAreWhole` and `BlocksAreInOrder` the invariant
`BlockInv` follows the bytes, as long as nobody is late: those under way are in
sequence, the current buffer holds the beginning of the frame due in it, the
other one is empty or holds the whole frame that is to be written next, and
the writer is at work only on that.

`TierAccounting_proofs` (assuming `TierAssumption`): `NeverInvented` needs the
same of every session's copy.  `CountIsExact` needs that the copy of a session
that is not out of date equals the row in its energy (`EnergyKnown`).
`BilledOnce` is the hard one: the cost of a point is only in the copy until the
next save, so `CostSomewhere` says that unless a request is doomed to clash or
die, what was priced is in the row or in the copy of the one request that owes
it.

`TiersFollowEnergy` (`TierFits`) has a hypothesis of its own, `TiersApart`: the
limits of two tiers, whichever apply, are further apart than the energy of a
point.  Without it
`TierFits` is false, since a point moves the device up one tier at most.  The
code justifies it: points come once a second or more often (`frequency` is an
integer, in Hertz), so a point of 65 kW is 0.02 kWh, while limits are percentages
of a month's baseline.  The instance satisfies it (`MCTiersApart`).  The
invariant `TierKnown` says, of a state that is not `Condemned`, that the tier
fits the row, less the point that was counted and not yet priced (`Fits`), and
that a request knows the tier if it has read it.  `Condemned` is a state from
which `TierFits` cannot promise anything any more: something clashed, failed or
could not be priced, or is bound to, as two requests work at once or one is out
of date.  `Fits` says nothing once the limits have `moved`, and only that the
tier is not too high while the job is between its two saves, or has died there
(`Regular` is the contrary): the tier is the first there (`MonthKnown`), which
is never too high.  The lemmas `StaysCondemned`, `StaysMoved` and
`StaysIrregular` are the other half: each excuse lasts until the job has saved
the counter of the month (`Condemned` until the clash), so what `TierKnown`
excuses is excused by `TierFits` too.

`DeviceRegistry_proofs` (assuming `RegistryAssumption`): `RegistryInv` adds that
a session that has seen all changes knows the row (`RowKnown`; an edit all of it
but the owner it names), that queries are there before the row and go before it,
but for the mean an event has dropped and is about to add (`QueriesThere`, with
`Due`), that who drops or
deletes goes by names (`NamesMatch`), and that what the archive command is going
to find to delete was in its query or came later (`OldAccounted`).  `OwnerKept`
and `DataKept` are action properties that follow from it.  `QueriesFollow` is
one direction only: queries without a row are left behind by registrations that
die and by events that add a mean after the removal.  `OwnerKept` is about
devices that were paired: the flag it goes by is one the API cannot write.

`Provisioning_proofs`, the embedded server (assuming `HttpdAssumption`):

- `FilesReleasedOnce`: `ReleasedOnce` needs that a page function is to be called
  again only for a request that has come in to its end.
- `CallbacksFindTheirSlot`: `OwnSlot` is inductive by itself.
- `PoolIsEnough`, `ErrorsCostOneSlot`: `SlotsAccounted` counts the slots in use.
  They are no more than the connections that have one (`Held`) and the errors so
  far, so the pool overflows only when errors have used up what it has more than
  the stack has connections (`PoolSuffices`).

`Provisioning_proofs`, the start (assuming `HandshakeAssumption`):

- `StartTypeCorrect`: with the types, `ChannelInv`, which states of the DMA
  channel go with which progress of the meter.
- `NumberFromPrinted`: that the number `GetConfig` reads was printed as the
  number of a settings line needs all of the line's way.  `LinesInv` says, unless
  the Wi-Fi module has lost power within a line (`torn`), that the head of a
  settings line is followed by a printed number and the number by the newline
  (`Chained`), in the DMA buffer and the UART one behind the other and, while the
  meter listens, on into what is on the wire.  Pieces only move from one of the
  three to the next (`PieceMoves`, `PieceArrives`), so the order of the whole is
  kept where the order of each part would not be enough.  After an overrun the
  meter hears no more, so a line with a gap is never continued (`PieceLost`).  An
  interrupt that is lost leaves the line in the buffer and the channel off.  The
  theorem is about what is read, not about what reaches the converter: that is
  another number (`RateIsSet`, below).
- `WaitsUnlessInterruptLost`: from the interrupts on until the settings are there
  the channel is armed or its handler due, unless `ClearFlags` has erased the
  interrupt of a line that came behind the armed channel.  That it may do so is
  `KeepsWaiting`, below.

Model-checked only: the liveness properties (`MessagesGetStored`,
`FifoGetsDrained`, `EveryWindowReported`, `EveryWindowSent`, `Served`,
`SlotsComeBack`, `MeterStartsSampling`, `FramesGetWritten` and four of
`Uplink`), which need fairness and are outside the prover's reach.  No module has a recursive definition.  No run or
theorem says what the program does when its assumptions on time, `MaxBurst` and
`Finished`, are broken.

## Findings

Two are runs:

- `models.py:77` promises that a paired device is protected from being paired
  again.  `new_device` looks the flag up and saves later: two users both find
  the device free and the second takes it from the first (`paired_once`).
- `models.py:92` promises that what is older than the policy is archived.  The
  archive command deletes the points of each device before the upload is
  completed, and completes it with the number of devices where the number of
  bytes belongs (`archive_database.py:89`), which Glacier refuses; the exception
  is swallowed (`archived_or_kept`).

Further disagreements, each with a configuration that shows it (TLC ends with a
violation):

- `MCNulPlug.cfg` (`SizeFieldIntact`): `put_buffer` ends a full buffer with a
  NUL one byte behind the array, in `buff_size` (`buffers.c:105`).  Nothing
  reads `buff_size` but `read_buffer`, which nothing calls.
- `MCOverflow.cfg` (`OverflowEndsMessage`): a message that began behind a store
  and overflows when the store has just finished is not reset
  (`send_recv_port.c:199`).  Its next character is: it goes through
  `case_recv`.  If that is the newline, the truncated message is checked, and
  stored if the check passes; without a checksum it does.
- `MCLeftBehind.cfg` (`NoneLeftBehind`): `recv_message` gets characters "while
  they are in the buffer" (`send_recv_port.c:57`), but one that arrives, and whose
  time-out is raised, between the test for the empty FIFO and the clearing of the
  flag (`:69-73`) stays in the FIFO until another comes.  `FifoGetsDrained` says
  that nothing else can keep it there.
- `MCKeepsWaiting.cfg` (`KeepsWaiting`): `DmaHandler0` means to "keep waiting"
  (`DMA_Transfer.c:264`), and clears the flags after it has armed the channel: a
  newline that is in the UART by then ends the new transfer, whose interrupt is
  erased, and the meter waits for ever.
- `MCRateIsSet.cfg` (`RateIsSet`): "to change the data rate" (`MCP391x.c:69`) the
  register is given `config` where `*config` belongs: the rate is set from the
  address of the number, whatever the server answers.
- `MCUplinkSent.cfg` (`ReturnedTrueMeansSent`): `send_http_request` returns true
  for requests that were refused (`http_request.c:407`); points popped for them
  are lost.
- `MCUplinkConnect.cfg` (`ConnectOnlyWhenDown`): lookups that overlap make the
  second answer connect over an open connection (`http_request.c:309`).
- `MCDaqPowerCrc.cfg` (`ChecksumCoversBuffer`): the power variant of the meter
  appends to each buffer the checksum of the other one, which is just being
  filled (`DMA_Transfer.c:293`).  Nothing reads it in this variant; the
  bandwidth variant, which sends it, is right.
- `MCDaqPowerFree.cfg` (`TransferReadsMessage`): a message is freed while the
  DMA channel is sending it (`DAQ.c:65`).  Its memory is overwritten by the next
  `strdup`, or by `free` itself.
- `MCDaqPowerEsp.cfg` (`EveryWindowReachesEsp`): the message about a window in
  buffer A is sent to the parallel port and not to the Wi-Fi module
  (`DAQ.c:73`): every second window is lost.

Met on the way, without a run:

- The settings of the Wi-Fi module are printed once per start: a meter that is
  not yet waiting for them waits for ever (`Handshake`; `MeterStartsSampling`
  says from when on it is safe, but for a lost interrupt).
- A file whose length is a multiple of 1024 bytes ends with a call that sends
  nothing, after which no callback closes the connection
  (`httpdespfs.c:71`).
- A connection that ends with an error keeps its slot (`httpd.c:351`);
  two of them use up the spare one and `httpdConnectCb` writes behind the pool.
- A device without a territory stores no points: the exception in pricing drops
  them (`models.py:301`).  So does the next tier once two rate plans have one
  of the same level (`models.py:292`), as the repository's own data has
  (`datadump.json`, plans 4 and 6).
- Nothing looks at `current_tier` when the limits change: a device that has moved
  to another territory, or into another season, is in the tier of the old limits
  until a point exceeds those of the next (`models.py:290`), or until the month is
  over.
- An event with late points that dies between dropping and adding a continuous
  query leaves its device without that query for good: `Device.save` registers
  queries once (`models.py:121`).
- An owner whom only the API has named is not `registered`: the next user who
  pairs the device takes it from him (`views.py:188`).
- A device that an edit gives another serial is there twice, the second time
  without continuous queries (`serializers.py:19`).
- A request that dies between counting and pricing leaves energy without cost
  or tier, which is why `TierFits` excludes it: a tier reset between the count
  and a later upgrade stays ahead.

A remark without a run: `CurrentBuffer` "returns which buffer we are currently
DMAing into" (`DMA_Transfer.c:359`) only while no checksum is under way;
`RolesAgree` says so exactly, and the main loop relies on the difference.

## Not modelled, and why

- Boot of the Wi-Fi module: the interrupt is enabled before its task is
  registered (`user_main.c:56`).  What the SDK does with a post to no task is
  not in the repository.
- Answers split over TCP segments (`http_request.c:190`): the loops run past
  the data, so the outcome is whatever memory holds.
- Sentences (`nmea0183.c`): `check` and `process_message` are functions of one
  text, which `SendRecvPort` takes as constants; its theorems hold for each.
- The scan of the provisioning pages: one flag, set by the request and cleared
  by the callback of the SDK; the list is replaced within one callback.
  `cgiWiFiConnect` only stores what the user typed: the reconnect timer is
  compiled out (`cgiwifi.c`, `#if 0`).
- Time stamps: a request dates its points by the first time and their number,
  which is early for those behind an overflowed or displaced point
  (`models.py:259`).  `TierAccounting` has no dates, `DeviceRegistry` takes any
  time for any point.
- Templates, CGI helpers and the file system in flash: upstream code without
  state of its own.  Older firmwares and meter variants, superseded by the ones
  modelled.  The F28377D sampler: one loop that fills a buffer and writes it.
- `check_glacier_jobs` and the commands that send mails change nothing that
  others read.  The dashboard reads; its script is inline in HTML templates.
  All JavaScript files of the repository that are of any length are
  third-party libraries (charts, tables, editor, Grafana, API browser), most of
  them in several copies, and hold none of the system's logic.

## Plan

What would come next, in this order:

1. `Wifi`: `SendRecvPort` and `Uplink` over one ring and one scheduler, each
   component's view of the other (`UplinkPop`, `Produce`) shown to be
   implemented by it.
2. `Nmea0183`: `check` and `process_message`, compared with a definition of the
   sentence over bounded texts.
3. The dates of points, from the meter's window to the stored time.
