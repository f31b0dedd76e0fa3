# RF24 in TLA+

TLA+ models of the RF24 driver (a C library for nRF24L01 radios on Linux: SPI
through spidev, CE and IRQ through sysfs GPIO), the TLC runs that check them and
the proofs that TLAPS checks. Line numbers refer to `src/src/` at the modelled
commit; `PROJECT.json` maps each definition to its lines and lists components,
runs, hazards, findings and theorems in a form that tools can read.

## 1. Inventory

The threads of a process that uses the library:

* the **application thread** calls the `rf24_` functions;
* the **interrupt thread** is started by `rf24_init_radio`, waits in `poll()`
  for a falling edge of the IRQ pin, and moves received packets from the chip
  to a queue (`radio_isr_thread`, `process_radio_interrupt`, `retrieve_packets`);
* the **statistics monitor** (`rf24Stats.c`) prints and resets counters.

They share the chip (behind the SPI mutex), the packet queue, the counters, and
the driver's global variables.

| component | state | operations | interacts with | hard behaviour | what makes it correct |
|---|---|---|---|---|---|
| queue (`queue.c`) | ring, two indices, count | create, add, remove, count, size | called by tsqueue | wrap-around, full, empty | contents are those of a FIFO |
| tsqueue (`tsqueue.c`) | queue, mutex, one condition variable | create, blocking and non-blocking add and remove, count | interrupt thread adds, application removes | waiters of two kinds on one condition, one signal per element, spurious wakeups | linearizable FIFO, no lost wakeup, blocking calls succeed |
| driver (`rf24.c`) | `listening`, location in each function | init, reset, start/stop listening, send, write, recv, status, power | chip over SPI and CE, queue, interrupt thread | interleaving with the interrupt thread and the radio, timeouts, a radio in use by an earlier process | mode follows `listening`; packets in order; a result per acknowledgement |
| interrupt thread (`rf24.c` 714-780) | location, the peeked flag | peek, drain, clear | chip, queue | edge-triggered pin with three level flags, flags set while others are served, malloc and width faults | each interrupt is served; queue exists before use |
| chip (external) | CONFIG mode bits, flags, FIFOs, CE, IRQ edge | SPI commands; arrivals, acknowledgements, retries | driver, interrupt thread | acts by itself at any time | - |
| addresses (`rf24.c`) | cached addresses, width, pipe 0 status; TX_ADDR, RX_ADDR_Pn; the caller's array | set, open, send, start listening | chip | bytes are turned around in place; caches compared with what was turned | payloads go where asked, answers arrive |
| configuration (`rf24.c`) | RF_SETUP, CONFIG, EN_AA, FEATURE, ...; `payload_len`, `p_variant`, ... | setters, getters, reset | chip | shared registers, a toggle (ACTIVATE), a chip left in any state | settings survive one another |
| payload framing (`rf24.c`) | `payload_len`, `dyn_payloads_set`, packet buffers, payload widths in the chip | send, write, writeAckPayload, recv, recvfrom, setPayloadSize, enable functions, retrieve_packets | both applications, both interrupt threads, both chips | `uint8_t` arithmetic, padding, settings that change while payloads are on their way, a width and its payload read by two commands | what is sent is what is received |
| statistics (`rf24Stats.c`) | bytes, totals, rates, mutex | create, increment, retrieve, monitor, destroy | application and interrupt thread add, the monitor moves and resets | increments against resets, reads between them | no byte lost or counted twice, rates and totals of one interval |
| SPI bus (`spi.c`) | fd, mutex, chip select, what the chip has heard of a command | init, enable, transfer, disable, close | all threads | mutex life cycle, a transfer that fails in the middle of a command | a command happens at one moment or fails |
| timers (`compatibility.c`) | start of the clock | start_timer, millis, delays | rf24_write | a long against a `uint32_t`, wrap-around | a timeout lasts as long as asked |
| GPIO (`gpio.c`) | sysfs files | open, edge, write | chip select, CE, IRQ | failures nobody looks at | - |
| diagnostics, examples | - | formatting of registers | - | - | - |

## 2. Modules

```
Queue <- TSQueue <- MCTSQueue            BoundedFifo (abstract)
  ^         ^------ TSQueueProofs           ^--- TSQueue!FifoSpec
  |------ QueueProofs
NRF24 <- RF24 <- MCRF24                  LossyFifo (abstract)
            ^--- RF24Proofs                 ^--- RF24!InOrderSpec
RF24Config  <- MCRF24Config,  RF24ConfigProofs
RF24Address <- MCRF24Address, RF24AddressProofs
Payload     <- MCPayload,     PayloadProofs
SPI, RF24Stats <- Services <- MCServices   AtomicRegister (abstract)
                     ^--- ServicesProofs      ^--- SPI!BusSpec
                                           AtomicStats (abstract)
                                              ^--- RF24Stats!StatsSpec
```

**Queue** is the struct of `queue.c` as a record and its functions as operators:
`q_add(q, e)` is the new struct, `q_addReturns(q)` the value returned.
`Contents` reads the ring as a sequence.

**TSQueue** has, per thread, `Invoke`, `Enter` (take the mutex, evaluate the
`while` condition, wait or go on) and one body action per function.
`pthread_cond_wait` gives the mutex back in the step in which the thread starts
to wait; `pthread_cond_signal` wakes any one waiter; `SpuriousWakeup` may wake
anyone. A thread that was woken contends for the mutex like one that arrives.

**BoundedFifo** is the same interface on a sequence: a call takes effect in one
step between its invocation and its return, adds the element it was given, and
if it may block it is neither refused nor answered from an empty queue.
`TSQueue!FifoSpec` maps `fifo` to `Contents(q)` and `pending` to the threads
whose program counter is not at rest.

**NRF24** is the chip: the two mode bits of CONFIG, the flags, the FIFOs, the
payload on the air, CE, and the latch in which the kernel keeps an IRQ edge.
Nothing of it is under `src/`: its actions are external, modelled from what
`rf24.c` and `nRF24L01.h` rely on. Packets and payloads are numbers.

**RF24** has one action per SPI command or write to CE of both threads (two for
the `rf24_getStatus` in rf24_write). `app`
and `isr` are the two program counters, `op` the API function. `packets` is the
queue with atomic calls, which `FifoSpec` justifies. Ghosts: `arrived`, `acked`
(what the radio did), `sends`, `successes`, `last` (what the application was
told). An earlier process may have left the radio in any mode, with flags, a
packet, a payload (`UsedBefore`). Faults: no SPI device, no GPIO, malloc
failing, a width above 32. `created` says whether `tsq_create` has returned, and
what: a queue or, when malloc failed in it, NULL, which rf24_init_radio does not
look at. Whoever then uses the queue ends the process (`UseNullQueue`).

**LossyFifo** is the promise to a receiving application: packets in the order
of arrival, each at most once; any may be lost.

**RF24Config** has the registers as sets of bits and one action per setter;
`asked` is a ghost, what the application asked for last, dynamic payloads since
the last reset included. **RF24Address** has addresses as byte sequences with the
in-place reversals, and the driver's width, which may be 3 to 5. The chip's width
is 5 and stays it: rf24_setAddressWidth writes to EN_AA, so that a shorter address
overwrites the first bytes of a register and leaves the others. `fresh`,
`pipe0_asked`, `pipe1_width`, `sent` are ghosts.

**Payload** is a sender and a receiver, each with its driver, its chip and its
interrupt thread; both applications change settings at any moment. A payload is
a record of counts: how many bytes the caller meant, how many of its buffer are
in it (`data`), how wide it is with its padding (`width`). `isr` is where an
interrupt thread is in retrieve_packets, whose look at FIFO_STATUS, width, flush
and payload are steps of their own, and the width it has read and where that
comes from: the `chip`, the constant MAX_PAYLOAD_LEN (`fixed`), or `nowhere`, when
the driver believes in dynamic payloads and the chip has none, or has no payload
any more because the application flushed the FIFO after the look. `torn` is a
ghost: the FIFO was flushed between the commands that read the width and the
payload. rf24_resetcfg clears DYNPD in one step and flushes in another. Sums and
differences are those of `uint8_t` (`Plus`, `Minus`, `BYTE`).

**SPI** is the bus: per thread a location in `spi_enable`, the two transfers and
`spi_disable`, the mutex, which is garbage until `pthread_mutex_init`, and the
chip select. The chip keeps what it took as its command (`taken`): the first byte
it gets, whichever byte of the driver's that is. Each transfer may fail, and the
caller goes on as `spi.c` does. One register stands for all.
**AtomicRegister** is what the driver relies on: a command takes effect at one
moment between call and return, or fails and writes nothing. `SPI!BusSpec` says
that SPI implements it.

**RF24Stats** has each function of `rf24Stats.c` as two steps under the mutex, so
that a missing lock would show: `+=` is `Load` and `Store`, `stats_retrieve` reads
rates and then totals, the monitor adds up and then resets. Ghosts: `counted`, the
bytes of all increments that returned; `published`, what the monitor left last.
**AtomicStats** has the same calls taking effect at one moment each; an interval
ends in one step. `RF24Stats!StatsSpec` maps the end of an increment to `Store`, a
retrieval to the copying of the rates (the totals it copies next are then already
fixed by the mutex), the end of an interval to `TallyReset`.

**Services** composes the two with the loop of `rf24_write` and its clock. `todo`
is what is left of a thread's call: `<<"write", "tx">>` is rf24_send,
`<<"write", "sent_at">>` goes into the loop, `<<"read", "rx">>` is a round of the
interrupt thread. The clock is at `high * WORD + low`; sent_at keeps `low`. Ghosts:
`elapsed` since `sent_at` was set, `began` (`high` at that time), `waited` (how
long the call had waited if it gave up; Timeout before), `late`, how far `millis()`
was behind when `sent_at` was set: on 32 bits `seconds * 1000` wraps around, as the
build's instructions do, but its sum with the microseconds is a double, and what
lies beyond the largest long becomes that long (`compatibility.c` 35).

Definitions with a comment that starts with "Wrong:" are mutated forms of the
action next to them. They are in no next-state relation; they show that a
property can fail (`PROJECT.json`, "mutants").

### Reductions

* One SPI command is one step in all modules but SPI. BusSpec justifies it, with
  one exception: `rf24_getStatus` (`rf24.c` 573) gets STATUS with its first byte
  and clears it with its second, so a flag that the radio raises in between is
  cleared unseen. In rf24_write these are two steps, WriteResult and WriteClear,
  with the interrupt thread's commands kept out by the SPI mutex; where the flags
  read decide nothing in the driver, the byte that clears is the step.
* Payload: the two flushes of rf24_stopListening and rf24_resetcfg are one step:
  CE is low, so that nothing comes or goes between them, and the interrupt thread
  does not use the transmit FIFO. A transmission that fails leaves its payload in
  the FIFO and changes nothing else, so it is no step.
* RF24Stats: the interval is one second, as `rf24.c` asks, so that a rate is the
  count of an interval. The monitor may come at any time: the nanoseconds it
  sleeps are uninitialised (`rf24Stats.c` 50, 59).
* Services: the commands of a call are reduced to one that writes or one that
  reads, of two bytes each, and the loop of retrieve_packets to one round. That a
  longer command is given the bus for all of its bytes is the same argument; that
  it writes a part when a transfer in its middle fails is not modelled.
* A read-modify-write of CONFIG is one step, as only the application thread
  writes CONFIG. For the same reason each call is one step in RF24Config and
  RF24Address, whose state the interrupt thread does not touch. Its effect on
  what that thread does touch is in RF24, step by step.
* `read_payload` and the `tsq_add` that follows it are one step: no other thread
  adds to the queue.
* The polling loop of `rf24_write` ends with a flag or by the clock at any
  moment; polls that find nothing change nothing.
* `RF24_PA_ERROR` is the level MAX, whose bits it sets. That EN_AA forces CRC on
  in the chip is not modelled. Sending while listening is, in RF24Config, a send
  followed by `rf24_startListening`.

## 3. Runs

| run | module, cfg | checks | shows |
|---|---|---|---|
| queue_driver | MCTSQueue_driver | TypeOK, BlockingCallsSucceed, NoLostWakeup, FifoSpec, RemoverServed | the queue as `rf24.c` uses it: a FIFO, no lost wakeup, waiting removers are served |
| queue_blocking | MCTSQueue_blocking | NoForgottenWaiter | blocking calls of both kinds on one condition variable, as many threads as three slots bear |
| driver_echo | MCRF24_echo | TypeOK, QueueExistsBeforeUse, ListeningMeansReceiving, OneSuccessPerAck, InOrderSpec | an application as `pingtest.c`, which sends and writes while it listens, all faults, a used radio |
| driver_receive | MCRF24_receive | NoStuckInterrupt, InterruptServed | a receiver that starts and stops listening, resets and powers the radio, with invalid widths |
| configuration | MCRF24Config_any | TypeOK, SettingsKept, DynamicPayloadsWork | every setter in any order from left-over registers |
| addresses | MCRF24Address_any | TypeOK, SendsWhereAsked, AnswersArrive | every call that moves an address, with changes of the width and back |
| payload | MCPayload_any | TypeOK, NoStrayBytes, MessagesIntact | messages both ways while sizes and dynamic payloads change under them |
| services | MCServices_any | TypeOK, NothingLost, WaitsItsTimeout, HoldersMoveOn, BusSpec, ConsistentRates, StatsSpec, CallsEnd | application, interrupt thread and monitor on the bus and the counters, failing transfers, a clock that wraps around during the wait |
| write_result | MCRF24_result | ResultIsDelivery (violated) | finding 1 |
| phantom_packet | MCRF24_phantom | OnlyReceivedPackets (violated) | finding 2 |
| packet_stuck | MCRF24_stuck | TrafficIsRetrieved (violated) | finding 3 |
| pipe0_restored | MCRF24Address_pipe0 | Pipe0Restored (violated) | finding 4 |

### Bounds

* Queue: `queue_driver` has 2 slots, so that the ring wraps, is full and is empty,
  one adder and three removers, one of which does not block, so that an element
  may be gone when a woken thread looks; two values, so that order shows.
  `queue_blocking` has 3 slots and five threads, all of which block in both calls
  and one of which also counts; one value (NoForgottenWaiter tells no values apart)
  and the symmetry of the other four, which is sound for an invariant. Five threads
  are the most that `EnoughRoom` allows on 3 slots. It is tight: without it TLC finds
  a forgotten waiter with 3 threads on 1 slot, 5 on 2, 6 on 3 and 7 on 4, where
  waiters of the wrong kind take the signals. `rf24.c` has one adder, which never
  blocks, and is not concerned (RemoversAreNotForgotten). Null pointers are excluded,
  as tsq_remove does not signal when it removes one (`tsqueue.c` 39).
* Driver: `FifoDepth` 2 or 3, `PACKET_BUFFER_SIZE` 1 or 2, `MaxPackets` 2 to 4,
  `MaxSends` 1 to 4 (payload 1 is the earlier process's). Both FIFOs and the
  queue fill and overflow; the real sizes (3 and 15) add no new case, and the
  safety properties are proved for every depth.
* Configuration: arguments at the ends of their ranges and just beyond; what an
  earlier process left is any CONFIG and RF_SETUP and what the library makes of
  FEATURE and DYNPD, with two values each of the registers that no decision reads
  (EN_AA, SETUP_RETR, RF_CH, and EN_RXADDR together with RX_PW);
  `PVariant = FALSE`, the chip on which ACTIVATE and the probe matter. The other
  value is covered by the proofs.
* Addresses: bytes 0 to 10, two peers that share their first bytes, one of them
  its own mirror image; widths 2 (refused), 3 and 6 (refused), with 5 from
  `setDefaults`: the properties speak of 5, and 3 is there to be left and come back
  from. The VIEW drops pipe 0 and pipes 2 to 5, which are written and
  on which nothing else depends.
* Payload: addresses of 2 bytes, payloads of at most 5, a `uint8_t` less than 8, so
  that every subtraction of the code can wrap. Messages shorter than an address,
  as long as fits and one longer; sizes below an address and above a payload;
  three messages and four changes of settings, enough to change both ends before,
  between and after the two halves of a message's way; FIFOs of 2 and queues of 1,
  which overflow; R_RX_PL_WID reads 0 or 7 where there is no width. The radios are fresh: `UsedBefore` makes the state space an order
  of magnitude larger and is covered by the proofs.
* Services: a word of 8, its signed half ending at `Largest` 3 with one millisecond
  `Beyond`; a clock that starts at WORD + 3, so that a wait begins while `millis()`
  stands still and another one sees the wrap-around; `Timeout` 2; `MaxWait` 3, with
  Beyond less than a word: one poll of rf24_write is not delayed by the 49 days a
  `uint32_t` of milliseconds lasts.
  Two calls of the application and one packet meet in every order on both
  mutexes; `LongIsWord` is TRUE, the 32-bit Raspberry Pi the library is written
  for. The proofs cover both widths, every word and any number of calls.

Deadlock is checked except where the process exits (no SPI device) or the
application waits for good in `tsq_remove`.

### Fairness

* TSQueue `FairSpec`: strong fairness of `Enter` (a thread that contends for a
  mutex released again and again gets it) and weak fairness of the bodies (a
  thread that holds the mutex runs on). Nobody has to call; no spurious wakeup
  is relied on.
* RF24 `FairSpec`: weak fairness of the application thread inside a call, of the
  interrupt thread (its fatal exits excepted) and of the end of a transmission
  (the chip's retries are finite). Faults, calls and arrivals need not happen.
  The counterexample of packet_stuck is under this fairness.

* Services `FairSpec`: strong fairness of taking either mutex (as above), weak
  fairness of every thread's next step, of `spi_init` and of the clock, and of the
  monitor inside its critical section only: it need not come. Transfers may fail
  every time.

## 4. Proofs

All of it holds for every value of the constants that the named ASSUMEs of the
modules allow.

| theorem | establishes | further assumptions |
|---|---|---|
| TSQueueProofs: TypeCorrect, BlockingCallsAreServed | `[]TypeOK`, `[]BlockingCallsSucceed` | - |
| TSQueueProofs: OnlyBlockersWait | `[]BlockersWait`: only calls that block sleep | - |
| TSQueueProofs: NobodyIsForgotten | `[]NoForgottenWaiter` | - (its hypothesis is EnoughRoom, and no null pointers) |
| TSQueueProofs: NoWakeupIsLost, RemoversAreNotForgotten | `[]NoLostWakeup`, `[]NobodyForgotten` | NonBlockingAdds: no thread blocks in `tsq_add` |
| TSQueueProofs: Refinement | `FifoSpec` | - |
| RF24Proofs: TypeCorrect | `[]TypeOK` | - |
| RF24Proofs: QueueExists | `[]QueueExistsBeforeUse`: no use before `tsq_create` returned, and none of NULL unless malloc failed | - |
| RF24Proofs: ListeningIsRight | `[]ListeningMeansReceiving` (powered only without rf24_powerDown) | - |
| RF24Proofs: WritesDoNotOverreport | `[]OneSuccessPerAck` | - |
| RF24Proofs: PacketsInOrder, OnlyPacketsAreQueued | `InOrderSpec`, `[]OnlyReceivedPackets` | NeverFlushes: no `rf24_stopListening`, no `rf24_resetcfg` |
| RF24Proofs: NoInterruptIsLost | `[]NoStuckInterrupt` | OnlyReceives: nothing is sent, malloc succeeds, a fresh radio |
| RF24ConfigProofs: TypeCorrect, SettingsAreKept, DynamicPayloadsAreOn | `[]TypeOK`, `[]SettingsKept`, `[]DynamicPayloadsWork` | - |
| RF24AddressProofs: PayloadsGoWhereAsked | `[]SendsWhereAsked`: at the chip's width of five bytes | NoMirrorImages: no peer is another one read backwards |
| RF24AddressProofs: AnswersDoArrive, AddressesTyped | `[]AnswersArrive` (pipe 1 opened at five bytes), `[]TypeOK` | - |
| PayloadProofs: TypeCorrect, NothingStrays, MessagesArriveIntact | `[]TypeOK`, `[]NoStrayBytes`, `[]MessagesIntact` | - |
| ServicesProofs: TypeCorrect, IInvAlways | `[]TypeOK`, the inductive invariant | - |
| ServicesProofs: BusIsAtomic | `BusSpec` | - |
| ServicesProofs: NothingIsLost, RatesAreConsistent | `[]NothingLost`, `ConsistentRates` | - |
| ServicesProofs: StatsAreAtomic | `StatsSpec` | - |
| ServicesProofs: MutexesComeFree | `[]HoldersMoveOn` | - |
| ServicesProofs: WaitsLongEnough | `[]WaitsItsTimeout` | - |

The assumptions are the code's: with a call that flushes, finding 2 contradicts
InOrderSpec and OnlyReceivedPackets; with sends, MAX_RT stays set and the IRQ pin low; with mirror images
a send goes to the wrong peer (section 6).

The arguments:

* **Queue** (QueueProofs): `q_add` and `q_remove` on a ring are Append and Tail
  on its contents. The wrap-around is all in the lemma about indices.
* **TSQueue**: `Inv` is TypeOK with LockHeld (whoever is inside holds the mutex,
  so one thread at most) and BlockingCallsSucceed. That the loop condition still
  holds when the body runs needs the mutex; that needs nothing else. NoLostWakeup
  is inductive on top of it: an add raises the count by one and its signal makes
  one waiter, who can only be a remover, awake; a remover that sleeps again
  found the queue empty.
* **NoForgottenWaiter** is not inductive and nothing in the code points at its
  strengthening, since a signal that hits the wrong kind of waiter is simply lost.
  The strengthening is `BalanceInv`: Inv, BlockersWait and `Balance`. Balance relates the count of the ring to the numbers of awake and sleeping
  threads of each kind:
  * while removers sleep there is an awake remover for each element; or a single
    remover sleeps, there is one element at most, and at least `Size` adders (more
    than one) are awake, who will come and signal;
  * the same for adders and free slots;
  * when both kinds sleep the queue is full and `Size` removers are awake, or it is
    empty and `Size` adders are.

  Each step moves at most two of these five numbers, which the lemmas about
  cardinalities (LosesOne, ExchangesOne, Headcount) turn into arithmetic
  (BalanceOfAdd, BalanceOfRemove, BalanceWhenRefused). EnoughRoom bounds the
  sum of the four counts of threads in it: a thread that goes to sleep next to a
  sleeper of the other kind leaves no room for a third. NobodyForgotten follows, as with
  nobody awake a sleeper for elements finds none and a sleeper for room finds none.
* **RF24**, each invariant on top of TypeInv (TypeOK, and `sends > 0`):
  * `Effect` is what any command may do to the chip, so that most steps of both
    threads are one case.
  * ListeningInv says for each location of the application thread what CE and
    PRIM_RX are: right when no mode change is under way, CE low in setDefaults
    and rf24_stopListening, PRIM_RX set before rf24_startListening raises CE.
  * StartInv is the start-up: CE is low from setDefaults on, the flags are
    cleared and then the FIFO is flushed, and nothing arrives; so the interrupt
    thread's first run, before `tsq_create`, finds no RX_DR.
  * AckInv counts a set TX_DS as an acknowledgement not yet reported, unless
    rf24_write has just read it and not yet cleared it. It needs
    Numbered: payload numbers rise through `acked`, `air` and the FIFO, so that
    no payload is acknowledged twice.
  * OrderInv: queue and FIFO are increasing, everything in the queue is older
    than everything in the FIFO, all of it newer than what was received last;
    and a FIFO the interrupt thread found non-empty stays so until it reads.
  * EdgeInv: if nothing is sent RX_DR is the only flag, so that clearing it
    raises the pin and the next packet makes an edge.
* **RF24Config**: SettingsInv joins SettingsKept with what each chip can store and
  what is known of it before `rf24_init_radio`; FeatureInv, that FEATURE is
  empty or the chip is activated with EN_DPL set, carries DynamicPayloadsWork
  through both enable functions, with `asked.dynamic` for what DYNPD is since then.
* **RF24Address**: `Inv` joins types, width and AnswersArrive with Cache: while
  `fresh` and at five bytes, TX_ADDR holds a peer's address, and `transmit_address` is that
  address as it was given or turned around. The comparison in the code does not
  know which of the two, therefore NoMirrorImages.

* **Payload** (PayloadProofs): every frame in any FIFO is Sound, that is, its
  counts are those that `write_payload` computes, and this does not depend on
  settings that change later. A packet was read as long as its payload or longer
  (`Read`): a width held by an interrupt thread is that of the oldest payload,
  since arrivals only append, unless a flush made it `torn` or it was read
  `nowhere` (`WidthHeld`); MessagesIntact excepts packets read with such a width
  (`Trusted`). From
  both, and with arithmetic on ADDR_WIDTH, MAX_PAYLOAD_LEN and BYTE only, the
  copy covers the message.
* **Services** (ServicesProofs): IInv joins four invariants that do not need one
  another's steps, as each step of Services moves one part (`Parts`).
  * BusInv: whoever is between `spi_enable` and `spi_disable` holds the mutex, the
    chip is selected, and it took that thread's command byte or nothing. The
    garbage mutex of `spi_init` is gone before anyone can call. BusIsAtomic maps
    the moment of effect to the data byte; a command with a failed transfer maps
    to Fail there.
  * StatsInv: whoever is inside holds the mutex, what it loaded is still there, and
    total and bytes add up to `counted` except between the monitor's two steps.
    `TallyInv` adds what the monitor has computed between them: its rates are the
    bytes of the interval and its totals those published plus these. With it each
    step maps to a step of AtomicStats or to a stutter (StatsAreAtomic).
  * MutexInv, on top of BusInv and StatsInv, says that no thread is in `spi.c` and in
    `rf24Stats.c` at once, that a holder of `stats_lock` is between lock and unlock,
    and that the bus's mutex is no garbage once calls can be made. So no order of the
    two mutexes can make threads wait for one another (MutexesComeFree).
  * TodoInv, TimerInv: while the application polls, either `low` is sent_at plus
    `late` plus `elapsed` or it has wrapped around once, since MaxWait is less than
    a word (`Measured`), and `sent_at` is no reading that `millis()` skips; so the
    subtraction in a word gives no more than `elapsed` and `late`.

Only model-checked: the liveness properties RemoverServed, InterruptServed and
CallsEnd, since the prover does neither liveness under fairness nor ENABLED. What they rest on is
proved: that nobody is forgotten who could go on (NoLostWakeup,
NoForgottenWaiter), that the interrupt thread does not wait next to a low pin
(NoStuckInterrupt), and that who holds a mutex is on the way to its unlock
(HoldersMoveOn). Every safety property and every refinement that a passing run
checks is a theorem. No proof depends on a recursive definition.

## 5. Findings

1. **rf24_write can report failure for a delivered payload** (`rf24.c` 559, 750;
   `rf24.h` 103). The interrupt thread clears the TX_DS that rf24_write waits for.
2. **A packet that was never received can be queued** (`rf24.c` 480, 727, 736;
   `rf24.h` 121). rf24_stopListening flushes the FIFO between the interrupt
   thread's look at it and its read. An application that never calls it, nor
   rf24_resetcfg, is safe from this (OnlyPacketsAreQueued).
3. **A received packet can stay in the chip for good** (`rf24.c` 468; `rf24.h`
   75-76). rf24_startListening, also at the end of each send while listening,
   clears RX_DR without a look at the FIFO.
4. **Pipe 0's address is restored backwards every second time** (`rf24.c`
   469-471).

## 6. Further disagreements the models carry

Not runs of their own; the actions behave as the code does.

* RX_DR is cleared after the FIFO was seen empty, so a packet that arrives in
  between loses its flag (`rf24.c` 741, comment 740). Part of TrafficIsRetrieved.
* rf24_write returns TRUE for a TX_DS of an earlier payload (559; `rf24.h` 103),
  and a flag raised between the two bytes of rf24_getStatus is cleared unseen (573).
* A send in low-power mode does not power the radio up (231; `rf24.h` 340).
* rf24_enableAckPayload after rf24_enableDynamicPayloads leaves acknowledgement
  payloads off: it tests for the bits of both (609-611).
* AW is 1, the number of EN_AA, so that the width is written there, and by
  default pipes 0 and 2 only acknowledge (256; `rf24.h` 245). SETUP_AW is never
  written: at a width of 3 or 4 TX_ADDR, RX_ADDR_P0 and RX_ADDR_P1 get as many
  bytes and keep the upper ones of an earlier address, and the chip goes on using
  all five, so that payloads and answers go astray (257). No property speaks of
  these widths.
* An array from which pipe 0 or 1 was opened comes back turned around (282): a
  second pipe opened from it gets the address backwards. The chip and
  `pipe1_address` agree about it all the same.
* rf24_init_radio does not look at what `tsq_create` returns (457; `queue.c` 15,
  21-24, `tsqueue.c` 14, 16): it returns 1 when malloc failed there, and the first
  packet or rf24_recv ends the process. `UseNullQueue` is that step.
* Switching automatic acknowledgement off for one pipe keeps that pipe's bit
  and clears the others (649; `rf24.h` 253).
* ARD and ARC are masks and are used as shift counts: the delay is lost (373;
  `rf24.h` 175-177).
* `payload_len` starts as 0 (50; `rf24.h` 192-193), and pipes that are open keep
  their old width (383; `rf24.h` 191).
* `wide_band` is lost when rf24_setDataRate is given RF24_ERROR (309; 48).
* A peer whose address is the one in use read backwards is taken for it (532-533).
* After malloc failed RX_DR stays set and no edge comes (734).
* rf24_resetcfg clears DYNPD "to match dyn_payloads_set setting" and leaves
  `dyn_payloads_set` TRUE (422-423, 461), so that the driver then reads widths that
  the chip does not have (`nowhere`). DynamicPayloadsWork says what is true of the
  chip after it, and nothing of `dyn_payloads_set`.
* A flush between the look at the FIFO and R_RX_PL_WID, or between that and
  R_RX_PAYLOAD, makes the interrupt thread read a width from an empty FIFO, or a
  payload with the width of another (727-736; 438, 480). Finding 2 is the case in
  which it reads no payload; MessagesIntact excepts the others.
* A payload that finds the transmit FIFO full is lost while rf24_send returns 1
  (233).
* rf24_recv and rf24_recvfrom copy `p->len` bytes, the length with the address
  (511, 728 and `rf24.h` 123-127): with dynamic payloads up to ADDR_WIDTH bytes
  too many. Without them every packet is read as 32 bytes, and the length
  returned is 32 less an address. Of payloads that rf24_write and rf24_writeAckPayload send without an
  address the first bytes are taken for one, and the length returned wraps
  around when there are fewer.
* rf24_setPayloadSize also cuts dynamic payloads (160). A pipe with another fixed
  width does not receive them (285).
* `stats_increment` gets `payload_len - ADDR_WIDTH` in a `uint8_t` (738), and the
  bytes of rf24_write are not counted.
* Nothing calls `start_timer`, so with 64-bit longs `millis()` is far above
  `sent_at` and the wait of 500 ms is over at once (545-552). WaitsItsTimeout
  says `LongIsWord \/ began = 0` for this.
* A wait that begins in the last fraction of a second before `millis()` changes its
  sign, every 49 days on 32 bits, ends early by up to that fraction
  (`compatibility.c` 35; `late` in WaitsItsTimeout).
* A transfer that fails is not reported: `read_register` returns what was on the
  stack, and `read_register_bytes` stores the return code of `spi_transfer`
  (121). When the command byte is lost, the chip takes the value that follows
  for a command (`spi.c` 109); SPI has this as `taken = "other"`, a command
  without data. What such a command does to the rest of the chip is not modelled.
* `spi_disable` unlocks the mutex before it is initialised (`spi.c` 80-81).
* The pipe number that rf24_available returns is not shifted (499).

## 7. Not modelled, and why

* `q_destroy`, `tsq_destroy`, `stats_destroy`, `spi_close`: they free what nobody
  uses any more; `rf24.c` does not call them. Nor does it call
  `spi_transfer_bulk`.
* The sleeps pass time, which every step may. A clock that someone sets while
  rf24_write waits (`gettimeofday` jumps) is not modelled.
* rf24_available, rf24_isAckPayloadAvailable's flag and rf24_testCarrierDetect
  read a register and change nothing.
* `gpio_open` and the edge setting write strings to sysfs once; a `gpio_write`
  that fails is not looked at by `spi.c`, and pins that fail are not modelled.
* rf24_printDetails and the `print_` functions format registers.
* The contents of payloads: Payload counts bytes. Addresses as bytes are in
  RF24Address.
* `src/examples` except `pingtest.c` is written against the earlier C++ library.

## 8. Plan

Done: Queue, TSQueue, NRF24, RF24, RF24Config, RF24Address, Payload, SPI,
RF24Stats and Services, their runs and proofs. Next, in this order:

1. **Composition**: TSQueue in RF24 in the place of the atomic queue, and a
   refinement from the composition to RF24.
2. **Pin faults**: a chip select or CE that does not follow `gpio_write`.
