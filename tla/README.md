# Pico-FT8-TX in TLA+

Pico-FT8-TX is the firmware of an FT8 beacon on a Raspberry Pi Pico 2 W. Without
a stored configuration it opens a Wi-Fi access point with a web form; with one it
joins a network, fetches the time, leaves the network, and from then on transmits
`CQ <callsign> <locator>` in every 15-second slot of FT8. This directory holds TLA+
models of the parts of the firmware that are hard to test on a bench, the TLC
configurations that check them, and proofs for TLAPS.

## 1. Inventory

| Part | Code | State it keeps | Operations | Modelled in |
|---|---|---|---|---|
| Transmit channel | `TxChannel/TxChannel.c` | FIFO of symbols (`_ix_input`, `_ix_output`, `_pbyte_buffer`), timer alarm | `TxChannelISR`, `TxChannelPop`, `TxChannelPending`, `TxChannelClear`, `TxChannelInit` (`TxChannelPush` has no caller) | `TxChannel`, abstractly `SymbolStream`; the alarm in `SymbolTimer`; both in `TimedChannel` |
| Beacon | `WSPRbeacon/WSPRbeacon.c` | callsign, locator, `_pu8_outbuf` | `WSPRbeaconInit`, `WSPRbeaconCreatePacket`, `WSPRbeaconSendPacket` (`WSPRbeaconTxScheduler` has no caller) | `TxChannel`, `Ft8Packet` |
| Main loop | `main.c` 464-537 | `tx_triggered_this_slot`, `last_slot_window`, `tx_start_time` | one iteration of the loop and its wait loop | `TxSlot` |
| Station life cycle | `main.c`, `wifi_setup.c` | `g_ctx->ap_mode_active`, the stored configuration | boot, joining the network, set-up mode, saving the form, reset | `Station`, on `ConfigStore` |
| Configuration store | `util/flashmem.c` | one flash sector | `flashmem_write_config`, three read functions (`flashmem_write_wifi_config` and `flashmem_clear_wifi_config` have no caller) | `FlashConfig`, abstractly `ConfigStore` |
| DHCP server | `dhcpserver/dhcpserver.c` | eight leases | DHCPDISCOVER, DHCPREQUEST with and without option 50 | `DhcpServer` |
| DNS server | `dnsserver/dnsserver.c` | none | answers each query with its own address | `DnsServer` |
| Web server | `wifi_setup.c` 53-410 | a `TCP_CONNECT_STATE_T` per connection | accept, receive, sent, poll and error callbacks | `HttpConn`, the form in `WebForm`; what a saved form does to the station in `Station` |
| Time fetch | `main.c` 131-282 | `ntp_time`, `powman_sync_ms`, `have_ntp_time`, an `NTP_T` | DNS and UDP callbacks, an alarm | `NtpSync` |
| FT8 message and code | `ft8/message.c`, `text.c`, `encode.c`, `crc.c`, `constants.c` | none (pure) | message to 77 bits, CRC and LDPC to 174 bits, 79 tones | `Ft8Message`, `Ft8Code`, `Ft8Constants`, `Ft8Packet` |
| Second core | `core1.c` | the oscillator `PioDco` | `Core1Entry` | not modelled: the oscillator library is an empty submodule |
| Log and hardware set-up | `debug/logutils.c`, `init.c` | a counter | `StampPrintf`, `InitPicoHW` | not modelled: output and register writes |
| Receiver code | `ft8/ldpc.c`, `common/monitor.c` | - | - | not modelled: not built |
| WSPR code | `WSPRbeacon/thirdparty` | - | - | not modelled: without a caller |

**How the parts interact.** Everything but the oscillator runs on core 0. `main()`
is the only thread. Two kinds of interrupt run over it: the timer's
(`TxChannelISR`, highest priority) and the background interrupt of the Wi-Fi
driver, in which lwIP calls the callbacks of the web, DHCP, DNS and time code. An
interrupt handler is atomic for `main()`; `main()` is not atomic for the handlers.
They share, without a lock, the FIFO (main loop and timer), `ap_mode_active` and
the flash (main and web server), and `ntp_time` (main and the time callbacks).

**What is hard.** The timer interrupts the hand-over of a packet; the main loop
decides by polling and by a clock of which it stores 32 bits; forms are handled
while `main()` starts or leaves the set-up mode; the power or the watchdog cuts a
flash operation short; leases expire on a clock that wraps; clients interleave
their DHCP messages; the peer, the poll timer and the sent callback may each end a web
connection; a late interrupt sets an alarm that has passed; answers of the time server are lost, late or repeated; and a
message that does not fit its format still becomes 79 tones.

## 2. Modules

| Module | Lines of code it stands for |
|---|---|
| `SymbolStream` | abstract: what the channel promises its caller |
| `TxChannel` | the FIFO, its interrupt and `WSPRbeaconSendPacket`, at the level of single stores |
| `SymbolTimer` | the alarm of the symbol timer on the wrapping microsecond counter |
| `TimedChannel` | the two together: one interrupt pops a symbol and sets the next alarm |
| `TxChannel_proofs` | theorems about `TxChannel`, `SymbolTimer` and `TimedChannel` |
| `TxSlot` | the transmission loop in time, with the symbol timer |
| `TxSlot_proofs` | theorems about `TxSlot` |
| `ConfigStore` | abstract: what the configuration store promises its callers |
| `FlashConfig` | the configuration record in its flash sector |
| `FlashConfig_proofs` | theorems about `FlashConfig`, which implements `ConfigStore` |
| `Station` | `main()` and the set-up mode |
| `Station_proofs` | theorems about `Station`, which uses `ConfigStore` |
| `DhcpServer` | the lease table |
| `DhcpServer_proofs` | theorems about `DhcpServer` |
| `NtpSync` | the time fetch, its callbacks, and the time the loop computes |
| `NtpSync_proofs` | theorems about `NtpSync` |
| `WebForm` | the query string of the form and `url_decode` |
| `HttpConn` | the callbacks of the web server and the heap they use |
| `DnsServer` | `dns_server_process` |
| `SetupServers` | the web server and the DNS server side by side |
| `SetupServers_proofs` | theorems about `HttpConn`, `WebForm` and `DnsServer` |
| `Ft8Constants` | the tables of `ft8/constants.c` |
| `Ft8Message` | the 77 bits of a message, and the decoder |
| `Ft8Code` | CRC, parity and tones, and a receiver by the definition of FT8 |
| `Ft8Packet` | `WSPRbeaconCreatePacket`, from callsign and locator to tones |
| `Ft8Packet_proofs` | theorems about `Ft8Packet` |
| `MCTxChannel`, `MCFlashConfig`, `MCDhcpServer`, `MCSetupServers`, `MCFt8Packet` | constants for TLC |

Each module has operators marked *Mutant*: plausible mistakes in the code. Put in
the place of the operator they follow, TLC finds one of the properties violated;
`PROJECT.json` lists which. They are not used otherwise. The modules with
proofs have a `TypeOK` (or, for the packet, `PacketInv`), proved for all constants; the runs are spent on the other properties.

### TxChannel and SymbolStream

`ix_input`, `ix_output` and `pbyte_buffer` are the fields of `TxChannelContext`,
`outbuf` is `_pu8_outbuf`, and `tone` is what `PioDCOSetFreq` was given last. `pc` is
the point `WSPRbeaconSendPacket` has reached. `TxChannelISR` may run at any of these
points. `TxChannelClear` is `_ix_input = _ix_output = 0`, two byte stores in an order
the compiler chooses; `TxChannelClear(order)` is the first of them (or both), and
`ClearInput` or `ClearOutput` the other. `Memcpy` copies one byte, upwards.
`MaxTicks` bounds the interrupts during one `WSPRbeaconSendPacket`: a few
microseconds against a period of 159 ms, so one is realistic; the run takes up to
two, the proofs any number. `packet`, `lost`, `between`, `emitted` and `stored` are history: no step
depends on them. `between` counts the interrupts that came between the two stores of
`TxChannelClear`.

`SymbolStream` is the promise: a queue of symbols, keyed in order, replaced as a
whole by a hand-over. Because of the race in `TxChannelClear` it has to allow one
stray tone and one lost first symbol for each interrupt during a hand-over.
`TxChannel` implements it (`ImplementsStream`) with the FIFO's contents as the
queue, empty during a hand-over.

Properties: `InOrder` (what was keyed is the packet, in order, without gap, repeat
or older symbol; `TxChannelPending` is what is left), `LossBounded` (a packet loses no more
symbols than interrupts hit its hand-over, and none unless one came between the two
stores: an interrupt before them, or while the buffer is copied, costs nothing),
`NoLossUnlessOutputFirst`, `QuietWhileLoading`, `Drains`, `ImplementsStream`.

### SymbolTimer

`now` is `timerawl`, `alarm` the low word of `_tm_future_call` in `timer_hw->alarm`. The hardware
compares the two for equality when the counter moves, raises the interrupt once and
disarms the alarm; the handler runs up to `Late` units afterwards and sets the alarm a
period after the time it was set to before. An alarm set to the very value the counter
shows may count or not: `Arm` allows both. `age` and `gap` measure the time between
interrupts, `waited` how late the handler ran; all three are history. `NextAlarm` is what `TxChannelISR` does besides
the pop of a symbol.

Properties: `NoDrift` (interrupts come exactly a period apart, unless a handler ran a whole
period late) and `SilentForOneSpan` (if one did, the next symbol comes 71.6 minutes, one span
of the 32-bit counter, after it was due; or at once, in the one case that the alarm is set
at the moment it is due).

### TimedChannel

`TxChannelISR` is one function, of which `TxChannel` has the pop and `SymbolTimer` the alarm.
`Handler` is both at once, `MainLoop` the steps of the beacon while the counter stands still
(the stores take nanoseconds), and `TimePasses` the counter. So the run checks the properties of both
modules where the interrupts of the one are those of the other: a hand-over is hit by an
interrupt only when the alarm has come due, and a handler that is late pops its symbol late.

### TxSlot

Time passes in `Tick`; the code between two sleeps takes no time, and every sleep
ends on time or up to `Late` units late, which stands for interrupts, output, and
the time it takes to encode. The FIFO is reduced to the number of symbols left
(`pending`), which is all the loop reads; that this is right is what `TxChannel`
shows. `isr` counts down to the next interrupt: the timer runs freely since
`WSPRbeaconInit`, so its phase within the slot is arbitrary and drifts by 15000 mod
159 ms from one slot to the next. `second` is `current_second` as read at the top of
the iteration; `Bottom` compares windows by that old value, as the code does.
`epoch` is the part of the 64-bit clock that `tx_start_time` drops, 1 standing for
any value above 0. `utc` is the time within the minute: the code looks at seconds
within a minute only.

In the code, `gpio_put(RF_PIN, 0)` follows each stop of the oscillator; `dco` stands for
both.

`hold` counts to `HoldSpan`, one unit more than `TailAfterLastSymbol` allows.

Properties: `CarrierInOwnWindow`, `OnePacketPerWindow`, `CutsOnlyLastSymbol` (when the carrier stops,
every symbol has been keyed, and the last one has had the tail; it is cut, for which see
`LastSymbolWhole` in section 3), `TailAfterLastSymbol` (the exact bounds of what the last symbol gets),
`FirstSymbolInTime`, `TransmitsForever`, and `CarrierOnlyInTx`, which is proved. `OnePacketPerWindow` deserves a note: the flag
`tx_triggered_this_slot` is set and, at the bottom of the same iteration, reset,
because `last_slot_window` still holds the window before. What keeps a slot from
getting two packets is that the wait for the first one takes longer than the
slot's first second.

### FlashConfig

A cell of the model is two bits wide; the record is a magic number, five fields of
one cell and a checksum of three. `Erase` sets all bits, `Program` can only clear
bits, and `PowerFails` in the middle of either leaves any subset of the cells done.
`RecordOf` cuts an SSID that does not fit, as `strncpy` does, and `Verify` compares
with the argument as it was given. A callsign or locator that is too long is cut
before the call, in `wifi_setup_save_config`, so the SSID (and, for the same reason and
with the same effect, the password) is the only field that can differ. A cell is
all or nothing: half-programmed bytes are not modelled.

Properties: `AcceptedNearlyWhole` (an accepted record is one that was built, or one
with at least two cells that read all ones; the byte sum cannot promise more),
`SavedIsDurable`, `FailsOnlyIfTooLong`, `ImplementsStore`.

### ConfigStore

What the store promises: a record or none; a write removes the old record, stores what
the new one has room for, and reports whether that was everything; only a power failure
during the first two steps leaves something that is neither. `FlashConfig` implements it
(`ImplementsStore`) with the valid record of the sector as the store, and `Station` uses it for
its flash, with the record reduced to what the next boot makes of it, so that what `Station`
assumes of a write and of a write cut short is what `FlashConfig` was shown to do.

### Station

`pc` is the point `main()` has reached, `http` the point of the request being handled:
`main()` takes no step while it is not idle (`At`), but a reset may come at any
point. `flash` is the record as the next boot sees it: none, of a network that can
be joined, or of one that cannot; it is written by the steps of `ConfigStore`. `RunNtpStuff` chooses whether the answer came within
the second that `run_ntp_stuff` waits.

Properties: `LeavesApConfigured`, `SavedWhileWaitingReboots`, `ReachesAirOrSetup`.

### DhcpServer

`mac` and `expiry` are the lease table, `now` the 32-bit millisecond clock. `Expired` is
the signed comparison of line 230. Clients are not modelled: any client may send any
message at any time, so lost, repeated and reordered messages are covered.
`left` is how long each client may still use each address, by what it was told;
`idle` is the time since an address was last acknowledged.

`Request` is a DHCPREQUEST with option 50, as a client sends it that selects an offer or has
rebooted; `Renew` is one without, as a client sends it that renews or rebinds its lease. The
code ignores the latter ("Should be NACK", `dhcpserver.c` 249), so no lease is ever renewed
in the way of the protocol: the client's lease runs out, or it starts over with a DHCPDISCOVER.

Properties: `NoSharedLease`, `OfferFree`, `HolderKeepsAddress`, `RefusedOnlyIfTaken`.
`HolderKeepsAddress` says what a client can rely on in spite of that: while it may use its address, a
DHCPREQUEST that names it is acknowledged, and a DHCPDISCOVER is answered with its own entry, not
with another one that is free. `RefusedOnlyIfTaken` says how much the 32-bit clock costs: an entry that
nobody asked for in more than half the clock's span (24.8 days) after it expired looks alive again.

### WebForm, HttpConn, DnsServer and SetupServers

`HttpConn` has one action per callback. lwIP is external: it calls what is registered on a
pcb, in any order, with the argument set last, and a pcb that was closed lives on until
`Release`. A pcb that lwIP reports as gone is gone: what lwIP makes of the calls that `tcp_server_err` still
makes on it is not in the repository. `arg` is that argument, `mem` the heap blocks with the fields of
`TCP_CONNECT_STATE_T` that the callbacks read, and `queued` what was written and not yet
acknowledged. `tcp_server_recv` takes any request and gives one of its `Answers`: it saves a complete form or
fails to, and each of its two `tcp_write` may fail unnoticed (`head`, `body`). `Refuse` is `calloc` returning
NULL. `tcp_server_err` keeps the block after `ERR_ABRT`, as the code does. `reqs`, `leaked` and
`last` are history; `MaxRequests` bounds the segments per connection.

`url_decode` writes into arrays on the stack (`Room`: 64, 64, 12 and 7 bytes) without regard to their size,
and nothing in the form limits what is typed. `Overruns` says of which queries a text is too long,
with the zero behind it; a percent-encoded character counts once, and a parameter that comes twice is
decoded twice. What happens then is undefined: either the handler returns, with any page as the answer
and something unknown saved, or it does not (`RecvOverrun`), and then nothing follows (`Running`). `toupper` cuts
callsign and locator at the size of its own arrays, which are as large, so it never cuts a text that fits.

`WebForm` writes a query as a sequence of characters in which `name=` is one symbol. `Query` is
the browser's encoding, `Param` and `url_decode` are the code's. `Characters` is the alphabet and
`Ascii` the table of the characters that a browser encodes, with their two digits; of the table the
module assumes that it has `&`, `%` and `+`, that no two characters have the same digits, and that
`&` is no digit. A character is a byte of what is typed. `url_decode` is a recursive function of the place in its argument, as the loop of
the code is; `DnsServer` counts the length of a name (`Ends`) in the same way.

`DnsServer` reduces a message to its size, three fields of its header, and the length bytes
of the labels, which are all that `dns_server_process` branches on. The walk over the name ends at
the zero, at a length over 63 (also a compression pointer), or behind the message.

`SetupServers` puts both next to each other; they share no state.

Properties: `CallbackOwnsState` (the assertion of `wifi_setup.c` 95, and no callback on freed or
foreign memory), `LeakOnlyByAbort`, `WholeUnlessPipelined` ("all data sent" is true of a connection
with one segment; with two, the lengths of the first answer are lost and the connection may
be closed with data unsent), `EveryConnectionEnds`, `SavedAsEntered` (a form that fits the arrays, as typed and
to the last byte, overruns none and is saved as it was typed; of one that does not fit nothing is promised),
`ReplyFits`, `LegalAnswered`.

### NtpSync

`main()` starts the fetch, sleeps for a second, frees the `NTP_T`, leaves the network and
goes on to the transmission loop; nothing takes the callbacks back. `block` says whose
the freed memory is: it may become part of a beacon context (`BeaconInit`). `answers`
is what the server has sent so far; each of them may be received any number of times,
in any order, while the station is on the network. `phase` is the true time when the
fetch starts, chosen so that the server's seconds may wrap. `ReadClock` and `Compute` are
the two reads of the loop, with the interrupts between them. `sync` times are
milliseconds since power-up in the code, and units since the start of the fetch here.
`inTime`, `stray` and `missed` are history.

Properties: `LagBounded` (never ahead, less than three seconds behind, also when the 32
bits of the server wrap in 2036), `ElapsedNonNegative` (it rests on leaving the network
before the loop starts: the mutant that stays violates it), `AnsweredIsSafe`.

### Ft8Message, Ft8Code and Ft8Packet

Texts are tuples of characters and payloads tuples of 77 bits; two characters, the space and the
underscore, have names. `Characters` are those of the stored texts; the store may hold any text of
its length. How bits are shifted
into bytes is left out, and wide numbers (58 and 71 bits) are kept as bytes, as TLC's
integers are 32 bits wide. Each loop of the code is a `Loop`, the function from rounds to the value
after them, as the prover loses its arithmetic behind `RECURSIVE`. The hash of a callsign is one of the two extreme values:
without a table of hashes, which the firmware does not have, only its width matters.
An uninitialised payload is one of `Residue`, each payload with at most one bit set;
CRC, parity and tones are linear up to the Gray map, so a payload with more bits
brings no new kind of error.

`Ft8Packet` has one action, the call that each slot makes before it transmits, and is
checked against a receiver that the code is not used for: the inverse of the Gray map,
the check matrix `kFTX_LDPC_Nm` (a table of its own, not derived from the generator),
a polynomial division in place of the shift register, and the decoder of
`ft8/message.c`, without a table of callsigns, as a receiver that hears the station
for the first time has none.

Properties: `SentIsPacket`, `StandardReadable` (the definition of a standard callsign
is the one of `message.h` 78-81), `TextReadable`, and `NeverMistaken` (whatever the callsign, a
receiver reads it, or a hash that it cannot resolve, and never another callsign). The tones
that the repository's `README.md` prints for one message are an assumption of the module
(`ReadmePacket`), which TLC evaluates, and so is `TablesFit`: that each bit of the message takes
part in each check of `kFTX_LDPC_Nm` an even number of times, itself and in the check bits of
`kFTX_LDPC_generator`. `IsBasecall` leaves out `3D0` and `Q`
with a letter as prefixes: they are what `3DA0` and `3X` are packed as, so a station with
such a callsign would be read as another one; no country has them.

## 3. Runs

| Run | Configuration | Bounds and why they are enough |
|---|---|---|
| `channel` | `TxChannel.cfg` | packets of 3 symbols, indices modulo 8, up to 2 interrupts per hand-over, two packets that differ in every symbol: an interrupt can hit every point of the hand-over, and a FIFO in every state; a counter of 5 units and a period of 2, so that the wrap falls at every place of a period; handlers up to 4 units, two periods, late; every start of the counter. The proofs cover the real sizes. |
| `slot` | `TxSlot.cfg` | 50 ms units: the period is 3 units (150 ms for 159), the poll 2, the delay before the stop 1; 79 symbols and 15-second slots as in the code; two windows, as only equality of windows matters; every phase of the timer and of the loop; sleeps up to one unit late. |
| `slot_timeout` | `TxSlotTimeout.cfg` | the same constants |
| `slot_tail` | `TxSlotTail.cfg` | the same durations, with every sleep ending on time and the clock below 2^32 |
| `servers` | `SetupServers.cfg` | two connections and two blocks, so that a block can pass from one connection to the other and the heap can be exhausted by leaks; two segments per connection, the least with which lengths are replaced; headers and pages of one unit, so that each `tcp_write` can be lost or acknowledged by itself; arrays of the sizes in the code; six forms, with every character that is encoded, one that fills each array to the last byte, and one with a callsign that is a byte too long. Names are asked for in the initial state only, as the servers share nothing: names of up to 255 bytes and above, messages of up to 300 and above, cut in the name, behind it and behind more records |
| `flash` | `FlashConfig.cfg` | two configurations that differ in every field and one with an SSID that is too long; any number of power failures |
| `station` | `Station.cfg` | 3 attempts as in the code, hardware that may refuse to start, 2 power failures |
| `station_promise` | `StationPromise.cfg` | no failure of hardware or power |
| `dhcp` | `DhcpServer.cfg` | 3 clients for 2 addresses, each message at any time; a clock of 18 units, leases of 5, grains of 3: the clock wraps and entries age past half its span |
| `ntp`, `ntp_alarm` | `NtpSync.cfg`, `NtpAlarm.cfg` | four units to a second, a sleep of a second, up to one unit late; a server clock of nine seconds, so that every position of the answer around its wrap occurs; an alarm after two seconds instead of ten, which is what counts: after the sleep has ended; time up to the alarm and beyond it |
| `ft8` | `Ft8Packet.cfg` | nine prefixes, two area digits and six rests, with and without suffixes, and six callsigns that no standard message fits; six locators, with the ones that read as a report or as `RR73`; every payload of at most one bit |

`Station.cfg` switches the deadlock check off: `main()` returns when the hardware
refuses to start, and transmits for ever otherwise, which is one state of that model.
`SetupServers.cfg` does, because the program may stop when a text overruns its array.

Runs that expect a violation show where the code and its comments or messages
disagree:

- `slot_timeout`: 2^32 ms (49.7 days) after power-up the "15 second timeout" expires at
  once, and every packet is cut before its first symbol (`main.c` 500-503).
- `slot_tail`: the "small delay to ensure transmission is fully complete" (`main.c` 505) does not: the
  FIFO is empty when the last symbol starts, which is 159 ms long, and the oscillator is
  stopped 50 to 150 ms later. The last symbol of every packet is cut, also when no sleep is late;
  `CutsOnlyLastSymbol` and `TailAfterLastSymbol` say that nothing else is, and by how much.
- `station_promise`: a form handled between `tcp_server_open` and `ap_mode_active = true`
  is answered by "Device will reboot", and the device does not.
- `ntp_alarm`: without an answer, the alarm of the fetch fires about nine seconds after
  the fetch is over and its state was freed (`main.c` 177-182, 281).

More that the models show and no run is spent on: a nonstandard callsign is sent as a hash in a standard message, so that receivers read
`CQ <...>`, and the message type that would carry it (`message.h` 35) is never reached
((`message.c` 718); a client's renewal of its lease is ignored (`dhcpserver.c` 247); each connection that ends with `ERR_ABRT` costs its block of heap; when the SSID does not fit, "Failed
to save" is shown although a valid record with the SSID cut off is stored
(`FailsOnlyIfTooLong` says that this is the only such case); "NTP Synced!" is printed, and
transmission started, also without an answer (`main.c` 337, 420); `watchdog_reboot` may fire while
a second form is being written (the record is then lost or torn), and
`cyw43_arch_init` is called a second time when set-up mode follows a failed connection.

**Fairness.** `TimedChannel`: the counter runs, an interrupt that was raised is handled and a started
`WSPRbeaconSendPacket` returns (weak fairness); nothing makes the caller send. `TxSlot`: time passes and
the loop and the interrupt are executed; there is no fairness between them, as `Tick`
is disabled while either has something to do. `Station`: the web server's callback
returns and the watchdog fires (weak fairness); `main()` runs again and again
(strong fairness, as each request keeps it from running for a while). `HttpConn`: lwIP's poll
timer fires on a connection that stays open (weak fairness of `tcp_server_poll`), and nothing
is asked of the peer, so `EveryConnectionEnds` rests on that callback alone, and says nothing of a program
that an overrun has stopped. `DhcpServer`
and `Ft8Packet` state no fairness: their properties are safety.

## 4. Proofs

`TxChannel_proofs` proves, for every number of symbols, modulus, tone and packet set and
bound on the interrupts that satisfy `TxChannelAssumption`: `TypeOK`, `InOrder`,
`LossBounded`, `NoLossUnlessOutputFirst`, `QuietWhileLoading` and `ImplementsStream`. The
assumption that matters is `SymbolCount + MaxTicks < IxModulus` (79 and 256 in the code).

The properties are not inductive: they speak of the FIFO outside a hand-over, and
what it holds then is decided during it. `IInv` adds where the indices and the buffer
are at each point of `WSPRbeaconSendPacket`: the write index is 0 or the packet's
length; once the read index was cleared it is at most the number of interrupts since
(`RacedInv`), and at most the number of those that came between the two stores (`BetweenInv`); the write index is 0 while the buffer is written (`ZeroInv`); a prefix is
copied (`CopyInv`); and afterwards the keyed symbols are the read part of the packet
(`KeyedInv`). `OrderInv` adds what the store order excludes. The step lemmas have one
step per action; the refinement maps the first store of `TxChannelClear` to `Begin`, an
interrupt during the hand-over to `Stray`, the commit to `Load` and any other pop to `Key`.

Of the symbol timer it proves the types, `NoDrift` and `SilentForOneSpan` for every width of the counter,
period, lead and lateness that satisfy `SymbolTimerAssumption`: the period is shorter than the
span, and a handler less late than the two together. The invariant follows the distance
between counter and alarm, modulo the span: armed, it is a period less the time since the last
interrupt; raised, it is that time (`ArmedInv`, `RaisedInv`). Which multiple of the span it is
depends on whether the handler was a period late. `TimedChannelRuns` says that in `TimedChannel` the FIFO takes
only steps of `TxChannel` and the timer only steps of `SymbolTimer`, so that all of this holds of the two together.

`NtpSync_proofs` proves `TypeOK`, `LagBounded`, `ElapsedNonNegative` and `AnsweredIsSafe` for every
length of a second, the sleep, the alarm and the server's era, and every lateness. The
assumption that matters is that the seconds since 1970 stay below an era
(`MaxTime < Second * Era`; `PhaseInv` says so of the time that is left), which holds until
2106; it is not that the server's count, which began in 1900, does not wrap before.
`LagBounded` needs to know that the answer in use was true at the moment it was accepted
(`HaveInv`), so that each answer was true when it was given (`AnswerInv`, and `WrapUndone`
for the arithmetic), and that it was accepted before the station left the network
(`WakeInv`, `JoinInv`). `AnsweredIsSafe` needs to know that a request was only sent once
the resolver's callback was over (`AskInv`), and that the memory of the fetch becomes
part of the beacon once and for all (`BlockInv`).

`DhcpServer_proofs` proves `TypeOK`, `NoSharedLease`, `OfferFree` and `HolderKeepsAddress` for any
clients, addresses, span of the clock, grain and lease. The assumptions that matter
are that the grain divides half the span and that a lease and a grain together are
shorter than it (86 400 000 and 65 536 against 2 147 483 648 ms). `LeaseInv` says where the
wrapping clock stands to the expiry time of a lease in use: the distance, modulo the
span, is at least the time left and less than a lease and a grain. So an entry in use
does not look expired (`InUse`), and no message can give it away; the entries that a DHCPDISCOVER clears lie
before the client's own (`DiscoverOffersOwn`). `RefusedOnlyIfTaken` needs the
same of entries that are no longer in use: `AgeInv` ties the expiry time to the time since the entry
was acknowledged, for as long as that is less than the span, and `LooksAlive` says for which ages the signed
comparison takes it for alive.

`TxSlot_proofs` proves, for all durations, symbol counts and lateness, and every phase of loop and
timer: `TypeOK`, `CarrierOnlyInTx` and `TailAfterLastSymbol` without further assumption; `CutsOnlyLastSymbol` if 80
symbol periods, a poll and its lateness (`PacketTime`) are shorter than the timeout (12.8 against
15 s); `CarrierInOwnWindow` if the second of the trigger, the lead, `PacketTime`, the tail and
the lateness of both fit in a slot (`CarrierTime`, 14.0 against 15 s); `FirstSymbolInTime` if lead, lateness and a
period fit in a second; and `OnePacketPerWindow` if the second of the trigger and a period are no
longer than the packet (1.2 against 12.6 s). The assumptions of a theorem are its `ASSUME`.
`Waited` bounds the time waited by the symbols that are gone, so that the timeout is
not reached (`Spent`); `InWindow` says how far into its window the carrier is at each label, with
arithmetic on quotients (`Quot`, `Less`, `Unique`) for the clock within the minute; `Keyed` bounds the
same time from below, so that the loop is back at its top only when the slot's first second is over
(`OneSent`).

`NoWindowSkipped` needs the loop to get from the end of one slot to the trigger of the next within
a second. `Passes` bounds the sleep on each path back to the top; `Due` follows a slot that has no
packet yet: the loop may find the flag of the slot before still set, reset it one turn later, and
be at the trigger within three turns of a poll and its lateness (`Turn`). So the hypothesis is
`3 * Turn < Second` (0.45 s in the run; in the code, 300 ms and the lateness of three sleeps), with the carrier
off before its slot ends and more than one slot to a minute, since in a minute of one slot
the flag would never be reset. It does not ask for the first 2^32 ms: a packet that is cut has been sent.

`FlashConfig_proofs` proves, for any texts, magic number and configurations, `TypeOK`, `SavedIsDurable`,
`FailsOnlyIfTooLong`, and that the sector implements `ConfigStore`. The invariant says what the sector
holds at each step of a write (`IInv`); `BuiltRecord` and `ReadBack` say that a record that was
built is valid and reads as its fields, `TornRecord` that a program operation cut short leaves a record of
the same kind of cells; the refinement maps each step to the step of the same name, and a
power failure to `Interrupted`. `AcceptedNearlyWhole` rests on `NearInv`, that the sector never holds
cells of two records, whatever was cut short (`TornErase`, `TornProgram`), and on `OneCellShows`, that
the sum over the cells differs when just one of them is erased.

`Station_proofs` proves `TypeOK` and `LeavesApConfigured` for any number of attempts and power failures.
The invariant adds that a record that was programmed is there when it is verified, and that
once `main()` will leave the wait loop only a further write takes the record away (`Leaving`). `StationUsesStore` says that every
step of `main()`, of the web server and of a reset is a step of `ConfigStore` or leaves the flash alone; with
`ImplementsStore` this joins the two levels: what `Station` may find in its flash is what the sector
was proved to hold.

`SetupServers_proofs` proves `TypeOK`, `CallbackOwnsState`, `LeakOnlyByAbort` and `WholeUnlessPipelined` for any number of
connections, blocks, segments, and any pages and requests. `Owns` says that a connection has its
callbacks exactly while it is open, and then a block that names it, which makes the blocks of
two connections different (`Apart`); `Accounts` says that what was acknowledged and what is
queued of one answer add up to no more than its lengths. `WebServerRuns` carries these to the two servers together.

`ReplyFits` and `LegalAnswered` are proved for messages of any size with any labels. The invariant only says that the
reply is the one to the query (`Answered`); the work is in the walk over the name. `WalkEnds` bounds where it
stops by the end of the message and the 255 bytes of the test, from which `ReplyBound` follows with the room for
type, class and answer; `LegalWalk` shows that on a legal name it stops at the zero, as every label before it
ends within the message.

`SavedAsEntered` is proved for any alphabet, table, array sizes and forms that satisfy `WebFormAssumption` and
`HttpConnAssumption`; of the forms that do not fit it says nothing (`Fits`). `Decodes` says that `url_decode` undoes the browser's encoding, whatever the text
looks like. `FirstParam`, `FurtherParam` and `LastParam` say that a parameter that is appended to a query
is found, and that it changes no other: an encoded text holds no `&` and no name (`EncodedTexts`).
With these, `QueryParams` reads the five parameters of the form one by one, each of which is there once (`Once`);
so what is written to an array is the text that was typed, and no array is overrun (`FittingStays`).

Both need induction over a sequence. The library's induction theorems take an operator as a parameter, which
the provers cannot instantiate; the proofs take the least counterexample instead, from the order of
the natural numbers (`Least`, `Backwards`). That the recursive functions `Ends`, `Decoded` and `Encoded` satisfy their equations
is proved in the same way, from the existence of their finite parts (`EndsExist`, `UnfoldingExists`).

`Ft8Packet_proofs` proves `SentIsPacket`, `StandardReadable`, `TextReadable` and `NeverMistaken` for any characters,
any callsigns of up to 11 and locators of up to 6 of them, any 22-bit hashes, and any 77 bits in
memory. The invariant (`PacketInv`) only says that the payload was made of the stored texts, or is what was in
memory, and that the tones are its tones; the work is in what the code computes of it.

- *Tones* (`EncodedIs`). The remainder that `ftx_compute_crc` keeps and the window of the long division
  differ by the bits of the message that are still to come (`Agrees`, `SameStep`), and are the same
  after the last one (`CrcDivides`). A check of the receiver is even because each bit of
  the message changes an even number of its bits (`NextOne`, `EvenChecks`); that this is so of the two tables
  is `TablesFit`, an assumption about constants of the code that TLC evaluates: the theorem rests on it
  for the contents of the tables. The Gray map is a permutation (`GrayIs`).
- *Standard messages.* A number is read back from its bits, as the halvings end in 0 (`Halvings`, `Field`);
  a field is wide enough for what is put in it (`Powers`). The six digits of a callsign come back by divisions
  (`MixedIs`, `SixBack`), and the four forms of `pack_basecall` are told apart by the decoder (`ThirdBack`,
  `SecondBack`, `GuineaBack`, `EswatiniBack`); this needs that the callsign does not begin like a packed
  `3DA0` or `3X`. For `StandardReadable` it remains that every callsign of the definition in `message.h` has one of
  the forms and fits the tables (`StandardIs`, `BaseFormPacked`), and that packing a locator can be undone
  (`GridBack`). `NeverMistaken` needs no definition: whatever was given a number is read back from it.
- *Free text.* Nine bytes are multiplied by 42 and a digit is added, thirteen times. `Grows` says that the
  result is that product, or at least 256^9 less; as 42^13 is smaller than 2^71, nothing is ever carried out
  (`FilledFits`) and the bit that is not sent is 0 (`FirstBitFree`). Then each division by 42 of the decoder
  undoes one step (`DivBack`, `UnpackIs`), and bytes and bits convert to each other (`BytesBack`).

Only model-checked:

- liveness (`Drains`, `TransmitsForever`, `ReachesAirOrSetup`, `SavedWhileWaitingReboots`,
  `EveryConnectionEnds`), which the prover cannot do;
- the contents of tables: `TablesFit`, which TLC evaluates once, as there is nothing in it but constants, and
  `ReadmePacket`, one example.

Every other property of the passing runs is stated by a theorem.

## 5. What is left

Of the properties that could be proved, none is left.

Not modelled: the oscillator and the second core (an empty submodule), output and register
writes, the receiver code (not built), the WSPR code and `WSPRbeaconTxScheduler` (without a caller),
and of the FT8 code what the beacon's one message does not reach. These stay as they are: a
model of code that never runs would say nothing about the station.

## 6. Limits

The oscillator (`PioDco`) and the Pico SDK are external: the repository does not hold
them, and the models take from the code how they are used. Time in `TxSlot` is
discrete, and a period of 150 ms stands for one of 159. The compiler is assumed to
store each FIFO index as one byte and to copy the buffer in ascending order before
it stores the write index, although nothing in the C code forces the latter two.
Of the web server, bytes
behind the payload of a request are not modelled; a text that overruns its array either stops the program or
leaves what is saved and answered open, and damage to other memory that shows later is not followed; lwIP takes
the closing of a pcb that it reported as gone as it takes the error itself. The LED, which belongs to the Wi-Fi
chip and is switched by the timer interrupt, is left out. That the time server may not answer is in
`Station` and `NtpSync`; that transmission then starts by a clock that begins in 1970 is what the code does.
Other messages than `CQ <callsign> <locator>` are not packed. Frequencies, the correction `PioDCOGetFreqShiftMilliHertz` and the spectrum are
not modelled.
