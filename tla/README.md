# TLA+ specifications of the HaaS100 demo

The repository holds demo programs for the HaaS100 board (AliOS Things) and a
small web application: a single page with three tabs, an HTTP server for the
board in two variants (Ethernet and Wi-Fi), and a reference server for a PC
that serves the same page. Below the board programs lies a vendored SDK
(`haas100/VENDORED.md`), of which the remote call mechanism *uService* carries
the event and network managers the board programs depend on, and *kv* keeps
settings in flash.

These modules model the repository's own code, the uService protocol, the
bring-up of the Ethernet program through the event service and the network
manager, and the key-value store. TLC
checks them on small instances; TLAPS proves the most important safety
properties for all values of the constants.

## Inventory

| Component | State | Operations | Hard parts |
|---|---|---|---|
| Request reader `read_request()` (three copies: `eth_http`, `wifi_http`, `e_server/server.c`) | request buffer, bytes read, Content-Length | receive header, receive body, return | arbitrary cuts of the TCP stream, `size_t` arithmetic, the last byte of the buffer |
| Board HTTP server `http_server.c` | `leds[5]`, one request buffer, the connection served | accept, read, route, `api_leds`, answer, close | one task for all clients, no receive timeout, LEDs shared with the boot code |
| Boot LEDs `startup.c`, `led.c` | LED pins | all on before the scheduler starts, all off a second later | runs next to the server |
| Host server `server.c` | `leds[5]`, shared by threads | thread per connection, `api_leds`, `/api/info` | unlocked sharing; three lookups in a row, each of which can fail anywhere |
| LED tab `app.js` | `ledStates`, checkboxes, `ledBusy`, `ledDirty` | load, click, POST loop, error path | replies overtake each other, clicks during a POST, several pages |
| ADC tab `app.js` | timer, `lastAdc`, three plots | start, stop, sample, push | overlapping samples, failing samples, timers |
| Board info tab `app.js` | five table cells | load, refresh | overlapping refreshes |
| uService `uservice.c`, `rpc.c`, `utask.c` | task queue, rpc buffers, `rpc_buffer_gc_cache` | call (waiting, with timeout, asynchronous), handle, reply, `rpc_deinit` on both sides | a timeout racing a reply, shared ownership of the buffer, a full queue, calls from handlers |
| Event service `event_svr.c`, `event.c` | queue, subscriptions, timed events | subscribe, publish, delayed publish | events before their subscribers, a full queue, callbacks that publish |
| Bring-up `app_main.c` (two) | `g_dhcp_ok`, retry counter | subscribe, wait, set address, start server | runs next to the event task on the same connection |
| Network manager `netmgr_conn.c`, `netmgr_ethernet.c` | connection state, interface, address mode, static address | link up, obtain an address, connected, disconnected | late events, unlocked sharing with the application, several calls into lwIP per event |
| CH395 driver `ch395_lwip.c` | PHY state | link up, link down | runs before there is anybody to tell |
| Key-value store `kv.c` | flash blocks and items, `block_info`, write position, `gc_trigger`, `gc_waiter`, `gc_sem` | set, get, delete, delete by prefix, collect, recover | power failure between and inside flash writes, failing allocations, waking the tasks that wait for a collection |
| Kernel, drivers, Wi-Fi, remaining components | | | vendored |
| `helloworld_demo`, CoreMark, Dhrystone, `build_web.py` | | | no concurrency, no protocol |

How they interact: the page fetches `/api/leds`, `/api/adc` and `/api/info`
from either server, each fetch over a connection of its own. On the board the
server task, the boot task and the LED driver share the LED pins. The board
programs learn of their network address through the event service, which is a
uService: the Ethernet driver publishes link changes, the network manager turns
them into calls of lwIP, lwIP's status callback publishes the lease, and the
application waits for that event. Afterwards the application changes address
mode and address from its own task. The key-value store is used by the settings
of the SDK, from any task, and has a collection task of its own.

What makes each part correct:

* the reader never leaves its buffer, and its result depends on the request
  alone;
* the board server gives back all it took, serves whoever is in the backlog,
  and lets clients see LED updates as indivisible;
* the host server keeps clients from blocking each other; a POST that nobody
  disturbs is answered with its own values;
* `/api/info` frees everything, ends, and reports each lookup on its own;
* the LED tab shows the server's LEDs and delivers clicks; its loop ends;
* the ADC tab has bounded plots that stay in step, also when samples fail;
* a uService buffer is freed exactly once, after its last use; a call that
  succeeds was handled; every call returns.
* the network manager ends up where the cable is, the static address replaces
  the one of DHCP for good, and the web server starts in any case;
* a value stored in flash is the last one set, before and after a power failure;
  the store never runs out of clean blocks and wakes whoever waits for it.

## Modules

| Module | Models | Checked by |
|---|---|---|
| `HttpRequest` | a request as a stream, `want` in machine arithmetic | with `ReadRequest` |
| `ReadRequest` | `read_request()` | `ReadRequest.cfg` |
| `LedStore` | what `/api/leds` promises: an atomic register | refined by `HttpServer` |
| `HttpServer` | server task, boot task, LED pins, clients | `HttpServer.cfg` |
| `EServer` | host server threads and the shared `leds[]` | `EServer.cfg` |
| `ApiInfo` | `api_info()`, `http_get()`, `tcp_connect()`, `read_all()` | `ApiInfo.cfg` |
| `LedTab` | LED tab of several pages, with the host server's threads behind them | `LedTab.cfg`, `LedTabClicks.cfg` |
| `AdcTab` | ADC tab | `AdcTab.cfg` |
| `UService` | callers, service task, shared rpc buffers | `UService.cfg` |
| `EthBringUp` | application, event task, network manager, CH395 link events, lwIP interface | `EthBringUp.cfg`, `EthStatic.cfg` |
| `Kv` | key-value store on two flash blocks, with power failures | `Kv.cfg`, `KvCrash.cfg` |
| `KvMap` | what users of the store may rely on: a map that changes one key at a time | implemented by `Kv`, proved |
| `*Proofs` | theorems about the module they extend; `WebPageProofs`: about `LedTab` and `AdcTab` | TLAPS |
| `MC*` | the instances TLC checks | |

Definitions called `...Variant` stand directly before the definition they are a
faulty form of (a dropped guard, an off-by-one, a missing reset). They are not
part of a specification; replacing the definition by its variant must break the
property it is paired with in `PROJECT.json`, which shows that the property
depends on that line of the code.

### ReadRequest

The bytes of a request are abstracted to where the blank line is, what `atol()`
reads after `Content-Length:`, where that number is complete, and how much the
client sends. The number may lie behind the blank line, because `strstr()`
searches the whole buffer. Then it may be incomplete when the header is found:
`shorn` is what `atol()` reads of it while its last bytes are still to come. `Arrive` adds a byte to what TCP holds, and
each `recv()` takes any part of it. `RecvHeader` is one round of the outer loop,
`RecvBody` one of the inner loop, `Return` the way out of the inner loop,
`HeaderFails` the one out of the outer loop. `want` is computed modulo `WORD`.

* `BufferSafe`: no byte and no terminator is written outside the buffer, and a
  body that is handed on lies in what was received.
* `ChunkIndependent`: for a request whose Content-Length is a header, success
  and failure depend on whether it fits and arrived, not on how it was cut.
* `Terminates`: with a request that is complete or a peer that goes away, the
  function returns.

### HttpServer and LedStore

The task is a program counter; one action per step another task can observe.
A request's bytes are reduced, by `ChunkIndependent`, to *still incomplete*,
*complete* and *does not fit*. `api_leds` stores and switches one LED per pair
of steps, `StoreLed` and `DriveLed`, so that the boot task's `BootOff` can fall
between. `led_switch()` may fail in the GPIO driver and leave the pin as it was.

* `IdleIsClean`: in `accept` no buffer is held and no connection open.
* `PinsFollow`: a LED the server switched last shows `leds[]`, except between
  the two statements of the loop; one the boot task switched last is dark.
* `LedsAreARegister`: the server implements `LedStore`. The refinement mapping
  treats a POST as done when its loop begins: `FinalLeds` is `leds[]` with the
  values still to be stored.
* `EveryConnectionEnds`: under `PatientSpec`.

### EServer

One step per LED stored and per LED read for the answer. The ghost variable
`alone` says that no other thread stored since a thread's loop began;
`UndisturbedPostEchoes` needs it, since without the proviso two POSTs mix.
`LedStore` is therefore not implemented by the host server.

### ApiInfo

One lookup after the other: connect, allocate, read, parse, perhaps a second
connection after a redirect. A response is a row of blocks (status line,
headers, blank line, body), so that reading can break off in every part of it.
Responses are chosen by the peer; some have a body without the field wanted, and
some a text longer than the array it is copied to (`pub_ip[64]`, `city[64]`,
`country[64]`, `wdesc[96]`). `value` is what a lookup contributes to the answer:
`"null"`, a text that is `"cut"` (by its array, or because the response broke
off) or the `"whole"` one. `due` records what the last response of a lookup is
worth if it arrives whole, `outcome` how the lookup ended.
`LookupsAreIndependent` compares them: when `/api/info` answers, all three
lookups have been made, one whose calls succeeded and whose response did not
break off reports exactly what is due, and one that failed reports null,
whatever became of the other two. The property `ReadAllStaysInside`
excludes the case that `realloc()` failed, in which the terminator may be
written one byte behind a full buffer.

### LedTab and AdcTab

The server behind the pages is the host's: a thread per request that stores the
LEDs of a POST one by one and then loads those of the reply one by one, without
a lock (`StoreLed`, `LoadLed`, `ServeGet`), so that the requests of several
pages mix and a reply may differ from what was sent. The board, with one
connection at a time, shows a part of these behaviours. A fetch may fail at any point;
`orphans` are POSTs whose page has given up and whose thread still has LEDs to
store. `intent` records what the user last asked for, `muddled` whether the
page's fetches overlapped or failed, or another page's POST stored a LED in
between.

* `CalmPageIsFaithful`: a page that is not muddled shows the server's LEDs, and
  the user's clicks have reached them.
* `SetLedEnds`: the loop of `setLed()`, which repeats until the reply is what
  was sent, ends for two pages. A reply that shows the other page's LEDs makes
  the page send those, so the two come to agree. Three pages can pass their
  values round in a circle and repeat for ever.
 In `AdcTab` readings are numbered
in the order the server takes them.

### UService

A member of `Calls` is one use of `uservice_call()`, from a task of its own or
from a handler in the service task. Caller and task each go through
`rpc_deinit()`: under the task's mutex a search of the cache, then either
removal and freeing or insertion. Lock and unlock are separate steps, so the
mutual exclusion is the model's to establish.

### EthBringUp

A composition of four threads: the application (`app`), the event task (`epc`),
the driver (`PhyChange`) and lwIP's thread, which owns the interface (`nif`) and
its DHCP client. Every `netifapi_...` call is one step. The steps of a callback
between two such calls are merged when no other thread can tell. `conn` is
`g_eth_conn_info`, which the application and the event task share without a
lock. Addresses are *none*, *dhcp* and *static*. The status callback
`tcpip_dhcpc_cb()` runs whenever lwIP reports a change (`Netif`); it publishes
from lwIP's thread.

Two reads through a null pointer are modelled as what they can do, a fault
(`halted`) or nothing: an event published before there is a service, and the
status callback before there is a DHCP record. `lost` records that a message
met no service, no subscriber or no room in the queue. `raced` records that the
mode was set to STATIC when the event task had already decided for DHCP.

* `ManagerFollowsLink`: with the queue worked off and nothing lost, the
  connection is up exactly when the cable is plugged, whatever successes of an
  earlier link arrived in between.
* `ConnectedIsHonest`: a connection called connected has an address, or a DHCP
  client that tries for one, outside the override itself.
* `StaticStays`: after the override an attached interface has the static address
  and no DHCP client, unless `raced`.
* `ServerStarts`, `UpLinkGetsStatic`: the two liveness properties.

The Wi-Fi half of the manager subscribes to other events and does not appear.
Leases do not expire, allocations do not fail, and the fake link changes that
the driver filters out by resetting the chip publish nothing.

### Kv

The shipped configuration has two blocks, one of them the spare. A block is the
state byte of its header and a sequence of items; an item has length one and
the position it replaced (`origin_off`). Every flash write is a step: the item,
its state byte and the block's state byte. `PowerFails` can follow any step and
leave an item cut in its header or in its body; then `kv_init()` runs, one item
per step. Every allocation may fail (`NoMemory`): in a search (`SearchFails`), for
the item to write (`SetFails`), in a deletion by prefix (`PrefixFails`), in a
collection (`GcCopyFails`) and at its start (`TriggerGc`, after which `gc_trigger`
stays set and no collection task exists), and in recovery, where it leaves the
end of an update undone (`BootReplaceFails`) or ends the traversal of a block
(`BootItemFails`). The latter leaves `block_info[].space` at 0. If the block
is the one to write to, `write_pos` lies at its end, and the items written next
overwrite the header of the other block or lie behind the last one; the model
stops there (`"astray"`), since a sequence of items no longer describes such a
flash. `may[k]` holds the values a read of `k` may return: one after a set or
delete has returned, two while it is under way.

* `Durable`: reads return a value in `may`. Exempt (`exposed`) are the keys for
  which a search, a copy, a deletion by prefix or the end of an update found no
  memory, because the code goes on as if nothing had happened, and keys with an
  item at its own `origin_off` while a collection copies it, when power fails.
* `Persistent`: the same without exemption, in the run that ends in a
  counterexample.
* `OneLiveItem`, `SpareBlock`, `GarbageIsMarked`: an update cut by a power
  failure is finished; one block is clean and empty, the other takes the writes;
  garbage is where the collection looks for it.
* `OnlyLateWaitersStrand`: a task that stays blocked after a collection had seen
  `gc_trigger` but was not yet waiting when the collection posted, or the next
  collection had reset `gc_waiter` before that, or it waits for a collection that
  could not be started, as every later set then does. The code has these two
  ways to strand a task; the property says that it has no other.
* `StoreIsAMap`: the store implements `KvMap`, a map from keys to values in which
  a task asks for a change (`Ask`) and the change is made in one step (`Make`) or
  given up (`GiveUp`); nothing else touches a key that is not `lost`. The
  refinement mapping (the last section of `Kv`) gives a key the value a recovery
  would leave it (`Stored`), a task the changes it has not made (`Todo`), and
  takes `exposed` for `lost`. A set takes effect when its item is written, if
  recovery would finish the update from there, and with the deletion of the old
  item otherwise. Collections, recoveries and power failures are steps that leave
  the map alone.
* `ReadsTheMap`: whenever the store can be read, a read returns what is in that
  map, so the mapping is not one that merely suits the proof.

## Runs

Runs that pass:

| Run | Instance | Shows |
|---|---|---|
| `read_request` | buffer of 9 bytes, `size_t` modulo 40, requests with blank lines, lengths and Content-Length around every limit, negative, huge and partly arrived numbers included | the three properties above |
| `http_server` | two clients, two LEDs, backlog 1, `PatientSpec`; a GET, a POST with a value to normalise, an unknown path and a garbled request line | safety, refinement, every connection in the backlog ends |
| `e_server` | two clients, two LEDs | echo of undisturbed POSTs, silent clients are harmless |
| `api_info` | responses of up to 7 blocks, chunks of 2, texts that fit their array and texts that do not | buffer, leaks, what each lookup reports, termination |
| `led_tab` | two pages, one LED, two clicks | a calm page is faithful; the POST loop ends, also when another page's LEDs make it repeat |
| `adc_tab` | two plots of 2 points, two fetches at a time, 5 fetches | lengths, last point |
| `kv` | two tasks, two keys, two values, blocks for two items, one power failure or failed allocation, and any failures of allocations in `kv_init()` | durability, recovery, roles of the blocks, waiting tasks, for a fault at any step |
| `eth_bring_up` | three PHY changes, one round of waiting and of polling, a queue of six | link, address and start of the server under all interleavings |
| `uservice` | three calls of all kinds, queue of 1, two tries | buffer ownership, no mixed-up replies, every call returns |

Runs that end in a counterexample, each against a sentence of the repository:

| Run | Sentence | Counterexample |
|---|---|---|
| `led_tab_clicks` | `app.js:84` "coalesce clicks mid-flight" | a second click during the POST is undone by the reply |
| `kv_crash` | `kv/package.yaml:5`, persistent storage | an item that a collection moved back to its `origin_off` is deleted by recovery when power fails in the next collection |
| `eth_static` | `app_main.c:57` "use a unique static IP in the same subnet instead" | a link-up handled during the override starts DHCP after the application stopped it |

The counterexample of `kv_crash` has 52 steps: set, update and two collections
put an item back where `origin_off` points; in the third collection its copy in
the CLEAN block looks like an update of it, recovery deletes the original, and
the block with the copy is formatted because there is no other clean one.

More disagreements are visible in the code and have no run:

* `/api/leds` answers from the array `leds[]` and never reads the pins, so right
  after boot it reports dark LEDs while they are lit (`e_server/README.md:98`
  says it reads "the real on-board LEDs"); `PinsFollow` says exactly how far
  array and pins agree.
* `http_get()` takes all text after `Location:` for the new location, so the
  path of the second request carries the rest of the first response
  (`server.c:155` "Follows one http->http redirect"); `ApiInfo` abstracts paths.
* `read_all()` takes a timeout for the end of the response, so a body that
  breaks off is reported (`server.c:343` "any failure -> null"): in `ApiInfo` a
  `value` can be `"cut"`.
* A GET served before a POST and answered after it leaves old checkboxes
  (`e_server/README.md:33` "checkboxes reflecting the board LEDs"):
  `CalmPageIsFaithful` speaks of pages whose fetches did not overlap.
* `showTab()` leaves the sampling timer running (`index.html:46` "samples are
  polled only while this tab is open"): in `AdcTab` it goes on in every tab.
* A call that finds the queue full leaves its buffer in the cache
  (`uservice/README.md:105`, `rpc_deinit` reclaims the rpc):
  `SentBuffersReclaimed` speaks of calls that were sent.

* After an allocation that fails in `kv_init()` the store may write over the
  header of a block (`kv/package.yaml:5`, persistent storage): the state
  `"astray"` of `Kv`, which is not followed.
* After a `kv_start_task()` that fails, every `kv_item_set()` waits for ever
  (`OnlyLateWaitersStrand`); no text of the repository speaks of it.

### Bounds

Two clients, pages or fetches are enough for every pairwise interleaving the
properties speak of, and three calls for one that waits, one that fills the
queue and one from a handler. Two LEDs are enough for a loop that has a first
and a last round and a step of another task between them. In `led_tab` one LED is
what a liveness check of two pages with orphaned POSTs leaves room for: another
page's POST falls between the store and the load of the LED; what two LEDs add, a
vector mixed from two POSTs, is covered by the proof of `CalmPageIsFaithful`,
which is for every number of LEDs, and not by `SetLedEnds`. Buffers of a few bytes
have the same boundaries as large ones: the reader compares sums of offsets
with one size. `MaxClicks`, `MaxFetches`, `MaxStarts` and `MAXLEN` bound what
users and peers do; `Slots` bounds fetches in flight, which the code does not.
The proofs do not use these bounds.

In `kv` the third write needs a collection, a collected item can come back to
the place it was updated from, and one task can wait while the other starts a
collection. `MaxFaults` bounds power failures and the allocations that fail
outside `kv_init()` (those inside are few and not bounded); `MaxSem` bounds
surplus posts, `MaxPosting` collections that have not yet posted. In `eth_bring_up` three PHY
changes (`MaxFlaps`) are a link before, during or after the override with an
interruption; the five subscriptions and the link events can fill the queue of
six; a second round of waiting or polling would repeat the first.

### Fairness

* `ReadRequest`, `HttpServer`, `UService`: weak fairness of each task, which
  the kernel's scheduler gives every task that is ready. Clients promise
  nothing in `Spec`. In `HttpServer!PatientSpec` each client sends the rest of
  its request or hangs up: `lwip_recv` has no timeout, so without that
  assumption one silent client stops the server, and `EveryConnectionEnds` does
  not hold.
* `EServer`: weak fairness of each thread and of `accept()`, which takes
  connections in order. No fairness of clients.
* `ApiInfo`: weak fairness of the worker; sockets have a receive timeout of 5 s
  and `connect()` one of the system, and responses are finite.
* `LedTab`: a fetch ends, with a reply or with an error. Users promise nothing.
* `EthBringUp`: weak fairness of the application and of the event task. None of
  the cable and none of DHCP, so the web server has to start without both.
* `AdcTab` and `Kv` have safety properties only. (A task of `Kv` can wait for
  ever, see `OnlyLateWaitersStrand`.)

Deadlock is checked except where a behaviour may really stop: `read_request()`
has returned, all remote calls have been made, the server task has ended
because it could not listen, the board has faulted or waits for a link change,
or all tasks of `Kv` wait.

## Proofs

All proofs have the same outline: an inductive invariant that TLC can check on
the same instances, a lemma for `Init`, a lemma with one step per action, and
theorems that draw the properties from it.

* `ReadRequestProofs` (`TypeCorrect`, `BufferIsSafe`, `ResultIsChunkIndependent`), for
  every buffer of at least two bytes, every word size of at least four times
  that, and every set of requests (`SizesAssumption`, `RequestsAssumption`).
  Invariant: what each control point knows; in the outer loop the blank line
  has not been seen, in the inner loop `want` and `cl` are those of the request
  and fit, and a return leaves only what was received.
* `HttpServerProofs` (`TypeCorrect`, `IdleServerIsClean`, `PinsFollowLeds`,
  `ServerIsARegister`), for every set of clients, number of LEDs, backlog and
  set of requests (`ServerAssumption`). Needed besides the properties: a buffer
  is held exactly from `read` to `reply`; the clients in the backlog are the
  queued ones, each once, and only the current client is open; the loop counter
  is within the request's values; what the loop has passed is stored. The last
  theorem shows step by step that every action of the server is a step of
  `LedStore` or leaves its variables alone.
* `ApiInfoProofs` (`TypeCorrect`, `ReadAllIsSafe`, `InfoCleansUp`,
  `RedirectsOnce`, `LookupsIndependent`), for every chunk size, response length
  and number of attempts (`ApiInfoAssumption`). Needed: where a socket and a
  buffer are held, and that a buffer holds at least two chunks and is at most
  full when the loop comes round; for the last theorem, that a lookup has an
  outcome exactly when it is over, that a failed one has found nothing, and that
  what is taken from a response that did not break off is what is due for the
  response that was read.
* `UServiceProofs` (`TypeCorrect`, `NobodyUsesAFreedBuffer`, `SentBuffersAreReclaimed`,
  `OkIsHandled`), for every set of calls, queue length and number of tries
  (`UServiceAssumption`). The heart of the invariant: a buffer is in the cache
  when exactly one side has been through `rpc_deinit()`, freed when both have,
  and what a search found stays true while the mutex is held.
* `EServerProofs` (`TypeCorrect`, `PostsEcho`), for every set of clients, number
  of LEDs and set of request values (`EServerAssumption`). `UndisturbedPostEchoes`
  speaks of the moment of the reply only; the invariant follows the two loops: a
  thread that nobody has disturbed still finds in `g_leds` what it has stored so
  far, and what it has loaded is what it stored.
* `WebPageProofs`, on both tabs of the page. LED tab (`TypeCorrect`,
  `CalmPagesAreFaithful`), for every set of pages, number of LEDs, fetches in
  flight and clicks (`LedTabAssumption`). Needed: what a
  request or reply in flight carries, `ledBusy` exactly while a POST is in
  flight, and that an undisturbed page has at most one fetch, which will bring
  the page and the server to the same vector, the one the user wants. ADC
  tab (`AdcTypeCorrect`, `SeriesHasNoGaps`, `LastPointIsCurrent`), for every set of plots and number of points and
  fetches (`AdcTabAssumption`). Needed: a fetch
  that has not ended stands for at most one reading and one point, which is a
  count of the fetches in flight.
* `EthBringUpProofs` (`TypeCorrect`, `ManagerFollows`, `ConnectedHonest`,
  `StaticStaysStatic`), for every queue length and number of link changes.
  None of the three is inductive: the invariant (`Inductive`) relates the
  manager to the events still queued. The last link event in the queue tells
  where the cable is; a connection is up only after the events before it were
  handled; once the static address is set, and no link event raced with it, DHCP
  is stopped for good.
* `KvProofs`, for two blocks (as shipped) of every size, every set of keys, values
  and tasks and every number of faults (`KvAssumption`), in three layers. A failed
  allocation in `kv_init()` may end in `"astray"`, up to which the invariants
  hold and after which nothing is claimed; none of the properties sees such a
  store as readable.
  * `Inductive` is about blocks, locks and marks: `TypeCorrect`, `AlwaysASpare`
    (`SpareBlock`), `NoLostGarbage` (`GarbageIsMarked`) and `StrandedAreLate`
    (`OnlyLateWaitersStrand`) follow from it. It says who holds the lock at each
    control point (`OpInv`, `LockInv`), what `block_info` and the write position
    say about flash (`DiskInv`), what each phase of `kv_init()` has established
    (`BootInv`), that either a block is spare or a collection is moving items
    into the one that was (`StoreInv`), and which blocks and waiters are accounted for
    (`OldInv`, `MarkInv`, `WaitInv`).
  * `StoredInv` is about items: `StoredIsDurable` (`Durable`) and `NoSecondItem`
    (`OneLiveItem`) follow from it, for every key outside `exposed`. Two live
    items of a key are either an update that is being finished, or an item and
    its copy (`Pairs`); the original of a copy lies in the part of the block the
    collection has passed (`Originals`); every item passed has its copy
    (`Copies`); every live item has a value a reader may get (`Values`); a task's
    own item is the one it found (`TaskOf`). Each part is there for one step:
    `Copies` lets the collection erase the old block, `Originals` lets
    `kv_init()` format a block that was being filled, and `Pairs` makes recovery,
    which deletes the item named by `origin_off`, delete the older one of the
    two. A key becomes exposed when the power fails with two of its items live
    that recovery cannot tell apart, which the model records.
  * `StoreImplementsMap` (`StoreIsAMap`) and `ReadsAreTheMap` (`ReadsTheMap`) are
    the refinement, one lemma per action. They need two facts more (`MInv`):
    what `kv_init()` has passed in the block it reads names no other live item of
    its key (`PassedInv`, for keys that are not exposed), and an operation's kind agrees with what it is doing
    (`OpKindInv`). The core is `Known`: of the at most two live items of a key,
    which one recovery keeps, and hence the value the key has in every phase.
    `Durable` allows either of two values while an operation is under way; the
    refinement says more, that a key that is not exposed has one of them at a time
    and never goes back.
  * `LeastNumber`: a nonempty set of naturals has a least element. The searches
    in the model choose the first item with a property, and the proofs need to know that
    there is one. It rests on the library's theorem on well-founded sets.

Only model-checked:

* all liveness properties (`Terminates`, `EveryConnectionEnds`,
  `SilentClientIsHarmless`, `InfoAnswers`, `SetLedEnds`, `CallsReturn`,
  `ServerStarts`, `UpLinkGetsStatic`): the prover handles neither fairness nor
  `ENABLED`;
* the three disagreements between code and text, which a counterexample shows.

Only proved, not in a run: `StoreIsAMap` and `ReadsTheMap`. Given to TLC they hold
in the instance of `kv` (2,623,817 states) and in the same with one task (115,715
states); they are left out of the run because the refinement mapping is evaluated
on every step and makes it about twice as slow.

## Not modelled

* The contents of pages and answers, JSON layout, drawing of the plots.
* `api_adc()`: reads the ADC or computes a wave; no state.
* The rest of the vendored SDK, which is nearly all of the repository's lines:
  kernel, drivers, lwIP beyond the interface and its DHCP client, the Wi-Fi
  manager on a prebuilt driver without source, the libraries of the chip, and
  generated arrays with the web page. Queues, semaphores, mutexes and sockets
  appear as the modelled code uses them.
* Timed events and descriptors of the event service: nothing in the firmware
  uses them, so their list is always empty.
* `application_start()` of the Wi-Fi program: it polls for an address and starts
  the server, and shares nothing with another task.
* `loadBoardInfo()`: it fills five cells from one reply and keeps no state.
* Creation and destruction of uService tasks, which the board programs do once;
  `kv_deinit()`, which nothing calls, and the encrypted items of `kv_secure.c`.
* A uService call that waits for its own task, which never returns.
* In `Kv`: errors of the flash, a CRC-8 that matches a value which was cut, and
  what a store does after a failed allocation has led `kv_init()` astray.
* The demo programs without shared state, the benchmarks and the asset
  generator.

## Plan

All modules planned are there. What could follow:

1. `SetLedEnds` for two LEDs, which needs a smaller model of the orphaned POSTs.
2. A flash of bytes under `Kv`, to follow a store that was led astray.
