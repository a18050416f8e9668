# Ispof in TLA+

Ispof is a web panel for QUICochet tunnels: one Go process that stores tunnel
configurations as JSON files, drives `quiccochet@<name>.service` units through
`systemctl`, scrapes their metrics and streams their state to browsers. This
directory specifies it in TLA+, checks the specifications with TLC and proves
their safety properties with TLAPS. `PROJECT.json` maps each definition to the
source lines it stands for.

    tlc -workers 2 -config MCStore.cfg MCStore      # any run of the table below
    tlapm StoreProofs.tla                           # and the other *Proofs

## The system

| component | source | state | operations |
|---|---|---|---|
| tunnel store | `internal/store/store.go` | `<name>.json` files, temporary files, `cache`, `cacheNeedReload`, `mu` | `List` `Get` `Create` `Update` `Delete` (`Import` and `InvalidateCache` have no caller) |
| JSON codec | same, 193-266 | none | `UnmarshalJSON` `MarshalJSON`, the `Extra` map |
| event log | `internal/events/log.go` | ring `buf`, `head`, `full`; `listeners` and their channels | `Push` `Recent` `Subscribe` `Unsubscribe` |
| handlers, state cache, detector | `internal/api/handlers.go` | `stateCache`, `lastSeen`, each request's locals | create, update, delete, import, the five actions, views; `stateFor`, `invalidateState`, `DetectStateChanges` |
| systemd driver | `internal/procmgr/manager.go` | none | `Start` `Stop` `Restart` `Enable` `Disable` `State` `FindExternal` `Logs` `TailLogs` |
| tunnel units | `systemd/quiccochet@.service` | systemd's active state, enablement, queued job | start, stop, die, exit, restart after `RestartSec` |
| scraper | `internal/scraper/scraper.go` | `history`, one ring per tunnel name | `scrapeAll` `push` `Latest` `History` `Rate`, the parser |
| discovery | `internal/discover/discover.go` | none | `Discover` (three sources, deduplicated), `ReadConfig` |
| panel process | `cmd/ispof/main.go` | the background goroutines, the server | boot, detector loop, shutdown |
| state stream, log tail | `handlers.go` 623-750 | each connection's channel, the tail's leftover bytes | the `select` loop, the line splitter |
| browser | `internal/webui/assets/index.html` | `tunnels`, `events`, `rateCache`, `history` | SSE listeners, `ingestSnapshot`, forms, peers list and raw editor that PUT a whole tunnel |
| HTTP delivery, key generation, installer | `webui/server.go`, `cryptoutil`, `scripts/` | none at run time | |

How they meet. Every handler and loop calls the **store**; the mutex is the
only thing that orders them. Handlers, the detector and the streams share the
**state cache** and, handlers and detector, **lastSeen**; each has a mutex that
is held for a look or an update, never across a `systemctl` call. Handlers, the
detector and the start-up discovery **push events**; each SSE connection
subscribes a channel of 32. **systemd** acts on its own: a unit may die, exit,
come back, or finish a job whose `systemctl` was killed by the 10 s timeout.

What is hard, and what must hold in spite of it:

* store: crashes between the system calls of `write`, errors under the lock,
  a cache beside the files. It must behave as one atomic store, its entries
  must never be half written, no write may slip past its listing, its lock must
  always be freed.
* event log: pushers beside pushers, full channels, departing subscribers. The
  ring must hold the latest events, each subscriber get each event once, no
  client delay a request.
* handlers and detector: looks and calls far apart in time, probes that
  overtake each other, failures and time-outs. A delete must leave nothing
  behind, an answer not be stale, the true state come to be seen and reported.
* scraper: per-name histories in order, of this tunnel and not of an earlier
  one of its name.
* stream and browser: subscription, snapshot and list answers travel in any
  order, and a metric that JSON cannot have empties them. No event falls between
  snapshot and stream, the tab comes to show what the server has, a chart never shows more than was carried.
* log tail: reads cut lines anywhere, clients leave. Lines come out whole, each
  as soon as it is complete, and no `journalctl` is left behind.
* editing: tabs with copies of any age save whole tunnels. What the panel does
  not know survives, what it computes is not stored.
* discovery: three sources that name one file in several ways, beside imports
  and deletes. A scan is exact, an import accounts for every path, what was
  deleted stays away.
* panel: boot with missing pieces, shutdown with open streams, restarts.

## The modules

| module | what it is |
|---|---|
| `Tunnels` | the data: tunnel, file, request, reply; what `validateTunnel`, `Update`, `List` and `loadFile` compute |
| `TunnelStore` | abstract store: a call takes effect at one instant, or fails and has none; a crash loses calls, never files |
| `Store` | the store as it is: `RWMutex`, cache, temporary file, rename, errors, crash |
| `StoreProofs` | theorems about `Store`, and that it implements `TunnelStore` |
| `EventLog` | the ring and the subscriptions |
| `EventLogProofs` | theorems about `EventLog` |
| `Lifecycle` | handlers, state cache, detector, `systemctl` and systemd, over one-step store calls |
| `LifecycleProofs` | theorems about `Lifecycle` |
| `Scraper` | the scrape loop in real time: ticker, rounds, time-outs, histories, and tunnels that come and go |
| `ScraperProofs` | theorems about `Scraper` and `Rates`, as parts of `Metrics` |
| `Exposition` | the parser of what is scraped |
| `Rates` | the charts a tab draws of it |
| `Metrics` | `Scraper`, `Exposition` and `Rates` side by side |
| `Stream` | the SSE handler, the wire and the tab that listens |
| `StreamProofs` | theorems about `Stream` |
| `LogTail` | the log tail: `journalctl`, reads, the line splitter |
| `LogTailProofs` | theorems about `LogTail`, as a part of `Serving` |
| `External` | the lookup of processes that run outside their unit |
| `Serving` | `EventLog`, `LogTail`, `External` and `Panel` side by side |
| `Editing` | the JSON codec, `Update`'s merge, the view, and tabs that edit one tunnel |
| `EditingProofs` | theorems about `Editing` |
| `Discovery` | scans, imports and deletes of configurations from elsewhere |
| `DiscoveryProofs` | theorems about `Discovery` |
| `Panel` | `main` under systemd: boot, workers, listener, shutdown, restart |
| `MC*` | small instances |

`Lifecycle` rests on `Store`: the refinement theorem is why one store call may
be one step there. `Stream` takes the event log as a count of events and one
channel for each subscriber, and what `List`, `stateFor` and `Latest` say
together as a version number. Its pushes come one at a time: `ChannelsInOrder`
and `DeliveredOnce` say that `EventLog` then gives each channel the events in
their order and without a gap. Pushes that overlap may send in another order
than they record; those are in `EventLog` only. `Editing`'s
file is one entry of `Store`, with the inside of a document that `Store` leaves
opaque. `Lifecycle`, `Scraper` and `Stream` take a listing as complete or failed;
that one may lack files that could not be read is in `Store` and `TunnelStore`
only. `Metrics` and `Serving` hold components that share no state; in `MCScraper`
and `MCServing` `part` chooses at the start which of them moves, the others stay
at rest, so that the states add up and do not multiply.

### Store

`files[n]` is the entry `<n>.json`: absent, malformed, or a tunnel with the name
embedded in it (which, for files placed by hand, may be another). `tmp` is the
`.tmp-*.json` of the write in progress, malformed until it is filled;
`leftovers` are the complete ones that crashes left. `cache` is `Nothing` for
nil. A caller moves through `pc`: `called`, then `reload` (List after the read
lock), `locked`, `temp`, `fill`, `rename`, `changed` (before
`invalidateCache`), `done`. What runs under the read lock is one step, because
files and cache change only under the write lock. What runs under the write
lock is split at the system calls of `write`, since a crash can fall between
any two; `WriteFails` is an error of any of them and the deferred `Remove` and
`Unlock`.

Any file may refuse to be read or looked at, at any moment. `Get` and an update
then fail (`Loads`, `UpdateUnread`); `ListReload` leaves such files out of the
listing (`unread`), which List keeps as valid until the next write; and a create
whose `os.Stat` fails takes the name for free and replaces the file
(`CreateBlind`, `blind`). `TunnelStore` says the same of its calls: a listing that
was answered stands (`listing`, the refinement's `Standing`) until a write, a
delete or a crash. `Crash` keeps the files and the temporary file, if complete, as a
leftover: the name `.tmp-*.json` has the extension that `List` looks for.

Abstracted: a configuration is an opaque value that `validateTunnel` accepts or
not; `Extra` is an opaque value or nil; timestamps are left out; a listing is a
set, not sorted; the deferred `os.Remove` of the temporary file succeeds; files
placed by hand are there from the start (`Init`), not added later; an
incomplete leftover, which no operation can see, is forgotten. `tmp` is one
variable because only the lock's owner has one.

### EventLog

An event is the moment it was stamped. `Push` is three kinds of steps: `Stamp`
(before the lock), `Record` (under the lock: slot, head, copy of the
listeners), `Send` (one `select` with a `default` for each listener). `full` is
not modelled: `Recent` (83-98) reads neither it nor the slots that are zero.
`recorded`, `since`, `received` and `dropped` are history variables.

### Lifecycle

One action per lock region or external call of each handler. `cache[n]` is
`"none"` when there is no entry or it is older than 1.5 s (`Expire` may happen
at any time: no clock is modelled). `Probe` reads systemd, `Fill` stores what it
read, possibly much later. `Systemctl` is a call that returns 0;
`SystemctlFails` one that fails, with the job still queued in systemd when it
was the timeout that ended it: run gives up after 10 s, a stop may take 15
(`JobEnds`). `Dies`, `Exits` and `AutoRestart` are systemd and the daemon.
`told` is what the event log last said about the tunnel's state; `alone` is a
history variable: nobody else was at work on the same tunnel during this
request, none of its own calls failed, and systemd did nothing that the request
would have had to see.

Abstracted: `failed` and `deactivating` units count as inactive; `FindExternal`
adds data to a state and changes none; the order in which the detector takes
the tunnels of a listing is arbitrary; a list or stream view is one look at a
tunnel; an action whose `Get` meets an unreadable file ends as for a missing one,
and a delete goes on without the source, which is in `Discovery`.

### Scraper

Time is a number, in a unit of which the interval and the HTTP time-out are
multiples. It does not pass (`Pass`) while the loop is free to take a tick, nor
beyond the time-out of a request: the program's own steps cost nothing beside
the seconds of its waits. Within that, an endpoint may answer at any moment,
and requests may come at any moment. `tick` is the ticker's channel, which
holds one tick and loses the next; it is full at first because the first round
is eager. `Round` is `targets()` and the start of the goroutines, `Push` the end
of one, whatever came of its request; a round is over, and the next possible,
when `running` is empty (`wg.Wait`). A listing that fails costs its tick
(`RoundFails`).

`life` tells the tunnels of one name apart, `since` and `began` are history
variables for the properties. `Fresh` bounds the age of what the panel shows:
one period after the last round, plus the time-out of the round under way, plus
a period for each failed listing, a period being the longer of interval and
time-out.

Abstracted: what an endpoint answers; that the address changes (an update
gives one or takes it away); a sample is a moment and the tunnel it came from.
`time.Now` is taken to be monotonic, which it is within a process.

`OnTime` has the premise that the time-out is within the interval. The
defaults (10 s and 3 s) meet it; `-scrape-interval` accepts less than 3 s, and
then a slow endpoint does delay the loop, which `scraper.go:10-11` rules out.

### Exposition

`Parse` (267), line by line: a line is a sequence of tokens, which are words,
numbers (what `ParseFloat` accepts, `NaN` and `Inf` too) and the characters the
parser looks for. `Text` is what an endpoint writes for a line; `Trimmed`, `Ends`,
`Upto`, `Pieces`, `Canonical` and `Key` are what `parseLine`, `splitNameLabels`
and `canonicalizeLabels` do with the tokens: trim, the first space outside braces,
the cut behind the value, the split at commas, the sort. Pieces that are sorted
and joined are a bag of pieces, as none holds a comma. `Scan` is one turn of the
scanner, `TooLong` a line beyond its buffer. Abstracted: the characters of words
and numbers.

`ParsedAsMeant` is about texts whose label values hold no brace and at most one
comma (`Plain`); the lines between them may be anything. With two such commas it
is false: `a="x,y",c="z,w"` and `a="x,w",c="z,y"` are the same pieces. The instance
has these lines, lines with a brace in a value and lines with text behind the
brace, so the premise is not for want of them.

### Rates

A tick stands for 5 s. `Tick` lets bytes flow, the daemon restart (its counter
falls to 0) and a scrape that is due succeed or fail; `Ask` and `Land` are the
two ends of a list request, `Snapshot` the stream's message, `Miss` one that is
lost. `Ingest` is `ingestSnapshot` (1192) for one tunnel and one counter; the
other counters, the RTT and the sparklines are treated alike. A point keeps
the bytes it shows (`drawn`) and the counter it shows them from, not a quotient.
History are `total`, the traffic that really was, and the `sum` and `at` of a
sample or point: `total` when it was scraped, and when that was. A list's answer
may land after a snapshot that is newer than it; `NeverOverstated` says nothing of
such a point, which turns the chart back.

### Stream

`ReadTunnels`, `ReadEvents` and `SendSnapshot` are the closure `send` (652), at
once and at every tick; `Forward` the channel's branch of the `select`. The
subscription (650) precedes the first snapshot; between the two, and between
the two reads of a snapshot, anything may happen. `wire` is what lies between
handler and tab. `Take` is the listeners of `connectSSE`; `Hide` and `Show` the
visibility handler, which closes the stream and on return connects and asks for
a list; `AnswerList` and `TakeList` a list request, in no order with the stream.
While `unfit` holds, some tunnel's latest sample has a value that JSON cannot have
(`ParseFloat` takes `NaN`): `json.Marshal` fails, its error is discarded, and the
snapshot goes out with empty data (`Form`), at which the tab's `JSON.parse` throws;
a list's answer is empty too. `Spoil` and `Mend` begin and end that.
`dropped` and `sent` are history. Left out: the connection's pill and the
discovery banner, which nothing reads back.

### LogTail

A byte is its position; of its content only matters whether it is a newline. A
line is an interval of bytes. `Read` takes some of what is there, at most
`ReadSize`, `Split` sends one line, `Keep` makes the rest the leftover, the
client may go at any moment, which kills `journalctl` (`exec.CommandContext`).
A read never takes bytes that are not written: `Read` waits. Nothing is assumed
of the output but that it grows.

### External

`Look` is `systemctl show` in `stateFor` (94-113), `FindExternal` the `ps` that
follows when the unit is not active, `Remember` the cache; between the three the
unit may start, stop, die, and processes come and go. `Args` is the config on a
process's command line, of four kinds: the unit's, the panel's path, `<n>.json`
elsewhere, another.

### Editing

A document is what the panel tells apart: one setting the form has a field for
(`Unset` where it is missing, for which the form shows a `Default`, and saves it),
a typed key the form has no field for, an unknown key inside a typed block, the
peers, the unknown keys of the top level. `Decoded` is the round trip of
`UnmarshalJSON` and `MarshalJSON`, `Stored` what `Update` makes of a PUT, `View`
what `fullView` sends. Each tab has its copy (`state.tunnels`), the page it
rendered from some copy, and at most one save under way, which the store may
refuse. `Refresh` replaces the copy, and the page only where
`lastRenderedDetail` asks for it. `base` and `owed` are history.

One setting stands for all fields of the form. What a save writes beside them, at
the user's wish or not, is left out: `admin` and `metrics` are switched on,
`logging` is built anew with its level alone, and for a server the peer's key and
the like become empty (2361-2413). `FreshSaveIsLocal` counts those among what the
form edits.

### Discovery

`LinkTo` and `Abs` are symbolic links and `filepath.Abs`. The candidates of a
strategy are in `queue`; `AddHit` is one call of the closure of that name (91);
`Visited` the known directories and `find`, cut short anywhere by its budget;
`Unreadable` a candidate whose file `fillMeta` cannot read. `ImportOne` is one path
of a request, which any check may refuse. `Delete` and `DeleteSource` are the two
ends of `deleteTunnel` as far as the import source goes: when the tunnel's file
cannot be read (507), the tunnel is removed all the same and its source is left
(524). `Operate` is an operator who creates or removes a file. `quiet` (nothing
disturbed the scan), `asked`, `gone` and `since` are history. One scan, one import and one delete at a time.

### Panel

`host` is what `main` finds: the flags it is passed, whether `systemctl` exists,
whether there is a tunnel, whether the port is taken. Boot is `ParseFlags`,
`OpenStore`, `Wire`, `Listen`, with the ways they fail; `Detect` is the panic of
the nil `Manager`; `Drain` and `Return` are `Shutdown`; `Stop`, `Reap` and
`Relaunch` are systemd with `ispof.service`. A stop before `NotifyContext` ends
the process at once. The rate limit of restarts and systemd's own SIGKILL are
left out. A stream ends when its client goes or `ReadTimeout` passes, whichever
comes first (`Disconnect`).

## The runs

| run | instance | states | checks |
|---|---|---|---|
| `store` | 2 callers, 2 names, 3 configurations (one refused), one unknown field, 6 requests, 1 leftover | 137 000 | `TypeOK`, `CacheCoherent`, `AtomicReplace`, `ExtraSurvives`, `CallsReturn`, `Linearizable` |
| `store_ghost` | the same, no files at first | | violates `ListedIsStored` |
| `store_short` | the same as `store` | | violates `ListedInFull` |
| `lifecycle` | 1 tunnel, 2 handlers (start, delete), detector, 1 mishap | 2 000 000 | `TypeOK`, `CleanDelete`, `AnswerIsCurrent` |
| `lifecycle_live` | 1 tunnel, 1 handler (start, view, import, create, update), detector, 1 mishap | 655 000 | `DetectorConverges`, `ViewConverges` |
| `lifecycle_missed` | the same, no mishap | | violates `ChangesReported` |
| `scraper` | the loop: 2 names, each created up to twice, interval and time-out of 2, histories of 2, 9 units of time, 1 failed listing; the parser: 29 kinds of line, texts of up to 3; the chart: 6 ticks of 5 s, answers up to two ticks late, 2 points kept | 1 907 000 | `TypeOK`, `Chronological`, `Fresh`, `OnTime`, `ParsedAsMeant`, `NeverOverstated` |
| `stream` | 1 tab, channel of 1, snapshots of 2 events, 4 kept, 2 messages on the wire, 1 change, 3 events, 1 trouble | 373 000 | `NoGap`, `AtMostTwice`, `Converges` |
| `editing` | 2 tabs, a setting or none, 2 peers, 1 unknown key, 3 edits, a bare and a full file | 566 000 | `TypeOK`, `UnknownSurvive`, `StateStaysOut`, `FreshSaveIsLocal` |
| `discovery` | 2 files and the panel's own, one named in two ways, plain, bare or a link; 2 scans, 3 imports and deletes, 1 operator's change or failure | 1 311 000 | `ScanExact`, `GoneStaysGone`, `EveryPathAnswered` |
| `discovery_links` | the same, no imports and deletes | | violates `OneFileOnce` |
| `serving` | the log: 2 pushers, 2 connections, ring of 2, channels of 1, 3 events; the tail: 5 bytes, newlines anywhere, reads of up to 2; the lookup: 3 processes, 1 failure of `ps`; the panel: every host with the flags of `ispof.service`, 2 clients, 2 troubles | 66 000 | `TypeOK`, `RecentIsLatest`, `DeliveredOnce`, `TailTypeOK`, `WholeLines`, `NoneHeldBack`, `PushReturns`, `LinesArrive`, `NoOrphan`, `Surfaced`, `StopEnds`, `Serves` |

Why the bounds are enough. The store's hazards are between two callers: a
writer and a reader, two writers of one name, a writer and a crash. The second
name is there for files that embed another name and for listings of more than
one. One leftover is the first that matters. The ring of two wraps under three
events (its properties are proved for any number); channels of one fill with the
first event, so that drops happen; with two connections one can leave while a pusher still
holds it in its copy. In `Lifecycle` tunnels do not interact (every map is
keyed by the name), so one is enough; two handlers and the detector give every
pair of actors. A mishap (failed call, failed probe, restart) is bounded by one
in a run; the crashes of the store are not bounded, only what they leave.
`lifecycle` covers start and delete, whose races matter; `lifecycle_live` has
the other kinds of request. `lifecycle` uses the symmetry of the handlers and a
view without `told`, which no action reads; no liveness is checked there. The
scraper's run has the eager round and four ticks: the third push into a history
of two is the first that is cut, and two more show what the cut leaves; a
time-out as long as the interval is the tightest that `OnTime` allows; the
names are symmetric. Its bounds matter little, since its properties are proved
for all of them. Texts of three lines hold one series twice and something
malformed between; its labels come in both orders, values with a space, with
commas and with a brace among them. Six ticks hold three scrapes and six
snapshots, hence a restart between two scrapes, a snapshot that repeats one, and a gap of three
ticks, which is `MaxGap`. In two ticks an answer read before a restart lands after
a snapshot scraped behind it.

`Stream`'s tabs share nothing but the server, so one is enough. With a channel
of one the second event before a turn of the handler is dropped, with three
events the oldest has left the snapshots of two; the tab keeps two snapshots'
worth, as 50 is to 20. Two messages let the wire fill. A second break repeats
the first, from a state the first reaches. In `editing` the second tab is whoever
else may write, three edits are a save between the opening and the saving of
another editor. In `discovery` two files tell "the same" from "another"; `b`
is named by all sources, in two spellings, and listed twice; `a` may be a link to
it; two scans are one before and one after a delete. In `serving` two troubles of
the panel are a crash while it comes back from another. Five bytes with reads of up to two
hold a line across three reads and two lines in one. With three processes the
unit's, one of the same config and another exist at once.

Deadlock is not checked where the instance ends: `scraper`, where a text or time
ends; `discovery`, where the bounds are used up; `serving`, where all events have
been pushed, a tail's client has gone, or the panel has been stopped for good. Nor
does it matter for safety there: what must not be stuck is stated as liveness
(`PushReturns`, `StopEnds`, `LinesArrive`, `NoOrphan`).

### Fairness

* `Store`: a goroutine inside a call goes on (WF of its own steps), and a
  caller waiting for the mutex gets it (SF of `Enter`): `sync.RWMutex` blocks
  new readers once a writer waits and lets the waiting readers in on `Unlock`.
  Nothing is assumed of `Invoke`, `Crash`, or of which error occurs.
* `EventLog`: a pusher goes on. Nothing of clients.
* `Lifecycle`: handlers and the detector go on (every `systemctl` has a
  timeout), and `stateCacheTTL` passes. Nothing of systemd, the daemon or the
  clients. The premise of the two convergence properties, a unit whose state
  stays, is the strongest thing they ask of the world.
* `Stream`: the handler goes on and its ticker ticks; a channel that stays ready
  is served (SF of `Forward`: `select` chooses at random among the ready
  branches); what is on the wire of a living connection arrives; a browser
  reconnects; a request is answered; and the user comes back to the tab, without
  which nothing there converges. Nothing of changes, events and breaks, and nothing
  of the metrics: that they come to be fit is the premise of `Converges`.
* `LogTail`: the handler goes on, and a killed process ends. Nothing of the
  daemon, whose output may stop, or of the client.
* `External`: a lookup goes on (`ps` and `systemctl` have time-outs) and the
  cache's time to live passes; the detector asks again at every tick. Nothing of
  processes and units.
* `Serving`: each part its own, as long as it is the one that moves.
* `Panel`: `main` goes on, the detector probes at its next tick, systemd reaps
  and restarts. Nothing of tabs, users or the port.
* `Scraper`, `Rates`, `Exposition`, `Editing`, `Discovery`: none. Their
  properties are about what has happened; in `Scraper` and `Rates` they are
  bounds in time, and time itself waits for what is due, which is what the
  guards of `Pass` and `Tick` say.

### What the violated runs show

* `ListedIsStored`: a crash in `write` before the rename leaves
  `.tmp-123.json`; `List` (323) accepts the extension and shows it as a tunnel
  that has no file of its own, or twice with two contents. `README.md:351`
  speaks of atomic writes. `TunnelStore` admits it (`ghosts`), which is why
  `Linearizable` holds.
* `ChangesReported`: `handlers.go:400-401` promises an event whenever the
  active state changes. `tunnelAction` erases `lastSeen` (577), so a unit that
  dies before the detector's next look is recorded without an event.
* `ListedInFull`: `store.go:293-295` promises every tunnel of the directory and
  re-reads only after a write. A file that could not be read at one reload (326,
  439) is missing from the cache, which counts as valid: one failed read hides a
  tunnel until the next write. `CacheCoherent` says what does hold.
* `OneFileOnce`: `discover.go:96` promises that symbolic links are resolved, but
  `filepath.Abs` (97) follows none. `ScanExact` says what does hold: each path once.

### Divergences met while modelling

Beside these, reading the code for the models brought up the following. They
are observations about the source: the models contain the behaviour, and no run
singles it out.

| where | the code | what is said of it |
|---|---|---|
| `log.go:60` | `Push` stamps before it locks: two pushers may record in the other order | `log.go:81`: "newest first" |
| `handlers.go:547` | a start that looked the tunnel up before a delete runs after its stop; the unit runs on without a tunnel | `README.md:223`: "Stop + disable + delete" |
| `handlers.go:420` | the detector works on a listing and puts a deleted tunnel back into `lastSeen` | `handlers.go:119`: "so we don't accumulate entries" |
| `scraper.go:243` | nothing removes a history; a tunnel created under an old name shows the old one's samples | `scraper.go:97`: "false if no scrape has completed yet" |
| `scraper.go:282` | a line beyond 1 MiB costs the whole scrape | `scraper.go:264`: "one bad metric should never poison the rest" |
| `scraper.go:334` | text after the closing brace becomes part of a key | `scraper.go:264`: "Malformed lines are silently skipped" |
| `scraper.go:347` | two label values with commas can give two series one key, and the later value replaces the other's | `scraper.go:341`: "they don't contain raw commas per the spec" |
| `scraper.go:340` | `m` and `m{}`, a trailing comma, and blanks behind commas make keys of their own; a tab between metric and value makes the line malformed | `scraper.go:260`: "identical series always hash the same way" |
| `handlers.go:671`, `773` | a metric that is `NaN` or `Inf` empties every snapshot and every list, of all tunnels: no tab is told anything until it is a number again | `scraper.go:265`: "one bad metric should never poison the rest" |
| `store.go:353` | a create whose `os.Stat` fails for another reason than a missing file replaces the tunnel | `store.go:506`: "already exists" |
| `handlers.go:656` | a failed listing is a message named "error", which the tab takes for a broken connection: the pill says so until the next reconnect | `index.html:1343` |
| `index.html:1361` | a tab that connects after the discovery's event shows no banner | `main.go:185` |
| `index.html:2366` | `saveConfig` leaves `scrape` in the document, and the store keeps it | `index.html:1954`: "never persisted to disk" |
| `index.html:2489` | `removePeer` applies the index of the rendered list to the present copy | `index.html:2438` |
| `store.go:214` | unknown keys inside typed blocks are dropped by the next save | `store.go:41`: "preserved on save" |
| `store.go:381` | the last unknown key, deleted in the raw editor, comes back | `index.html:691`: "the exact JSON" |
| `discover.go:102` | the source of an imported tunnel is reported again | `main.go:184`: "configs the panel doesn't manage" |
| `handlers.go:524` | a delete that cannot read the tunnel's file removes it and leaves its source, which the next scan reports | `handlers.go:249`: "see it come right back" |
| `ispof.service:37` | with `ProtectSystem=strict` the panel may write below `/etc/ispof` only, so a delete cannot remove a source elsewhere | `handlers.go:249` |
| `handlers.go:226` | a hit named by a process may be refused by the import, for markers beyond its first 4 KB | `discover.go:5` |
| `manager.go:229` | with the default directory every process on the tunnel's own path is taken for the unit's | `manager.go:40` |
| `main.go:150` | a listener that fails ends the panel with status 0, which systemd does not restart | `ispof.service:25` |
| `main.go:71` | without `systemctl` the nil `Manager` panics at the detector's first pass | `main.go:73`: "lifecycle ops will fail" |
| `main.go:113` | `ReadTimeout` ends a stream after 30 s | `main.go:114`: "SSE streams stay open" |
| `ispof.service:21` | passes `-keys-dir`, which `main` does not define | `README.md:204` |
| `index.html:1461` | a list's answer is ingested after a newer snapshot and turns the chart back | `index.html:1192` |
| `index.html:1241` | two snapshots of one scrape draw a rate of 0 in steady traffic | `index.html:1229` |
| `index.html:1240` | a list and a snapshot a moment apart, a scrape between, draw a spike | `index.html:1238` |

## The proofs

The theorems hold for every value of the constants that the named assumptions
admit, so the bounds of the runs do not matter for the properties they state.
Each component's proofs are in a module of their own, which also defines the
inductive invariant: what has to be added to the properties so that every step
keeps them. The invariants were checked by TLC on small instances before they
were proved.

What a recursive definition computes (`Kept` in `Discovery`, `Recent` in
`EventLog`) is proved by induction over its rounds. The library's induction
theorems cannot be instantiated here, as they take a predicate for a parameter;
`LeastOf` and `Counting` say the same of a set of numbers (a non-empty one has a
least element), and `Recursion` that a definition by recursion has a solution.

### The store

`StoreProofs` proves, for any finite or infinite sets of callers, names,
configurations and unknown fields, any workload and any initial files:

| theorem | states |
|---|---|
| `InductiveInvariant` | `Spec => []Inductive` |
| `TypeCorrect` | `Spec => []TypeOK` |
| `CacheIsCoherent` | `Spec => []CacheCoherent` |
| `ReplaceIsAtomic` | `Spec => AtomicReplace` |
| `ExtraIsKept` | `Spec => ExtraSurvives` |
| `Implements` | `Spec => Linearizable` |

The assumptions are those of `Tunnels` and `Store`: the special values are not
tunnels, requests, replies or callers, and the workload consists of requests.

The argument. `CacheCoherent` is not inductive: after the rename and before
`invalidateCache` the cache is wrong while the lock is held. `Inductive` adds
that this only happens while somebody is at `changed` (`CacheOrChange`), that
those inside the critical section are the lock's owner (`Mutex`), so nobody is
at `changed` when the lock is free, and the protocol of calls (`Calls`). For
the refinement a writer must still find, at its rename, what it found when it
took the lock (`Writing`: the name is still free, or it is a create that could not
look, or the file it merged with is still there), and the temporary file renamed must be its own and complete
(`TempFile`). Then each concrete step is an abstract one: `Rename`, `Remove`,
`Get` and the two listings are the linearization points, an error return is
`Refuse`, `CreateBlind` the abstract `Blind`, a crash with a complete temporary
file adds a ghost, and every other step changes nothing the abstract store sees.
The listing that stands falls with the rename and not with `invalidateCache`: in
between the writer holds the lock and nobody can be answered from the cache
(`Standing`).

### The event log

`EventLogProofs` proves, for any sets of pushers and connections, any ring and
any channels:

| theorem | states |
|---|---|
| `Invariance` | `Spec => []Inductive` |
| `TypeCorrect` | `Spec => []TypeOK` |
| `RingHoldsLatest` | `Spec => []Ring` |
| `EventsDeliveredOnce` | `Spec => []DeliveredOnce` |
| `RecentReturnsLatest` | `Spec => []RecentIsLatest` |
| `ChannelsInOrder` | `Spec /\ []Apart => []InOrder` |

The argument. `DeliveredOnce` counts the ways an event is somewhere; the
invariant says the same without counting. `Stamps`: no two pushers have one
event, none is recorded twice, and one that is stamped is not recorded yet.
`Lists`: no list names a channel twice, an open connection is among the
listeners, a new one nowhere. `Delivery`, for an open connection: channel,
received and dropped are disjoint and without doubles, they and the pushers on
their way hold events recorded after the Subscribe and no others, and all of
them. A `Send` moves one event from the pusher to the channel or the dropped, and
`Lists` makes that the pusher's only turn for this channel. `Ring` says what the
slots behind the head hold; `LoopCollects` what the loop of `Recent` has
collected after each round: the slots that are still empty come last, so that
leaving them out leaves the latest events without a gap.

`ChannelsInOrder` is what `Stream` supposes. `InOrder`: the log holds the events by
number, each channel is strictly increasing, and what was received is older than
what is queued. It fails when pushes overlap, since `Push` sends after its
unlock; under `Apart` (at most one is at work) `AtWork` says that the one at work
is about the last event of the log or the next, and that the channels it has not
come to hold earlier ones only.

### The requests and the units

`LifecycleProofs` proves, for any sets of tunnels and handlers, any kinds of
request and any number of failing calls and restarts:

| theorem | states |
|---|---|
| `TypeCorrect` | `Spec => []TypeOK` |
| `DeleteLeavesNothing` | `Spec => []CleanDelete` |
| `ActionAnswersState` | `Spec => []AnswerIsCurrent` |

The argument. Both properties are about an actor that is `alone` on its tunnel.
`Exclusive` makes of this history variable a fact about the state: nobody else
who is at work is on that tunnel, so that the steps of the others (`Own`) touch
other entries of every map. `Clean` says at each point of `deleteTunnel` what it
has done so far; of the rest of the world only systemd and the daemon may move
the unit, and neither does while it is inactive without a job. `Current` says
that an action, once it has emptied the cache, finds it empty in `stateFor` and
so probes, and that what it has read is still so. `Routed` excludes places an
actor's request does not lead to.

### The scraper

`ScraperProofs` proves, for any set of names (finite or not), any positive
interval, time-out and history length, and any number of failed listings:

| theorem | states |
|---|---|
| `Invariance` | `Spec => []Inductive` |
| `TypeCorrect` | `Spec => []TypeOK` |
| `HistoriesChronological` | `Spec => []Chronological` |
| `SamplesFresh` | `Spec => []Fresh` |
| `TicksOnTime` | `Spec => []OnTime` |
| `ChartsNeverOverstate` | `Chart!Spec => []NeverOverstated` |

The argument. `Paced` is about the clock: a round follows the last within a
period and never at the same moment, and lasts at most the time-out. That a
history is chronological needs more than that it is: while a goroutine runs,
all samples of its name are older than the round (`Ordered`), which `Paced`
gives when the round starts. `Fresh` rests on `Attended`: seen from the last
round, a tunnel with an address got it or was scraped at most a period per
failed listing before, and one period more while its own goroutine runs. A
goroutine of a deleted tunnel of the same name does not count as its own, which
is why `Attended` also says that such a tunnel got its address after the round
began. `Punctual` says where the next tick lies, and gives `OnTime`.

`Chart` is `Rates`, with no assumption on its constants. `ingestSnapshot` draws the
difference of two readings of a counter, or the later one alone if it is the
smaller. That this is no more than was carried is a fact about the two readings
(`Fits`): with time the total only grows, and so does the total at the daemon's
last start. The invariant says it of any two of all readings there are
(`Readings`): the counter itself, the sample the panel keeps, the answer under
way, the points of the chart (`Consistent`); `Continued` links the tab's cache of
the last reading to the last point, and `NoneOverstated` says it of the points.

### The state stream

`StreamProofs` proves, for any number of tabs, any channel, any snapshot size and
a list that holds at least two snapshots, and any number of changes, events,
breaks and failures:

| theorem | states |
|---|---|
| `NoEventFallsThrough` | `Spec => []NoGap` |
| `ListedAtMostTwice` | `Spec => []AtMostTwice` |

The argument follows the events that are still to come one by one, in the
channel or as messages on the wire (`Coming`). They are in order, and from any of
them on every event is among them or was dropped (`Ordered`, `Gapless`). A
snapshot under way was taken when some `v` events were recorded: all later ones
are to come or were dropped, since the handler subscribed before, and what is
ahead of it on the wire is no later than `v` (`Taken`). So when it replaces the
tab's list, the list with what is to come has all recent events (`Complete`),
and an event that comes off the wire only moves from one to the other.
`Complete` must also survive the cut to `Shown` events: a recent event is listed
below later ones only, and of those there are few enough, because the list
falls twice (`TwoRuns`): strictly through what came one by one, and strictly
through the snapshot below it. That, with what is to come being later than the
top of the list, is also why an event is listed no more than twice.

### The log tail

`LogTailProofs` proves, for any output, any size of the buffer and reads of any
length:

| theorem | states |
|---|---|
| `Invariance` | `Spec => []Inductive` |
| `TypeCorrect` | `Spec => []TypeOK` |
| `LinesAreWhole` | `Spec => []WholeLines` |
| `NoLineHeldBack` | `Spec => []NoneHeldBack` |

The argument. `WholeLines` says that the lines sent are the intervals between
the newlines before `start`, and is nearly inductive: `Split` sends the interval
up to the first newline at or after `start`, and the newlines of bytes already
read do not change, since the output only grows behind `written`. It needs
`Unopened` (a handler that has not begun has read nothing). The theorems are about
the instance `Logs` that `Serving` has of `LogTail`. `NoneHeldBack` holds
where the handler waits, because only `Keep` leads there from the splitting, and
its guard is that no newline is left.

### Editing

`EditingProofs` proves, for any number of tabs, settings, peers, unknown keys and
edits and any first files:

| theorem | states |
|---|---|
| `Invariance` | `Spec => []Inductive` |
| `TypeCorrect` | `Spec => []TypeOK` |
| `UnknownKeysSurvive` | `Spec => []UnknownSurvive` |
| `StateIsNotStored` | `Spec => []StateStaysOut` |
| `FreshSavesAreLocal` | `Spec => FreshSaveIsLocal` |

The argument. That the file keeps a key that is owed follows only if every
document that may come to be stored has it: the copies, the editors' texts and
the requests under way, however old. It holds because `owed` only shrinks, and
no view, clone or merge drops a key of the top level. In the same way `state` is
allowed in copies and must be in no editor's text and no request. `Owing` says
both, with `Sound` for what is said of the file, a text and a request.
`FreshSavesAreLocal` needs that a save under way still has from the copy it was
made from what its kind leaves alone (`Local`), and that `Stored` keeps it, also
where an empty `Extra` has the store keep the file's (`StoredRest`).

### Discovery

`DiscoveryProofs` proves, for any paths, spellings, links, listings and names and
any number of scans, imports, deletes and changes of files:

| theorem | states |
|---|---|
| `ScanIsExact` | `Spec => []ScanExact` |
| `SourceStaysGone` | `Spec => []GoneStaysGone` |
| `ImportAnswersAll` | `Spec => []EveryPathAnswered` |

The argument. `Scanning` follows an undisturbed scan through its strategies: what
has been named by the candidates already taken from `queue` is found, what has
not been named is not (`Between`), each once (`Once`), under the strategy that
came first (`Sourced`). `KeptIs` and `VisitedIs` are what a listing leaves for the
filesystem strategy, whichever part `find` gives within its budget. `Vanished`
says that the source of a deleted tunnel is no file any more unless its delete is
still at it, and that no hit of a later scan is one; a delete that failed to read
the source adds none to `gone`. `Answering` says that the
paths of a request still to do and the refused ones are distinct members of it,
and that the imported ones are as many as the others leave.

### What is only model-checked

Liveness (`CallsReturn`, `PushReturns`, `DetectorConverges`, `ViewConverges`,
`Converges`, `LinesArrive`, `NoOrphan`, `Surfaced`, `StopEnds`, `Serves`):
temporal logic with fairness is beyond the prover.

`ParsedAsMeant`: what `parseLine` and `canonicalizeLabels` make of a line is a
matter of counting and sorting its tokens, for which the prover has no theory; it
is checked for the lines of the `scraper` run. Every other safety property that a
passing run checks is proved. Of `External` and `Panel` only liveness is stated.

## Not modelled

* Middleware and static files (`webui/server.go`): a request passes or is
  refused, and nothing is remembered between two requests.
* Key generation, the installer, the build: no state at run time.
* The wizard, the tools and the rendering of pages: they keep nothing that
  another actor changes.
* The read-only handlers (version, system, events, metrics, history) beyond the
  looks at store, cache and log that the models have.
* The scraper's `Rate`, `AllHistory` and `OnSample`, the store's `Import` and
  `InvalidateCache`, the driver's `IsActive` and `DaemonReload`: nothing in the
  program calls them. `Logs` is one `journalctl` call.
* Files that an operator writes into the panel's own directory while it runs:
  `List` shows them after the next write of the panel's own, and no document
  says when it should.
