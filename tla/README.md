# Verification of transit_tools

TLA+ models of transit_tools, with TLC runs and TLAPS proofs. The repository has
a program that records where the buses of a NextBus agency are
(`cmds/nextbus_fetcher`), and offline programs that split, archive, draw and match
to paths what it recorded. The first is modelled in full but for its start and the
contents of what it fetches; of the others, the parts where something can go wrong
that a test would hardly reach.

## The system

`nextbus_fetcher` runs until it gets a signal. It fetches the vehicle locations
every 10 s or so, and the routes and schedules ("config") once or more a day,
from one web service that limits the bytes per minute; it keeps the raw
responses in one tar file per day and the locations, cleaned and in time order,
in one CSV file per day.

```
            main -------- stop ------------------+---------------------+
             |                                   v                     v
  rate       |      HiLoHttpFetcher2     PeriodicFetcher       PeriodicConfigFetcher
  regulator <-----  hi  <------------------  |                  |            |
                    lo  <--------------------+-- fetchAll <-----+            v
                                             v                         configCuller
                                        RunSplitter                    (config dirs)
                                         |       |
                                         v       v
                                 RunAggegator  RunVLRArchiver
                                 aggregator      tar per day
                                 CSV per day
```

Everything is goroutines and channels; stopping is a channel on which the
stopped party is handed a channel for its answer.

### The offline programs

They run one after the other over what the fetcher left on the disk, and do not
run beside it:

```
 config dirs --- cull_config_dirs                       (culler of the fetcher)
      |--------- gen_all_paths --> file of all paths --+
                                                        v
 CSV per day --- blocks pipes --- partition_locations   locations_to_nearest_paths
             |                    index + CSV per leaf   CSV per path
             |--- csv_to_image, fit_path_points --> pictures
 XML or zip per day --- create_*_tar_per_dir_of_xmls, convert_zip_to_gzipped_tar
```

### Inventory

| Component | State | Operations | What is hard | What makes it correct |
|---|---|---|---|---|
| `util/hi_lo_http_fetcher2.go` | `closed`, `loCh`, `pendingLoRequest`, `permitLoTimer`, `delayAfterLoResp`, `closeCh` | `Do`, `Close`, the select loop | callers, a loop, a helper goroutine and a timer interleave; low priority must not starve, nor start before the waits the regulator asked for | each response to its caller, one low request at a time, waits paid once, `Close` returns |
| `util/rate_limiter.go`, `util/http_regulated_fetcher.go` | `lastAvailable`, `lastTime` | `Used`, `MayUse`, `core` | overlapping periods, clocks that go backward, two deficits | no tokens from nowhere; consumers that wait keep the rate |
| `nblocations/periodic_fetcher.go` | `intervalTicker`, `shortTimer`, `shortDuration`, `lastTime` | `doTick`, `doRetry`, stop | two timers started and stopped on every path, slow fetches | fetching never stops by itself, retries back off |
| `nblocations/controller.go` | three buffered channels, two archivers, `errorCount`, the cleaner's progress | splitter, two archivers, cleaner | shutdown in stages with timeouts while the channels drain | nothing lost or reordered, no send on a closed channel, the stop is answered |
| `nblocations/aggregator.go` | `aggregatingVehicles`, `queuedReports`, `oldestReport` | `Insert`, `RemoveStaleReports`, `Close` | averages, absent vehicles, reports out of order | the CSV is in time order, no report is lost or counted twice |
| `nblocations/csv_archiver.go`, `vlr_archiver.go`, `util/tar_*.go`, `util/path.go` | current file, next split time | `Write`, `AddResponse`, `Close` | midnight, failing opens, restarts on the same day | each location in its day's file, no file overwritten |
| `configfetch/configfetch.go` | `stop`, `stopCh`, `doneCh`, the day's fetch times | fetch with retries, schedule, stop | a stop that meets a completion, a fetch that outlasts the hour | stop is answered, one fetch at a time |
| `configfetch/config_dir_*.go` | `firstDir`, `prevDir`, `doStop`, the directories on disk | `AddDir`, compare, cull, `Stop` | interrupted comparisons and deletions | no configuration is removed unless another directory holds all of it |
| `util/blocks_pipe.go`, `file_io.go`, `csv_reader_closer.go` | `data`, `empty`, `stop`, `err` of each pipe | producer, `Read`, `Close`, two pipes about a decompressor | buffers going round two channels, an end or an error at any point, closing from the outside in | the records parsed are those of the file, in order; the file is closed |
| `cmds/partition_locations`, `cmds/locations_to_nearest_paths` | the record channel, the outputs that are open | read, route, look up, write, close all | workers that meet in `Lookup`, outputs that fail | each record once in each of its outputs, files in order, an end |
| `nblocations/partition*.go` | the tree of regions, the index on disk | sample, cut, save, read, route, query | cuts at the borders, outliers, squares | each location in one leaf, also after saving |
| `geom/quadtree.go`, `nbgeo` | a quadtree of path segments for each route | insert, clip, split, search | segments along the borders of quadrants | the paths near a location are found |
| `cmds/create_*tar*`, `convert_zip_to_gzipped_tar` | the archive of each day, the file in progress | list, read, write, rename, remove | errors and crashes between the steps, runs again over what is there | no short archive is taken for a whole one |
| `nextbus/*.go` (data model) | an `Agency` with shared stops and paths | parse, number, write and read paths; convert vehicle reports | hashes that collide, empty attributes, negative times | an index means the same path everywhere; times survive the archive |
| `compare/deep_compare.go` | pairs visited, differences | `DeepCompare` | cycles, unexported fields | same means same, a difference is one |
| `util/xml.go`, `config_compare.go`, notes in responses | none | find the root, insert a comment, remove comments | comments before the root, in the note | notes change nothing |
| `geom/hist2d.go`, `cmds/csv_to_image`, pictures of `fit_path_points` | counts per cell | count, shade, draw | truncation, borders, proportions | a location is counted and drawn where it is |
| `stats`, fitting, `gcs`, `gce`, generated code, `cmds/sandbox` | | | | see "Not modelled" |

`PROJECT.json` lists the same components with what is modelled of each, and under
"hazards" the lines where each hard behaviour bites.

## Modules

| Module | Models |
|---|---|
| `PriorityService` | what `HiLoHttpFetcher` promises: a call is queued, served, answered once; calls of one priority are never served together |
| `HiLoFetcher` | `util/hi_lo_http_fetcher2.go` |
| `HiLoFetcherProofs` | TLAPS proofs about it |
| `Tee` | what the pipeline promises: each sink gets the responses in order, without gap or repetition |
| `FetchPipeline` | `nblocations/controller.go`, with the sends, the close and the stop of `PeriodicFetcher` |
| `FetchPipelineProofs` | TLAPS proofs about it |
| `Aggregator` | `nblocations/aggregator.go`, as `RunAggegator` drives it |
| `AggregatorProofs` | TLAPS proofs about it and about `VehicleReports` |
| `Archives` | `csv_archiver.go`, `vlr_archiver.go`, `util/tar_archiver.go`, `tar_writer.go`, `path.go`: both kinds of daily archive, on a disk that fails, under a process that dies |
| `ArchivesProofs` | TLAPS proofs about it |
| `PeriodicFetcher` | `nblocations/periodic_fetcher.go` with `ComputeT` of `url.go` |
| `PeriodicFetcherProofs` | TLAPS proofs about it |
| `RateLimiter` | `util/rate_limiter.go`: the token bucket |
| `RegulatedFetch` | `util/http_fetcher.go` and `http_regulated_fetcher.go`, composed with it |
| `RegulatedFetchProofs` | TLAPS proofs about both |
| `ConfigStore` | what the config directories promise: a configuration is forgotten only while another directory holds all of it |
| `ConfigCuller` | `configfetch/config_dir_cull.go` and `config_dir_compare.go`: the goroutine that compares and removes directories |
| `ConfigFetch` | `configfetch/configfetch.go` composed with the culler |
| `ConfigFetchProofs` | TLAPS proofs about both, and about `Agency` |
| `CullTool` | `cmds/cull_config_dirs`, composed with the culler |
| `BlocksPipe` | `util/blocks_pipe.go`: pipes, any number of them |
| `CsvStream` | how an archive is read: two pipes about a decompressor, and the parser |
| `SplitLocations` | `cmds/partition_locations` and `cmds/locations_to_nearest_paths` after the reading: workers, outputs, writers |
| `TarDirs` | the four programs under `cmds/` that make a tar file of each day |
| `OfflineToolsProofs` | TLAPS proofs about `TarDirs`, `BlocksPipe`, `CsvStream`, `SplitLocations` and `PartitionTree` |
| `PartitionTree` | `nblocations/partition*.go`: cutting the globe, routing, the index |
| `QuadTree`, `NearbyPaths` | `geom/quadtree.go` and clipping; the quadtrees of routes in `nextbus/nbgeo` |
| `DeepCompare` | `compare/deep_compare.go` |
| `Agency` | `nextbus/agency.go`, `route.go`, `stop.go`, `direction.go`, `path.go` |
| `VehicleReports` | `nextbus/vehicle.go` with `csv.go`, `util/time.go` |
| `XmlNotes` | `util/xml.go` with the comments of `configfetch.go`, `vlr_archiver.go`, `config_compare.go` |
| `LocationImage` | `geom/hist2d.go`, `cmds/csv_to_image`, the pictures of `cmds/fit_path_points` |
| `MC*` | instances for TLC |

Names are those of the code. A program counter (`loop`, `client`, `pc`) says where
a goroutine is; one action is the code from one blocking point to the next. An
operator `X_Y` beside `X` is `X` with a plausible bug `Y`; no action uses it, and
`PROJECT.json` says which property each must break.

### HiLoFetcher

`client[c]` is where a caller of `Do` is (`idle`, `sending` on `hiCh` or `loCh`,
`waiting` on its own channel), `closer[k]` the same for `Close`, `loop` whether the
loop is in its select or fetching a high priority request itself. The local
variables of `runHiLoHttpFetcher2` are variables of the model; `loFetch` and
`loWait` are the goroutine of a low priority request and the wait its response
carries. Channels are unbuffered, so a send and its receive are one action;
`permitLoTimer.C` has capacity 1 and is `permitLoCh`. Time is in ticks: `TimerFire`
puts a value in the timer's channel when `timerLeft` is 0. `LoopEnd` is the check
of `closeCh` at the end of the loop's body, and `Continue` stands for the cases that
`continue` past it, a difference that matters (see Findings).

`closed` is read and written without synchronisation: `CloseCall` reads and
`CloseMark` writes, and a `Do` in between goes on to send.

### FetchPipeline

`queue` holds the three response channels (capacity `Cap`), `hand` what a goroutine
has received and not yet passed on, `pc` where it is. A response is its number in
the order of fetching. The cleaner executes `CleanupPlan`, the sequence of
`stopOne` and `waitForEmpty` calls of `RunCleaner`; `CleanerTimeout` is the timeout
of 20 s of either. Inside `stopOne` the send of the request has no timeout, only the
wait for the answer has, and the model keeps that difference. `dead` records that
the process ended: by `glog.Fatalf` after too many archiving errors, by a call on
the nil `archiver`, by a response that is nil, as `fetchOnce` returns when there was no
answer at all (`VlrPanics` and `CsvPanics`, for the numbers in `Nils`), or by one that the
aggregator panics on, with a nil location or a vehicle twice (`CsvPanics`, when the
constant `Breaking` allows it; `Aggregator` says when that is).

### Aggregator

An entry of `aggregating` is an `aggregatingVechicleLocation`: first and last report,
number, sum of times (`RoundedMean` is the division with rounding of
`ProduceOutput`), `unseen`. `Insert` is a whole call of `Insert`, followed by
`RemoveStaleReports` and `WriteLocations` as in `RunAggegator`. The loops over the batch
and over the unseen vehicles are recursive functions of the number of steps (`Inserted`,
`Emitted`). `ByDateAndId` is the set of the orders that `sort.Sort`, which is not stable,
may give. `Close` is what `doClose` does, in any order of the map. `disorder`, `held`,
`lastWritten`, `absent` and `returned` are history.

### Archives

`current[k]` is the archive that the archiver of kind `k` writes, `buffer` what is on
its way to the file, `files` what is on the disk. `Spill` puts a part of the buffer
there, at any time, since compressors and buffers decide when; a flush or close puts all
of it there, and either breaks the writer if the disk does not work, which may happen
for a while at any time (`MaxFaults`). `Crash` forgets everything but `files`, as the
end of the process does; the next run opens new files under names that `OpenUniqueFile`
finds free. That search takes any error for a name that exists and goes on to the next,
so that a disk that fails during it, or works again before its end (`Trouble`), makes it
skip names that are free, and a later search may take one of those. `written` is what
each file should hold, `flushed` how much of it a flush that succeeded has promised,
both history.

The two archivers differ in the code and in the model: the CSV archiver splits when
a location is after `splitAt`, the midnight computed when the archive was opened, the
tar archiver when the date of a response (half way between request and result) is not
that of its file.

### PeriodicFetcher

What `FetchPipeline` leaves out of the fetcher: its timers. `ticker` and `short` are
`intervalTicker` and `shortTimer`, each with the time left and a channel of capacity 1
(`full`), in which a value stays when the timer is stopped or reset; the repository has
no `go.mod`, so this is how timers behave in it. `at` is `exec` during a fetch, `send`
while its response waits for room in `responseCh`, `select`. `age` is how long ago
`lastTime` was and `asked` how far back the last request went; ages from `MaxAge` on are
one, and `Never`, before the first response, is none of them. `lastTime` is a time of
the server's clock and its age is told by ours: `skew` is how far the server's is ahead,
and `ServerAdjustsTime` changes it. So an age may be negative, and `asked`, which is by
the server's clock (`OnServer`), is not what the loop meant to ask for. The ticker
`doRetry` starts at line 135 and replaces at line 141 is unreachable afterwards and its
ticks are not modelled. `idle`, `failures` and `overran` are history.

### RateLimiter and RegulatedFetch

The floats are integers: a token is what is added in one tick, and a tick the shortest
period the code knows. `Core` is the method of that name. Times are relative to now:
`since` is `now - lastTime`, `took[c]` how long ago the period of client `c` began.
`ClockBack` sets the system clock back under all of them. `Callers` go through `inCh`
and the goroutine of `http_fetcher.go`, `Direct` fetch for themselves. All sleep as long
as they are told. `usedTotal` and `elapsed` are history.

`RegulatedFetch` is not composed with `HiLoFetcher`: that fetcher takes its waits as
they come (any value up to `MaxWait`), which contains what the regulator would say.

### ConfigFetch, ConfigCuller and CullTool

A config directory is its number in the order of fetching, its contents a set of
pairs of a file and a version; a file that was cut short is a version like any other.
The numbers grow because directories are named after the minute of the fetch, and two
fetches within a minute are not modelled, nor the removal of an emptied parent
directory. `disk`, `exists` and `marked` survive `Restart`, everything else is set
anew. `written` and `unmarkable` are history.

`ConfigCuller` has no initial state or next-state relation of its own: `ReceiveDir`,
`ReceiveStop` and `AnswerStop` are its halves of synchronous channel operations, the
other halves are in `ConfigFetch` and `CullTool`. `toCull` is what `processCurrentDir`
has yet to pass to `cullDir`, `toVisit` what `filepath.Walk` has yet to visit. The check
of `doStop` in the walk (`VisitFile`) and the removal that follows it (`RemoveFile`) are
two steps, between which a stop may come. A comparison may fail or be stopped at any
point (`CompareFails`), a file of both directories may be unreadable, any removal may
fail. In `ConfigFetch` the culler of the fetcher has no `culledDirCh`; `CullTool` has
one, and goroutines (`announcing`) that send on it.

`pcf`, `fetcher` and `main` are program counters of `PeriodicConfigFetcher`,
`fetchAll` and `main`. A fetch is due at any time: of `getFetchTimes` only matters
that there is always a next one. `main` is the channel of `stopPCFCh` seen from the
other end.

### BlocksPipe and CsvStream

`empty` and `data` are the two channels, `content` what each block holds; a block is
never copied, so that a block in two places would be overwritten under a reader.
`CsvStream` builds what `OpenReadFileAndPump` builds: file, pipe, decompressor, pipe,
parser. Byte `n` of the file is record `n` and byte 1 the header. The decompressor
reads and returns any number of bytes; `damagedAt` is where it fails, `malformed` which
records do not parse. The parser closes the outer pipe from a goroutine of its own.

### SplitLocations

Both programs have a reader of files, a channel of records, workers, and a channel and
a writer for each output. They differ in how outputs are opened: `partition_locations`
opens all before it starts, `locations_to_nearest_paths` opens one when it is first
looked up, under a mutex for reading and then for writing. `damage` says which files,
records and outputs fail. Which outputs a record belongs to is `Contents`; that the
leaf is right is the subject of `PartitionTree`, that the paths are right of
`NearbyPaths`.

### TarDirs

Four programs that do the same in different ways: `tool` says which one runs. Two
(`Direct`) read a file, write it, and go on, in an archive that has its final name from
the start; the other two read in a goroutine (`lister`) and over `queue`, and rename the
archive when it is finished. Two (`Replaces`) make an archive again when its directory
has changed. `Arrive` brings a file late, a crash may come between any two steps, and
the program is run again. `excused` is history: the days whose archives may be short
because the code does not notice, or forgets in the next run, that something went wrong
(a directory that could not be listed, a crash or a failed write of a `Direct` program, a
final flush that failed, a file that arrived during the copy). `NoShortArchive` is about
all others.

### PartitionTree, QuadTree and NearbyPaths

The globe is a grid, distances are differences. `todo` is the stack of calls, `tree`
the nodes that are finished, as a function from paths to nodes. A cut is at any of the
positions which the samples leave (what the scores choose among). `squares` holds the first two
cuts into squares, which `partition3.go` decides on before it makes them.

`QuadTree` is purely operators: a tree is a value. `NearbyPaths` builds one for each
route, path by path, and looks up every report in it. Segments are level, upright or
diagonal, where clipping is exact in integers.

### DeepCompare, Agency, XmlNotes, VehicleReports, LocationImage

Algorithms that keep no state. `MCAlgorithms` chooses an input, computes the result in
one step, and its properties relate the two. A structure of `DeepCompare` has one field
of each kind that is treated differently: a number, a pointer, a slice, a map, an interface
and a channel, which stands for functions and unsafe pointers. Its fields may be
unexported, which makes `castInterface` panic, and the keys of its maps not primitive. A
box is a map in an interface, which may be inside itself. `Agency` parses files one after
the other into one record, as the code does. `WritePathsToFile` writes the file of all
paths, whole or cut short (`cut`), since the code drops the errors of writing; tags
go through it as `AsRead` says, the identity only for tags without markup, since nothing
escapes them; `ReadPaths` decodes the file, or not, and then takes its elements one after
the other (`ReadElements`).
A document of `XmlNotes` is a sequence of tokens, among them one that ends a comment, which
a note may contain. Times of `VehicleReports` are
milliseconds with Go's rounding towards negative infinity in `time.Unix`. In
`LocationImage` the floating-point scaling is exact division of integers followed by the
truncation of `int()`; a picture is what is counted, shaded and drawn, or the panic of
`LogHistogramAndCDF` when there is no cell to count.

## Runs

| Run | Shows |
|---|---|
| `HiLo` | the low priority permission is always in exactly one place and responses reach their callers (`ServedOneByOne`); waits are paid (`WaitHonoured`); under fairness the fetcher implements `PriorityService` (a queued call may be left behind when `Close` is called); without `Close` nobody starves; `Close` of a busy fetcher returns |
| `HiLoCloseHangs` | `Close` of an idle fetcher does not return (violation) |
| `Pipeline` | order, conservation and channel closing (`ResponsesKept`), refinement of `Tee`, an answer to the request to stop unless the process has died of one of the things that kill it |
| `Aggregator` | order of the archive while every vehicle is seen, bounded disorder otherwise, conservation of reports |
| `PeriodicFetcher` | the loop wakes up within the interval whatever fails; retries back off unless a tick is left over; requests leave no gap but for what the two clocks differ by |
| `ConfigCull` | no configuration is lost, whatever stops, fails or is started again; a partly deleted directory is marked; after a stop nothing is written and nothing removed but the one file already found; refinement of `ConfigStore`; a request to stop is answered in a fetch, a comparison or a deletion |
| `CullToolList` | the tool can end before it has received all removed directories (violation) |
| `RegulatedFetch` | no token is minted when periods overlap or the clock goes back; when consumers wait as told the debt is shared by those who have yet to wait (`DebtShared`) and stays bounded, and nobody waits longer than what is owed |
| `Archives` | a response is in a file of its day, a location too unless it is late or of midnight; a file is written by one run, and none is begun before the last is finished; what was flushed survives a crash; the trouble of a day does not reach the next |
| `SpatialIndexes` | `PartitionTree`: every location has one leaf, before and after the index is saved, and queries find its file. `NearbyPaths`: exactly the paths near a report are found |
| `OfflineTools` | `CsvStream`: records in order, the file closed. `SplitLocations`: nothing lost or repeated, an end. `TarDirs`: no short archive passes for a whole one |
| `Algorithms` | the five algorithm modules: equal is equal and differences are real, paths keep their index or the file is refused, notes change nothing unless they end a comment, times survive, pictures are true; each with the exceptions listed under Findings |

Where a property says several things (`ServedOneByOne`, `ResponsesKept`, `OrderKept`,
`WaitsAreRight`, `FiledByDay`, `RecordsInOrder`, `StoppedMeansQuiet`) it is a conjunction of
named parts, and in all of these but the first (whose types are proved) `TypeOK` is one.
`OfflineTools`, `SpatialIndexes` and `Algorithms` put parts together that
do not interact: each behaviour is of one of them.

### Bounds

- `HiLo` has two callers of each priority and a caller of `Close`: two low
  priority callers are what it takes to overwrite `pendingLoRequest`, two high ones to
  interleave with a running fetch. Waits of 0, 1 and 2 ticks tell "none", "as long as
  the other" and "longer" apart; `MaxDelay` 3 lets two different ones accumulate.
- `Pipeline` has channels of capacity 1 (10 in the code) and 6 responses: 5 are enough
  to fill every channel behind an archiver that has stopped, with the splitter and the
  fetcher blocked behind it, and one more, and the sixth is nil; and one survivable
  archiving error (10 in the code), so that both sides of the limit are reached.
- `Aggregator` has two vehicles: one stands, changes its tag and moves, the other is
  seen or not. `SameWithin` and `Slack` keep the order of the code's 2 s and 3 s (1
  and 2 units; the millisecond between the two locations of a stop is one unit too,
  which only makes the order harder to keep). `RecentlySeenThreshold` is 1 for the
  code's 3, `MaxMerged`, `MaxQueued` and `MaxBatch` are 2. `Aggregator.cfg` does not
  explore beyond a report of an old position of a vehicle that was not being
  aggregated (`NoneReturned`): the order properties say nothing of that case.
- `PeriodicFetcher` has an interval of 4 ticks, a first retry after 1, fetches of up to 3
  and sends of up to 2: a fetch alone fits in the interval, as 9.5 s do in 10 s, with
  a slow send it does not. The backoffs 1, 2 and 4 reach the interval at the third
  failure, where counting stops. `MaxSkew` 2 with a `Window` of 6 and `MaxAge` 8 has ages
  on either side of the window by both clocks, negative ones among them.
- `ConfigCull` has three directories and a restart. The culler's memory (`firstDir`,
  `prevDir`) depends on the last two, so a third is what it takes to remove one. With
  four directories (the longest sequence on which the memory depends) there are 1.3
  million states without a restart and 2.1 million with one; both passed too, in 81 s and
  160 s. There are two files, the list of routes and a route with two versions, so that
  directories can be equal, more complete or different, and a deletion can be
  interrupted between files. `MaxWait` 3 allows one retry (the code gives up at 60 s).
- `RegulatedFetch` has a bucket of 2 tokens, requests of up to 2, a caller of each kind
  and 7 ticks, one of which the clock may be set back: each client gets through a
  request, its wait and another request that overlaps the other's. A debt of three
  requests each is far beyond these bounds: here `DebtShared` is what a wait that is too
  short breaks, and that it implies `DebtBounded` is proved.
- `Archives` has two days of two moments (midnight and after), three entries in any
  order of times, a crash and a fault: a day can be opened, split, crashed out of and
  reopened under the second of its two names.
- `SpatialIndexes` has a globe of 8 by 7 with samples of 6 or 9 points on a grid, of which
  2 and 3 at each end may be outliers (20, 50 or 200 of 10000 or more in the code): enough
  for every kind of cut, with and without squares, two levels deep; and two routes with
  up to three of four paths along, across and inside the quadrants, with 16 reports.
- `OfflineTools` has a file of 3 bytes in blocks of 2, so that a block is full and one is
  not; two workers, two files and two outputs with any one failure; and two days of two
  files, three runs and two faults: a fault, one in the run after it, and a run that
  works.
- `Algorithms` has all structures of two objects and some of three (cycles of one, two
  and three), with boxes that hold one another or themselves, and with channels, fields
  that are not exported and keys that are not primitive; all pairs of files from a set with
  every defect, tags that come back changed or not at all, and the file of all paths whole
  and cut short;
  every document of up to five tokens; up to three vehicles; and regions, lines and paths in
  all directions within 5 cells, with a place far enough away that no cell is left across.

A bound in a guard is named in the module (`MaxDelay`, `MaxResponses`, `MaxMerged`,
`MaxQueued`, `MaxBatch`, `MaxRestarts`, `Horizon`, `MaxUsed`, `MaxBack`, `MaxEntries`,
`MaxCrashes`, `MaxFaults`, `MaxRuns`, `MaxAge`, `MaxSkew`, `MaxFailures`; the elements
of `Dirs` bound the fetches). Deadlock is not checked where the system may stop: callers
need not call, a shutdown is final, an offline program ends.

### Fairness

Goroutines that can run do run (weak fairness of each one's steps). A select
among ready cases chooses uniformly at random, so a case that is ready again and
again is chosen: strong fairness of the loop's cases in `HiLoFetcher`, and of the
stop request's receipt in `FetchPipeline`. A fetch ends because the HTTP client has
a timeout of 9.5 s (`nextbus_fetcher.go:167`; the low priority fetcher is built with
the same client, line 174). In `ConfigFetch` each of the three
goroutines takes steps when it can; that a fetch or a file operation ends is part of it.
Timers fire and time passes. Nobody is obliged to call `Do` or `Close` or to stop the
program, no ticker has to tick, no timeout has to expire.

In `OfflineTools` the reading of a file, each producer, the decompressor, the parser,
each worker and each writer take steps when they can (`StreamFairness`,
`SplitFairness`). A worker that waits for the mutex of `Lookup` gets it (strong fairness
of the two locks), since Go's `RWMutex` queues those who wait.

## Proofs

A theorem holds for every value of the constants that the named assumptions allow; the
assumptions say that sizes, capacities and bounds are positive (or natural) numbers and
that sets which must not meet do not. The bounds of the runs (`MaxDelay`, `MaxEntries`
and so on) stay in the models as constants and are arbitrary in the proofs.

| Module | Proved | From |
|---|---|---|
| `HiLoFetcherProofs` | `TypeCorrect`, `PermitConserved`, `ResponsesReachCallers` (`ServedOneByOne`), `DelayOnce`, `WaitsHonoured` (`WaitHonoured`), `ServiceSafety` | `HiLoAssumption` |
| `PeriodicFetcherProofs` | `TypeCorrect`, `NeverIdle` (`NeverIdleLong`), `RequestsLeaveNoGap` (`RequestsCover`), `RetriesBackOff` (`BackoffKept`) | `PeriodicAssumption`, `FailuresAssumption` |
| `ConfigFetchProofs` | `CulledRedundant` (`CulledIsRedundant`), `MarkerKept` (`MarkedWhileEmptying`), `QuietOnceStopped` (`StoppedMeansQuiet`), `Refinement` (`ImplementsStore`), `PathsComeFromTheFiles` (`PathsOfTheFiles` of `Agency`), `PathsComeBack` (`PathsSurviveTheFile`) | `CullerAssumption`, `FetchAssumption`; for the paths, that the files hold sequences (`IsFile`), and for `PathsComeBack` that its tags are `Plain` if the file is to be read |
| `RegulatedFetchProofs` | `TypeCorrect`, `NoTokenMinted` (`TokensEarned`), `OneAtATime`, `DebtIsShared`, `NoRunningDebt`, `NoWaitInVain`, `WaitsRight` (`WaitsAreRight`) | `RateLimiterAssumption`, `RegulatedFetchAssumption` |
| `FetchPipelineProofs` | `NothingLost` (`ResponsesKept`), `TeeImplemented` (`ImplementsTee`) | `PipelineAssumption` |
| `ArchivesProofs` | `EverythingFiled` (`FiledByDay`), `RunsApart` (`OneRunPerFile`), `NothingFlushedIsLost` (`FlushedKept`), `NewDayBegins` (`NewDayAccepted`) | `ArchivesAssumption`, `ClosedAssumption` |
| `OfflineToolsProofs` | `ArchivesComplete` (`NoShortArchive`), `BlocksAccountedFor` (`BlocksInOnePlace`), `RecordsAsWritten` (`RecordsInOrder`), `AllRecordsWritten` (`NothingLost`), `RoutesKept` (`IndexKeepsRoutes`), `LeavesTile` (`LeavesTileGlobe`), `FilesFound` (`QueryFindsFiles`) | `TarAssumption`, `BlocksPipeAssumption`, `CsvStreamAssumption`, `SplitAssumption`, `PartitionAssumption` |
| `AggregatorProofs` | `ArchiveInOrder` (`OrderKept`), `NothingIsForgotten` (`NothingForgotten`), `AveragesNearFirst` (`AverageNearFirst`), `TimesComeBack` (`TimesAreRight` of `VehicleReports`) | `AggregatorAssumption`; for `TimesComeBack`, that ages and moments are integers |

In parentheses is the property of a run that the theorem states. In each module
`InitIInv` and `NextIInv` (or the lemmas their names begin or end with) establish an
inductive invariant, and the theorems follow from it. What each adds to the property,
and why:

**HiLoFetcher.** `IInv` is the conjunction of the checked invariants with
`OwedCovered`. `OneLoPermit` alone is not inductive for the response of a low
request: that the response belongs to `pendingLoRequest` needs
`LoResponseReachesCaller`. `WaitHonoured` is about steps, and holds because
wherever the permission is, the owed ticks are covered: by the timer's remaining
time, by the accumulated delay, or there are none; that is `OwedCovered`.

**PeriodicFetcher.** For `NeverIdleLong` the types are too weak: the loop would sleep for
ever with both timers stopped. `Awake` says that this never happens (`intervalTicker`
runs or `shortTimer` is set or has fired; a tick left over does not count, since taking
it leaves nothing), and `IdleBound` that what runs will fire before the interval is over.
`BackoffKept` needs more of the same kind, as long as no tick has been left over
(`InTurn`): during a fetch both channels are empty and `doRetry` is running just when
the last fetch failed; at the select after a failure `intervalTicker` is stopped, and the
time waited and the time `shortTimer` has left make up `shortDuration`; and that is the
delay the number of failures calls for. The last part takes 2^(n+1) = 2 * 2^n, which the
provers do not know of: `PowerDoubles` counts subsets, with an element and without it.
`FailuresAssumption` is about the bound of the model: failures are counted at least
until the delay has reached the interval.

**ConfigFetch and the culler.** `CulledIsRedundant` says nothing of directories that are
about to be removed and nothing of the culler's memory. `RemovalJustified` extends it to
the doomed directories (`toCull`), the witnesses being intact and not doomed themselves;
`SequenceKept` says that `firstDir` and `prevDir` are such directories with the same
contents. The heart of it is `DoomedRedundant`: when a witness of an earlier removal is
doomed in turn, what makes the witness redundant makes the earlier one redundant, since
being the middle one or having less are transitive. `FetchInProgress` keeps the fetcher
out of the directories compared. The marker has an invariant of its own: it is there
before the first file goes and goes after the last (`MarkerFirst`, `MarkerLast`).
`StoppedMeansQuiet` needs to know who is stopped when, along the chain from main to the
fetcher to the culler (`StoppedInTurn`), and its types need that a directory to be
culled is on the disk, once (`OnDisk`), as a marker is made in it.

**RegulatedFetch.** `TokensEarned` is inductive as it stands, given the types and that
the goroutine serves one of its callers (`OneRequestAtATime`, `DirectApart`). The heart is
`Core`: it adds the time before a period and the time within it, and the clock it leaves
behind makes that no later call adds either again, also when the periods of consumers
overlap or the clock goes back.

`DebtBounded` says that consumers who wait as told owe at most three requests of each
(`3 * Most`) and what was lost when the clock was set back. It is not inductive: a
consumer whose request took long need not wait at its end for what the others owe, and
how often that can happen depends on how all of them are spaced. `DebtShared` is a ledger
for it. Beyond `Most`, what is owed (`Owed`) is at most the mean of the shares, and a
share is `Most`, more by what its consumer has yet to sleep and less by what its request
has taken. When a tick earns one token, each share falls by one at most, so their mean
does too. When the regulator answers while more than `Most` is owed, the wait it gives is
at least `Owed + used - period`, which raises the share of that consumer by `Most`, as
much as the mean needs. A share is never more than `2 * Most`, hence the bound. The sum
of the shares is the number of elements of the set `Shares`, so that the library's facts
about finite sets do for an induction over the consumers (`PairsGrow`, `PairsShrink`).

The bound used to be two requests of each, and TLC agrees with that for the two or three
consumers it can explore. It is false: four direct consumers that use up to 4 tokens a
request can come to owe 33 tokens after 99 ticks, more than `2 * 4 * 4`, and five that
use up to 2 can owe 21 after 71 ticks (each behaviour was found by a search outside TLC
and then followed, step by step, in `RegulatedFetch`). They space their requests so that
each takes as long as what is owed. Whether three can be reached is not known.

**FetchPipeline.** `ResponsesKept` speaks of what a sink has handled. `InOrder` says, for
each sink, that the numbers in the hands and channels before it are consecutive, from the
last fetched down to the last handled; `Counted` relates what has been handled to the
errors counted. Which goroutine can still send on which channel is `ClosedInTurn` and
`StoppedInTurn`: the cleaner's plan, step by step. The refinement of `Tee` follows from
the same invariant: a sink takes the next number or nothing.

**Archives.** What an archiver has open (`KeepsOpen`) is its own file, the last of its
day, and the file on the disk with the buffer makes up what was accepted, unless the
writer broke. `SplitAtMidnight` says that `nextArchiveTime` is the end of the day of the
open file, and `Numbered` that the numbers of entries and runs grow. A new name is a
file that did not exist, so it begins when the others are finished, whatever name it
has. That the names are in order, and the suffixes used without gaps (`NoGaps`), is part
of the invariant only while `faults` is 0. That is enough, since the disk does not work
only after a fault was counted (`FailedOnce`); `Switched` says what the search for a
name then comes to.

**TarDirs.** `NoShortArchive` is about final names. Before the rename, each file of the
day that can be read is written, in the queue or still listed (`GoodSoFar`), and a
program that writes under another name replaces only what was out of date (`Phases`).

**BlocksPipe in CsvStream.** `PipeInv` says of each pipe where its blocks are
(`Arranged`: each in one of four places, and there once), together with where the
producer and the reader are when they hold one.

**CsvStream.** `RecordsInOrder` speaks of the end of the chain only. `BytesInOrder` says
of the whole chain that what was parsed, what the parser has read ahead, the blocks of
the outer pipe, what the decompressor holds, the blocks of the inner pipe and the rest of
the file are intervals, each beginning where the one before it ends. `Arranged` is
needed for it: a block that is filled again is not one that is still to be read.
`StreamInStep` says that no pipe is stopped while its reader is attached, so that no block
is dropped from the middle, and `EndTold` that a reader is told of the end, or of an
error, after the last block only.

**SplitLocations.** A record that belongs to an output is unread, in `recordCh`, with one
worker that has yet to send it, in the output's channel or written, and in one of these
only (`AllRecords`); in the output's channel and file no record comes twice and the
records of an earlier file come first (`OutputContents`), because workers have ended and
`recordCh` is empty before the next file is opened (`ReaderInStep`, `RecordChInStep`). That
every output is closed and its writer done at the end is `OutputStates`.

**PartitionTree.** The index does not hold the cut points: they are taken from where the
children begin. So `Growing` says that child k + 1 of a node begins at the node's cut k,
whether it has been made or is still a call in `todo` (`BeginsAt`), that no place in the
tree is used twice (`IsTree`), and that `squares` is known while squares are to be cut.
`MadeGrowing` shows once that making a node with calls for its children keeps this, and
each way of cutting is an instance of it. Routing is a recursive function of the tree;
that two trees with the same directions and cuts have the same one (`SameRoute`) needs no
induction.

That every location has one leaf (`LeavesTileGlobe`) takes an induction over the depth
of the tree, and an invariant of the tree while it is made, `TileInv`. Its main part is
`Tiled`: each node's cuts are in order between the sides of its region (`Ordered`), each
child, made or still a call in `todo`, has the region between two of them, and the
samples of a call are inside its region, so that cuts at samples are in order too.
`MadeTiled` shows once what making a node keeps, as `MadeGrowing` does for the index.
The first two levels cut at means of samples near each end; that the lower mean is not
above the upper one (`ExtremaOrdered`) needs the two groups to be apart, which is why
`PartitionAssumption` says that `LowIndices[n]` is at most half of n (200, 50 and 20 of
a million, 100000 and 10000 samples in the code). `SquaresCut` says that no leaf among
the squares is too large and, of the calls for squares (`SquareCall`), that one at a
level where nobody looks at the size will be cut or has no area. Only that bound is
stated: cutting at whole steps may leave squares smaller than the minimum.

When `todo` is empty every child has been made. `RouteFound` then proves of such a tree
that `Route`, a recursive function, is defined, ends in a leaf whose region holds the
location, and takes every region that holds it inside to the same leaf. The induction is
over the length of the paths, which the finite tree bounds, by the least number for which
a step fails: `FollowedToTheEnd` (the function that follows a way exists), `UpFromTheEnds`
and `DownToTheRoot`. `FilesFound` follows: a query that holds a location meets the region
of its leaf and each region above it.

**Aggregator.** Every change the aggregator makes replaces one entry, appends to the
queue and keeps the number of reports (`SoundAfter`); `Sound(acc, K, Q, h)` says that no
entry begins before `K`, that nothing queued is older than `Q`, that each entry's sum is
within `SameWithin` per report of that of its first (`Near`), and that `h` reports and
those taken in since are there. It is kept by each step of the two loops
(`InsertedSound`, `EmittedSound`) and by sorting and cutting the queue. `InsertEffect` is
then used three times: with 0, for the types and the count; with what begins at
`oldestReport`, for the order while vehicles are seen (`InOrder`); and with what begins
at most `Slack` before the last location written, for the bound otherwise (`Bounded`).
`Bounded` is needed because an absent vehicle no longer holds `oldestReport` back: its
entry may be `Slack` older than what has been written, and its average another
`SameWithin`. Sums are cardinalities (`Total`), so that what one step does to a sum, and
that sorting does nothing to it, follow from the library's facts about finite sets.
Induction on the number of steps is by the least number for which a step fails
(`NatSet`), which the library's well-foundedness of `Nat` gives for a set.

**Agency.** The parser and the reader are folds over files, stops, directions and paths.
For each of them a lemma (`FilesFolded`, ..., `PathsReadFolded`) proves that the fold is
the last of a series of agencies of which each is the step after the one before;
an induction on the length then works with the steps alone. `Sound` holds of every agency
of every series: the index finds each path once, though buckets be shared (`Indexed`),
routes and paths name each other (`Linked`), and so do routes and directions (`Directed`).
The parser adds that a route with paths has a direction (`EachDirected`), which is why a
second file of the route finds it filled and leaves its paths alone (`FileParsed`); a file
without directions is an error. The reader adds that it has a part of what was written
(`Agrees`). By `Directed` no direction that is read belongs to another route, so that
`addNewDirection` cannot panic, and by `Agrees` no title differs, so that there is no
error for `ReadPaths` to forget (`DirectionRead`, `RouteRead`). `WrittenRead` adds what the
file does to it: plain tags come back from a file that was written to its end, and nothing
is read of one that was cut. The hash is arbitrary.

**VehicleReports.** `TimesComeBack` needs no invariant: `lastTime` and the ages give the
time of each report (ages are whole seconds, the newest has the least), and the
conversions of a time to CSV fields and back undo each other within the bounds that the
reader accepts.

Only model-checked:

- liveness (TLAPS has neither fairness arguments nor ENABLED): the fairness part of
  `ImplementsClosableService`, `NobodyStarves`, `CloseDrains`, `StopAnswered`,
  `StopAnsweredOrDead`, `FileClosed`, `Finishes`;
- what folds and recursive operators compute (induction over data): `PathsFound` of
  `NearbyPaths`, whose quadtrees are recursive, and the algorithms but two: `TimesKept`
  checks for some responses what `TimesComeBack` proves of all, and `PathsKeepTheirIndex`
  for some files what `PathsComeFromTheFiles` and `PathsComeBack` do.

## Findings

`HiLoCloseHangs` and `CullToolList` show where the code does not do what its comments
say; `PROJECT.json` quotes both. The others are exceptions in properties that hold, each
as narrow as the code allows:

- A `Do` that meets a `Close` may wait for ever (`ImplementsClosableService`).
- A wait that comes while the timer runs is dropped (`WaitHonoured` counts the others).
- An archiver can be stopped before it gets the last response (`ResponsesKept`).
- The flush ticker may fire after the archiver is closed and end the process; so does a
  response that is nil (`periodic_fetcher.go:99`), and one that the aggregator panics on
  (`StopAnsweredOrDead`).
- A batch with one vehicle twice may panic (`NothingForgotten`, in `InsertPanics`).
- The archive may be out of order after a vehicle's absence (`OrderKept`; how far is
  `DisorderBounded`).
- A tick that a slow fetch left behind makes the next fetch come at once, and can lead
  to retries without any delay (`BackoffKept`).
- With a server whose clock is ahead of ours a request goes further back than NextBus
  allows, and with one behind it may begin after `lastTime`; by as much as the clocks differ
  (`RequestsCover`), as the comment at `url.go:17` admits.
- The file that the culler has found when it is told to stop may still be removed
  (`StoppedMeansQuiet`).
- A late location is in the file of a later day, one of midnight may be in that of the day
  before (`FiledByDay`).
- After an error other than that a file exists a free name is skipped, and a later file of
  the day may get it (`OneRunPerFile`; `path.go:42`).
- A vehicle whose coordinates are out of range becomes a nil location that the
  aggregator will trip over (`TimesKept`).
- Two channels or functions are different though they be the same one; comparing equal
  maps with keys that are not primitive, in fields that are not exported, panics; two maps
  that are inside themselves are compared for ever (`ComparedRight`;
  `deep_compare.go:395`, 480 and 501, 235).
- Tags are written to the file of all paths without escaping, and errors of writing it are
  dropped (`PathsKeepTheirIndex`; `path.go:108` and 147).
- A header with an end of comment in it changes what a saved configuration file says, since
  `configfetch.go:147` does not clean it as `vlr_archiver.go:39` does (`NotesChangeNothing`).
- The picture of `csv_to_image` is shifted unless it is square, and that of `Hist2D`
  lacks the lowest row, in which the pictures of paths have reports when a cell is more than
  a metre; points less than a cell below or left of the region are counted, which the
  comment at `hist2d.go:29` denies; and a region so narrow that no cell is left across makes
  `LogHistogramAndCDF` panic (`ImagesTrue`).
- `locations_to_nearest_paths` returns with the mutex locked when an output cannot be
  opened (`locations_csv_to_per_path_csv.go:93`), and need not end then (`Finishes`).

The rest need no run, being visible in a line or two: the ticker started at
`periodic_fetcher.go:135` is never stopped once a retry succeeds; directions get the
stops of their route (`route.go:93`); `ReadPaths` returns the wrong error
(`path.go:249`); low priority requests use the client of the high priority ones
(`nextbus_fetcher.go:174`); squares may get smaller than the minimum
(`partition3.go:349`); `--overwrite` is ignored
(`locations_csv_to_per_path_csv.go:91`); `ProcessTarEntries` tests its error the wrong
way round (`tar_reader.go:34`); a pattern in `vlr_reader.go:42` does not match what its
comment says.

## Plan

The modules `DeepCompare`, `LocationImage`, `QuadTree`, `XmlNotes` and those that use
them are recursive where the code is, and stay with TLC.

## Not modelled

- Contents of responses, XML syntax, file formats, compression, logging: no property is
  about them beyond what `XmlNotes`, `Agency` and `VehicleReports` say.
- The older two-priority fetcher (`hi_lo_http_fetcher.go`), `http_simple_fetcher.go`,
  `net.go` with the regulator's `MayUse`, and `FetcherFunc`: no program creates them.
- In `RegulatedFetch`, a `Do` whose request is in `inCh` when `Close` ends the goroutine
  waits for ever, as `http_fetcher.go:226` admits: the caller stays `queued` and no
  liveness is claimed.
- `main`: flags and construction. It waits for the two fetchers one after the other; they
  share nothing but the fetcher of `HiLoFetcher`.
- The removal of emptied parent directories in the culler.
- Commands that rename or read one file after the other (`combine_fetcher_dirs`,
  `rename_to_dashed_date`, `check_csv_order`, `raw_tgz_to_raw_csvgz`,
  `create_zip_per_dir_of_xmls`), and `raw_mbta_locations_tgz_to_days_reports`, which does
  not build. `tar_reader.go` and `vlr_reader.go` serve only such commands; `nballpaths.go`
  and the partitioner's `PartitionPath` are used by no program.
- Floating-point formulas: distances on the sphere and projections (`geo`), orthogonal
  distance and the fitting in `fit_path_points`, `stats` (where `Y` and `Weight` of
  `time_duration.go` return `X`; nothing calls them), `fit`.
- `transit_realtime`: generated; `gcs`, `gce`: calls of client libraries;
  `cmds/sandbox`: experiments.
