# TurboOCR: a verification project

TLA+ modules for TurboOCR, model-checked with TLC on small instances, with theorems
checked by TLAPS for every size: the concurrent core of the server (dispatcher, pools,
PDF job, shutdown), one OCR pipeline with its buffers and faults, batches, the algorithms
that read a page and give it its structure, and the endpoints around them.
Paths below are relative to the repository.

## 1. Inventory

TurboOCR is one server process in two builds. In the GPU build Drogon event loops and
gRPC threads take requests, a `WorkPool` runs the handlers, a `PipelineDispatcher` runs
everything that needs a GPU, a pool of external renderer daemons turns PDFs into page
files, and a `VLMCropPool` sends table and formula crops to a model server. In the CPU
build a `PipelinePool` lends pipelines to the handlers' own threads. In the table, *hard*
names what makes a component difficult to test.

| Component | State | Operations | Interacts with | Hard | Correct when |
|---|---|---|---|---|---|
| **Pipeline dispatcher** `pipeline_dispatcher.{h,cpp}` | FIFO queue, a worker thread per pipeline entry, three atomics per worker (recycle flag, task start, recycle request), `stop_` | submit, wait with timeout; pop, recycle, run, settle; watchdog scan; destructor | all routes (futures), entries, watchdog (atomics) | relaxed atomics between worker and watchdog, deadlines, abandoned futures, destruction | a task is run at most once, no future is lost or set twice, a faulted pipeline is rebuilt before it is used, a wedged worker ends the process |
| **GPU pipeline entry** `gpu_pipeline_pool.h` | pipeline, stream, nvJPEG handle | build, recycle | owned by one worker | a rebuild that fails half-way | an entry is whole or visibly dead |
| **VLM crop pool** `crop_pool*.cpp` | queue, retry list, curl handles, `in_flight_`, `stop_`, wake pipe | submit, worker loop (promote, dispatch, perform, complete), shutdown | pipelines (futures), curl | submit against shutdown, retries against deadlines, one crop in three containers | each crop is answered once, the limit holds, shutdown leaves nobody waiting |
| **PDF job** `pdf_job_gpu.cpp` | page slots, futures, dropped list, failure counters | prepopulate, render, join, verdict | renderer (callback), dispatcher, stream hooks | four kinds of page failure, tasks that outlive the job, a job-wide deadline | a verdict matches what happened to every page |
| **PDF renderer** `pdf_renderer.cpp`, `pdf_daemon.cpp`, `pdf_ppm.cpp` | daemon processes with a mutex each, scratch directory, inotify events, `delivered[]` | render, streamed render, respawn and retry, clean-up | external daemon, PDF job | crashes, late and repeated events, files still being written | each page is delivered once and complete |
| **Stream route** `pdf_stream_route_gpu.cpp` | NDJSON stream (mutex, closed) | meta, page, page_error, error and end lines | PDF job hooks on worker threads | lines of many threads on one wire, clients that leave | the lines tell the outcome of the job |
| **CPU PDF job** `pdf_job.cpp` | page slots | render, fill pages in order | renderer, CPU pool | modes and frames that differ from the GPU job | a page is the same in both builds |
| **Work pool** `work_pool.h` | queue, in-flight count, `stop_` | submit, run, wait_drain, destructor | routes, shutdown | drain against admission | drained means empty and idle |
| **Bootstrap, shutdown, readiness** `server_bootstrap.h`, `readiness_gpu.cpp` | draining flag, drain thread, cached probe | signal handler, drain, quit, probe | work pool, dispatcher, gRPC server | order of teardown, cached verdict | no accepted request is cut, the process ends |
| **Deferred stages** `finalize_deferred.cpp` | pending crops with futures, one deadline | finalize formulas, tables | crop pool | a late or throwing future among others | each region has its result or counts as degraded |
| **Batch routes** `http/image/batch/` | images, per-slot results and errors, chunks of 8 | decode, run chunk, retry per image, scatter | dispatcher | partial failure of a chunk | slot i answers image i |
| **gRPC service** `src/grpc/` | server, completion | Recognize, RecognizeBatch, RecognizePDF | dispatcher, work pool | a second front for the same work | as the HTTP routes |
| **OCR pipeline** `pipeline/ocr/` | grow-only GPU buffers, one staging buffer, events, CUDA error slot, recycle request | run, batch, layout only, one region, dispatch tables and formulas | recognisers, crop pool | uploads that overlap, recoverable and sticky CUDA faults, partial batches | a page is read from its own pixels, what is lost is flagged, faults are healed |
| **Region router** `router/` | none (pure) | rules, tie-breakers, mask of lines | pipeline | overlapping regions, order of rules | a region has one destination and loses it only to a rival or to what it encloses |
| **Reading order** `layout/order/`, `layout/blocks/` | none (pure) | XY cut, child blocks, block matching | pipeline, PDF job | degenerate boxes, claims of several parents | a permutation of the lines |
| **Layout filter** `layout_postfilter.h` | none (pure) | clamp, suppress, reconcile nested boxes | pipeline | boxes inside each other | a dropped box has a kept one in its place |
| **Text detection** `detection/`, `kernels/` | device bitmaps, labels, boxes | resize, batch, label, grow, map back | pipeline | lock-free kernels, shared canvas, two scalings | the boxes of a page are those of its components |
| **Recognition** `recognition/` | pinned slots, device buffers, pending batches | queue, drain, decode; CTC | pipeline | host ahead of device, widths at their limits | every crop has its own text |
| **CPU server** `cpu_server_main.cpp`, `pipeline_pool.h` | idle pipelines, loaded models | load, acquire, release, probe | routes | a partial load, a notified waiter that gives up | what is offered is on every pipeline |
| **Routes and validation** `http/`, `validation/` | none | check, run, answer | everything | the same request over several fronts | fronts agree, nothing asked for is lost |
| **PDF text layer** `pdf/text/` | text cache | extract, score, verify | PDF job | thresholds | decides which pages are rendered |
| **Tables, markdown, document assembly** | pure | parse, match, merge, write | pipeline, routes | malformed model output, nested spans | structure is preserved |
| **Decoders, engines, formulas, VLM client** | library handles | decode, infer, ask | pipeline | numeric | out of TLC's reach |
| **Configuration, metrics, logging** | tables, counters | parse, count | everything | boundaries | |

`PROJECT.json` lists each of them with its status and its modules, and the hazards of the
code with the line where each bites and the properties that would show it going wrong.

## 2. Modules

| Module | What it is |
|---|---|
| `Resolver` | Abstract specification of an asynchronous stage: work that is taken in gets exactly one outcome, which never changes; `LiveSpec` adds that it does get one. |
| `Dispatcher` | `PipelineDispatcher`: callers, workers, watchdog, clocks, destructor. Refines `Resolver!Spec`. |
| `CropPool` | `VLMCropPool`: callers, worker thread, curl transfers, retries, shutdown. Refines `Resolver!LiveSpec`. |
| `OcrPipeline` | One pipeline and its GPU worker: buffers, staging, the stages of five entry points, device faults, deferred joins, rebuild. |
| `Batch` | A batch of images on four surfaces (HTTP and gRPC, GPU and CPU): chunks, retries, permits, deadlines. |
| `PdfJob` | A streamed PDF job: daemon and writers, inotify events and safety net, page tasks, join and verdict, lines on the wire. |
| `PageJob` | What a PDF job makes of each page, in the GPU and in the CPU build. |
| `RenderPool` | The renderer daemons, their mutexes and pipes, retry and respawn. |
| `Drain` | `WorkPool`, and the way down: signal, drain thread, gRPC half, end of `main()`, the pool's destructor. |
| `Readiness` | The readiness probe with its cached verdict. |
| `PipelinePool` | The CPU server's pipelines from loading to release. |
| `RequestOptions`, `Routes` | What each endpoint checks, in its order, what it then runs, and what it answers. |
| `Requests` | A request with its server, and a document with its mode and options: their types, and what the answers of two transports, or of two builds, must have in common, and an answer with what was asked. |
| `UnionFind`, `Components` | The kernels that label the bitmap of the text detector, thread by thread, and grow what they found. |
| `Detection` | The text detector around its network: sizes, batches, boxes. |
| `RecQueue` | The GPU recogniser's batches: the host ahead of its stream. |
| `Recognition` | Widths of crops, batches of the CPU recogniser, both decoders. |
| `Tables` | Structure tokens, matching of cells, HTML. |
| `Boxes` | Boxes and their measures, shared by the modules below. |
| `LayoutFilter` | From raw detections to the regions of a page. |
| `XyCut`, `LayoutBlocks`, `ReadingOrder` | The recursive cut, captions and sub-titles with the blocks the cut leaves out, and the order of lines they make. |
| `RegionRouter` | The router's plan: which regions are for the table or the formula recogniser, and which lines lie in one of them. |
| `DocAssembly` | Tables across pages, levels of titles. |
| `PageStructure` | The regions, lines and titles that filter, router and title ranking are given, with their types, and what each promises of them. |
| `Markdown` | The Markdown of a page. |
| `DispatcherProofs`, `CropPoolProofs`, `PdfJobProofs`, `BatchProofs`, `OcrPipelineProofs`, `DrainProofs`, `ServingProofs`, `ReadingProofs` | Theorems (section 5). |
| `MC*` | Small instances for TLC (section 3). |

How they fit. `Resolver` is the promise that a stage makes to its callers; the dispatcher
and the crop pool are shown to keep it, and the modules above them use no more than it:
a page task in `PdfJob` and a slot of `Batch` is refused, or resolved at most once at any
later time; a deferred crop in `OcrPipeline` is resolved once or never. What a dispatcher
worker runs is a call of `OcrPipeline`, whose rebuild is the dispatcher's `Recycle`.
`Requests` EXTENDS `Routes`, and that `RequestOptions`; `Markdown` EXTENDS `ReadingOrder`, and that
`XyCut` and `LayoutBlocks`; `PageStructure` EXTENDS `LayoutFilter`, `RegionRouter` and `DocAssembly`; `Components` EXTENDS `UnionFind`. `MCServing`, `MCReading` and
`MCStructure` each hold several modules: a behaviour first picks the `part` or `subject` it
is about, and the others rest.

The operators marked `Mutant` are plausible mistakes in the operator below them; no
specification uses them. They are there to show that each property can fail.

### Dispatcher

A value of `pc[w]` is a point between two shared accesses of the worker's loop
(`pipeline_dispatcher.cpp:33-84`):

| Action | Code |
|---|---|
| `Stamp`, `Enqueue` | `submit_for`, `submit_with_deadline_`: the deadline is stamped before the push, a full queue throws |
| `BeginWait`, `GiveUp`, `TakeAnswer` | `get_with_timeout` |
| `Pop`, `Exit` | the section under `mutex_` |
| `Recycle` | `flag->exchange(false)` and `maybe_recycle_`; a failed rebuild leaves the entry dead |
| `ClearRequest`, `MarkStarted`, `MarkIdle` | the stores to `req_at` and `start_ms`, before and after the task |
| `Drop`, `Run`, `Finish` | the deadline test and `work.fn(*entry)` |
| `Settle` | the last store to the flag, then the destruction of `work`, which breaks a promise nobody kept |
| `Wake` .. `StampRequest` | the watchdog, one atomic access per step |
| `Shutdown`, `JoinAll` | the destructor |

Clocks are abstracted to what they are compared with: a deadline is ahead or past, a
start time fresh or overrun, a request recent or overdue. Each may advance at any time,
independently of the others, which includes every real timing. The stores that are
relaxed in the code are interleaved as sequentially consistent accesses; each location
has a single reader that acts on it, so weaker orders add only delays, which the
interleavings of the watchdog include. The destructor starts when no caller is inside,
as ownership in `gpu_server_main.cpp` guarantees.

### CropPool

A section under `queue_mu_` is one action; everything the worker alone touches between
two such sections is one action. `Dispatch` is one turn of `try_dispatch()` with
`dispatch_one()`, including its early failures; `Perform` lets any subset of the active
transfers end in any way; `Complete` is `complete_handle()`. The worker has no wait
that blocks it: `curl_multi_poll` is capped at 200 ms, so it is no state of its own.

### PdfJob

The state of a page is its file (absent, being written, whole, torn), its unread
event, its entry in `delivered[]`, its task and its slot. The position `pc` follows
the thread of the job from `run_pdf_job()` through `render_streamed()` (poll, drain,
safety net), the join, the verdict and the three sections that end the stream. The
daemon and its writers are external; they may reply before files are complete, die with
or without a file, and be restarted once. A page task is what the dispatcher promises:
refused at submit, or run at most once at any later time, perhaps never. Which pages need
a render is chosen at the start (`skipped`); how it is decided, and the content of pages, is
in `PageJob`, and the contention for daemons in `RenderPool`. Left out: an empty PDF (the
route refuses it before the stream opens) and two writers on one inode after a respawn. `on_page` is assumed to throw nothing but
`PoolExhaustedError`, which is all the dispatcher's submit throws.

### Drain

A section under the pool's `mutex_` is one action (`Submit`, `Test`, `Release`,
`TestDrained`, `RaiseStop`); a wait on `cv_` or `drain_cv_` is a position that only a
notification leaves. Spurious wake-ups are left out: both waits have a predicate, and
without them a lost notification shows. `notify_one` and the destructor's `notify_all`
come after the unlock, so they are steps of their own (`Notify`, `NotifyAll`); the
in-flight guard notifies `drain_cv_` under the lock, so that is part of `Release`. A
request is answered if its handler's callback runs while the event loop is there, and cut
otherwise. `Signal` to `Quit` follow `begin_graceful_shutdown()` and its detached thread;
gRPC is external and reduced to what `Shutdown(deadline)` promises. `RunReturns` to
`Return` follow the end of `main()` in `gpu_server_main.cpp`: the readiness refresher is
joined first, then gRPC, then the locals go in reverse order, the pool before the
dispatcher its tasks use. `early` is a history variable: the requests in the pool at the
signal. The
verdict of the probe is in `Readiness`. Left out: an exit without a signal, and start-up.


### OcrPipeline

One call runs on a pipeline at a time, as the dispatcher guarantees; `worker.at` follows
the host. `program` lists the calls: single, on the device, one region's structure, layout
only, one inference, and batched. A page's pixels are a model value that is followed
through the staging buffer, the two image buffers and the layout's deferred readback, so
that a mix-up shows in the result.

| Action | Code |
|---|---|
| `StartCall`, `Stage` | the entry points of `ocr_pipeline_run.cpp` and `ocr_pipeline_batch.cpp`, one step per point where the host waits for the device or hands it a buffer |
| `Staged` | `upload_image` up to its copy: grow the buffer, grow the staging buffer, stage the page; growing frees, and freeing waits for the copies |
| `CopyRuns` | the copy engine, any time before the host waits for it; it takes what the staging buffer holds by then, which is no page if one of another size was staged meanwhile |
| `CopyRefused` | `cudaMemcpy2DAsync` fails with the page staged already |
| `Fault` | an API call fails, a launch fails, an engine reports an error, an allocation for an upload fails, the layout is refused, a submit throws: each at its stage; who catches it decides whether the page is degraded, the call fails, the pipeline asks for a rebuild, or a sticky error ends the process |
| `MeetsOldError` | an error that an earlier call left in the CUDA last-error slot is found by this one |
| `Rebuild` | `maybe_recycle_`: buffers and staging are new, the error slot of the worker's thread is not |
| `Resolve`, `DeadlinePasses` | the back end of a deferred crop answers, or throws, or never does; the shared deadline |
| `Join`, `Finish` | `finalize_deferred.cpp`, off the worker |

Streams are ordered by the events the code records; a kernel is modelled where the host
first waits for it. A call that fails may leave its copies queued for the next: only the
handlers of detection wait for the stream (`DetectionHandler`). Texts are not followed: a line is usable or not.
A batch of `run_batch_with_layout` is cut in parts of eight, and a part of one image takes the
single-image path, with the handler that goes with it (`ocr_pipeline_batch.cpp:72-98`); such a
part only arises beyond eight images, which no caller sends in one call, and is left out. A
chunk of one is in `Batch` (`Poisoned`).

### Batch

`Prepare` decodes, checks sizes and charges the pixel budget, `Submit` hands the batch to
the dispatcher, `RunChunk` runs one chunk and, when it fails, its images one by one,
`Collect` and `Expire` are the two ends of the wait. `SubmitSlots` and `AwaitSlot` are the
RPC on the GPU, with a future per image. `Permit`, `FanOut`, `Join` and the workers'
`Acquire`, `Claim`, `RunImage` are the CPU build: extra workers draw on permits shared by
all requests of a surface, and claim slots from one counter. An image is what the
surfaces tell apart (form, JPEG or not, size before and after decoding, how inference
ends), not its pixels.

A run that fails may leave its error in the last-error slot of its thread, which the next
checked launch on that thread takes for its own (`OcrPipeline` has this slot, and the run
`pipeline_poison` shows it). In `Batch` the retries of a failed chunk run one after the other
on one thread, so that the first of them may meet the error of the chunk, and one that comes after
an image that failed by itself the error of that (`Exposed`); an image that is only degenerate
is refused by its own upload before any launch. For the futures of the RPC the module does not
follow which thread runs what: `spills` counts the errors left, by slots and by calls of
other endpoints (`OtherCallFails`), and a slot may meet any that nobody has met (`Left`), which
`met` records.

### RenderPool and Readiness

A daemon is a process with one pair of pipes; its commands and answers are queues of the
renders that wrote them. A render tries every mutex once from its hint (`TryLock`), blocks
on one (`Lock`), then writes and reads (`Write`, `WriteFails`, `Reply`, `EndOfFile`,
`TimesOut`), with one respawn and one retry (`Respawn`, `RespawnFails`, `HandlesFail`),
and leaves. `Die` and `Answer` are the daemon's, `Destroy` the destructor. What a render
does with its pages is in `PdfJob`.

`Readiness` has a position for every read or write of the two atomics: a call without the
mutex reads the stamp and then the flag (`ReadsStamp`, `ReadsVerdict`), the prober checks
both again under the mutex (`LocksAndRechecks`) and stores the flag (`Stores`) before the stamp
(`Unlocks`). `Tick` is the clock, and a pass may last any number of ticks. A pass ends with the
GPU's verdict, or is refused by a full queue, keeps the flag as it was, and is stamped all the
same (`PassGives`). `passes` is a history of the verdicts stored, with which of the two each was:
`FreshVerdict` says whose word an answer is, and how old the pass is that repeated it. How old the
*word* is has no bound while the queue stays full; that is what the code does, on purpose
(`readiness_gpu.cpp:46-51`), and the property says no more. gRPC's Health reads the flag between
passes with no time to live: only whose word it is can be said of it.

### PipelinePool

Start-up loads each configured stage by taking a pipeline from the pool's own queue and
giving it back, as many times as the pool has places (`LoadsIntoOne`, `LoadFails`,
`SkipsStage`): that each gets it rests on the queue's order. A request waits without limit,
a probe with one; a notified thread may find the pipeline gone (`Wakes`), wake for no reason
(`WakesForNoReason`), or be a probe whose time is just over (`TimesOutOrTakes`). `Runs` gives the keys of the answer for the page.

### Routes and RequestOptions

A query is a function from the parameters it names to their values. Every handler is a
list of checks in the order of its code, each of which is a code or `Accepted`; its answer is
the first code that is none, or the keys of what it ran. The parameters, the gate that classes them per endpoint, the
routing overrides and the sizes are in `RequestOptions`. What is asked twice or spelled
otherwise is left out, as is the body's syntax: a body parses or does not. Next to what each
gate lets pass (`ImageSpec`, `PdfSpec`, ...) `Routes` has what each handler then takes from the
query (`ImageReads`, `PdfReads`, `StreamImageReads`, ...), for `NothingAskedIsLost` to compare
with. To read is to look at: the encoder's settings count as read although `images` is not
`inline`, and `as_blocks` although `markdown=1` leaves no room for it.

`Requests` has the endpoint, the server and the query as state, which `MCServing` lets grow
one parameter at a time, and the images, documents, sizes and regions as constants. It states
`TransportsAgree` and `NothingAskedIsLost`, so that run and theorems speak of the same
definitions. `Message`, `PixelMessage` and `PdfMessage` are the gRPC requests that say what a
query says; `Plain`, `PlainPdf` and `Sayable` are the queries that have one. Codes are compared
only when one thing is wrong with a request: with several, the two fronts may report another one
first. One input is excepted: raw pixels that are empty. `/ocr/pixels` answers with a code of
their size, and `Recognize` takes them for none at all (`recognize_rpc.cpp:57`) and answers
`MISSING_IMAGE`; the property says only that both refuse.

### PageJob

Both jobs as functions from pages and options to an answer: the quality of the text
layer, who is rendered in each mode, what is recognised, the frame (dpi and turn) each
part of the answer is in, and the four failures of a page. `Requests` has the document, the
mode and the options as state too, with their types and the property `BuildsAgree`.

### Reading a page

`UnionFind` has one thread per 2x2 block and one step per access to a label in global
memory; a plain load may return any value the label has held (`held`), since the caches
of the multiprocessors are not coherent within a kernel, and only the hook is atomic.
`Components` adds the barriers between kernels, numbering, extraction with a bounded
number of slots per thread block, and the growing of components from their boundary, held
against what it stands for (every pixel to the nearest component that reaches it). `Detection` has the resizing, the shared canvas
of a batch and the two scalings back, with axis-parallel bars of text for the network.
`RecQueue` follows each row of the single device buffers while the host queues ahead with
pinned slots of its own: `Stage` writes a slot's transforms and queues their copy, `Warp`
queues one kernel per image of the batch, `Infer` the network, the argmax and the copy back;
`Execute` is the device, which takes one operation of the stream at any time; `Synchronise`,
`DecodeRecord` and `Decoded` are the wait and what follows it. A launch that fails throws
with all that was queued still in the stream (`Throw`), and the next call meets it there. The
sort by width is not stable, so `SortedCrops` allows every order of equals; a call without
crops returns before anything else (`NothingToRead`). `Recognition` and `Tables` are pure
operators over integers.

### Structure of a page

Pure operators over integer boxes. Ratios are compared by cross-multiplication, as
exactly as the code's floats are meant; scores are hundredths. Only measures of a text are
kept (its line's box; a character where the code counts or cuts them). `std::sort` may leave
equal scores in any order, so the filter is checked for each of them (`Orders`).
`PageStructure` has what is looked at as state, with its types and the four properties that
section 5 proves of it; the others are in `MCStructure`.

`RegionRouter` ends with the plan. Whether a planned region is read is settled by what follows:
`dispatch_router_` asks for `want_tables`, `want_formulas` and a back end
(`ocr_pipeline_dispatch.cpp:88-92`, `Wanted` of `OcrPipeline`), and `NoSilentLoss` is about the
regions that it takes. The mask of lines has no reader: recognition has run on all boxes by then
(`ocr_pipeline_run.cpp:164`), although `routing_plan.h:28-31` says that it must not. So
`RegionsRouted` is about destinations and not about what is recognised. Two ties deserve a
look. On a full tie the earlier region loses, as no region has an id yet. And scores
within a hundredth count as equal, so the comparison is not transitive: of three tables that
overlap each may lose to another, and all become text; `RegionsRouted` asks for the rival and not for a
survivor.

`XyCut`'s limit on its depth is never reached by pages of the size a run can look at, and its gutters
are as fine as the boxes of the run. In `Recognition` an index beyond the dictionary does not
occur: the recogniser refuses to start unless the dictionary fits the network (`DictFits`).
`Markdown` takes what a recogniser read of a formula by its kind (`Results`: nothing, LaTeX that
repeats itself, LaTeX the viewer rejects, LaTeX it shows), as only the kind decides what is
written. `TextWritten` exempts the lines of which `render_markdown` never has text to write:
those inside no region, in page furniture, equation numbers, and lines in whose place a table
or a formula stands.

## 3. Runs

| Run | Instance | Shows |
|---|---|---|
| `dispatcher_owners` | 2 workers, 3 tasks, queue of 2, no timeout | one owner per task, every queued call returns |
| `dispatcher_timeouts` | 1 worker, 2 tasks of which one hangs, queue of 1, timeout, recycling | no lost task, drain at destruction (callers that gave up leave tasks in the queue), promises broken only past a deadline, faulted entries rebuilt, kill only after an overrun, a hung worker ends the process, the destructor returns, refinement of `Resolver` |
| `crop_pool` | 2 crops, 1 slot, 2 retries | one place per crop, slot count, attempt bound, nobody left waiting at shutdown, shutdown returns, no write to a closed descriptor, refinement of `Resolver!LiveSpec` |
| `pdf_job` | 2 pages, each from the text layer or rendered | one line per page, Ok means stored, no task left at a verdict, decode failures have a cause, the stream of an Ok job is complete, every job ends |
| `drain` | 2 requests, 2 pool threads, queue of 1, 1 gRPC call | a full drain has answered all that was in the pool at the signal, the destructor leaves no task behind, a signal ends the process without the grace window |
| `pipeline` | up to 3 calls, up to 2 device faults, batches in slots of 2 | every page is read from its own pixels, no copy into memory that is gone or too small, what is lost is flagged, every call is answered |
| `batch` | 2 requests, up to 5 images, chunks of 2, 1 permit, 1 fault of the server's own | a slot has its own image's result or a tag, a failed run costs its own slot and at most one other, pixel budget, workers and permits, every batch is answered |
| `serving` | five parts: 3 renders on 2 daemons with a death or a failed fork; 2 probes, a time to live of 2 ticks in 5; 2 pipelines, 3 clients, a probe; 7 endpoints with up to 3 parameters on 7 servers; documents of up to 2 pages | no orphaned or shared daemon, readiness is the GPU's last word from a fresh pass, offered features served, HTTP and gRPC agree, what was asked for is answered or named, both builds agree, waits end |
| `reading` | bitmaps of 8 by 4 pixels (8 blocks), batches of up to 3 pages, 2 calls of the recogniser, 4 steps of text, 3 crops, tables of 3 pieces and grids up to 2x3 | exact components and boxes, pages in place, every crop its own text, decoding, every line in its cell |
| `page_structure` | up to 4 boxes and 3 lines from small sets, per algorithm | nothing lost or doubled by filter, reading order, document assembly and Markdown; the router's destinations have their reasons |
| `pipeline_poison` | `pipeline` with one fault | *violation:* "the request shouldn't poison subsequent ones" |
| `render_stale_reply` | 1 daemon, 2 renders | *violation:* "Single write+read round-trip to the daemon" |

Bounds. Ownership errors of the dispatcher need two workers on one queue, and a third
task to fill the queue while both are busy; the queue of two places is then empty, full
and over-full. The watchdog treats each worker on its own and shares with it only that
worker's three atomics, so one worker and the task after a slow one are the smallest case
of every race between them; the theorems of section 5 state the safety for any number.
One slot and two crops make a crop of the pool wait while another is in a handle or
parked; two retries reach the last attempt and the one after it that must not be made.
Two pages are enough for a page to be joined while another is late, dropped or failed, or
has its line before the render. Two requests on a queue of one place are enough for one to
be refused, for one to be queued or run while the other is released, and for one to
arrive after the drain found the pool idle.

A pipeline's calls share buffers and the error slot: the first leaves them grown, failed
or dirty, the second meets them, and a third shows what a rebuild left. Three images in
slots of two give a batch that is full, one that is not, and one that begins again at the
first slot. `MaxFaults` bounds the faults injected: two let the recovery from one fail by
another. A batch of five is one over the limit of four; chunks of two give a chunk before
and after the failing one. Two daemons and three renders make one render wait for a mutex
while the other daemon becomes free. A time to live of two ticks in a clock of five lets
a pass outlive its predecessor's verdict. Eight blocks in two rows are enough for a ring, a
bridge and two components, with at most three blocks meeting at one hook; the theorem has
no bound. Two slots of two crops are full before the calls' last batches. Of the requests,
combinations of three parameters contain each pair with a third that is refused first.

For the pure algorithms the input grows element by element, and TLC checks each property
on every prefix of every sequence over the small sets in `MCStructure` and `MCReading`.
These hold what the code distinguishes: boxes that touch, nest, cross a gutter, lie off the
page or have no area; classes from each branch; equal scores. The clusters of title heights are moved
8 times (`Rounds`) where the code moves them 100: with so few heights they have settled
before, and the theorem holds for any number. Nothing is capped by a state
constraint: attempts, events and failures are bounded by the code itself or by `Max...`
constants in guards.

Deadlock is not checked where the system may stop: a hung task leaves the destructor of
`dispatcher_timeouts` waiting for ever, and `pipeline`, `batch`, `serving`, `reading` and
`page_structure` come to an end when the last call is answered or the input is complete.
That the processes in them do not stop early is what their liveness properties say.

### Where a comment and the code disagree

The two runs that expect a violation check what a comment says. A recoverable fault in one
call can leave an error in the CUDA last-error slot that fails the next call
(`pipeline_poison`). A daemon that misses the reply timeout and is not dead keeps its late
answer in the pipe, and the next render reads it as its own (`render_stale_reply`).

Further statements are defined beside the properties, refuted by TLC in the
same instances, and named in `PROJECT.json` without a run of their own:

| Definition | Comment | What happens |
|---|---|---|
| `Dispatcher!BrokenPromiseUnobserved` | "harmless broken_promise that nobody is waiting on" | the caller's wait starts after its deadline was stamped and can see it |
| `Dispatcher!KillsTheAccused` | "never hard-kills a fresh task on a previous task's timestamp" | the request is stamped on the task that began meanwhile |
| `Dispatcher!DeadEntryThrows` | "a subsequent task throws rather than touching a half-built pipeline" | the task dereferences the null pipeline |
| `Dispatcher!FlaggedSlotRecycles` | "a slot with no queued work still recycles" | the wait's predicate does not look at the flag |
| `PdfJob!NoSilentEmptyPage` | "nothing slips through as a silently-empty page in a 200" | a page never written is given up after 30 s and the job is Ok |
| `RecQueue!CountsOfTheLastCall` | "Crops skipped by the most recent run()/run_multi()" | a call without boxes returns before the counts are reset, and a page without text is flagged for the crops of an earlier one |
| `Batch!PerSlotIsolation` | "degrades exactly the bad slot ... per-slot isolation" | the image retried first meets the error its chunk left and is tagged `inference_failed` |
| `Drain!NoneCutInTime` | "caller stops admitting new work first" | a request admitted after the drain found the pool idle is cut in mid-flight, within the grace window |

The other entries of `findings` are differences that the translation showed without a
counterexample: parameters that one front refuses and another ignores, options that are
parsed and not used, features that are advertised and refused, limits that differ.

## 4. Fairness

Safety is checked without relying on any fairness. `Dispatcher!FairSpec` makes each worker
and the watchdog run, a queued caller begin to wait and take what is ready, and clocks
advance; nobody has to submit or to shut down, and a hung task never finishes.
`CropPool!FairSpec` makes the worker and shutdown run, backoffs end, and a transfer that
is performed again and again end: curl enforces `CURLOPT_TIMEOUT`, and as the worker may
be in other steps in between this is strong fairness. `PdfJob!FairSpec` makes the job's
thread run and the daemon answer or be given up, as the reply timeout of
`send_cmd_once`, the cap of the safety net and the deadline of the join guarantee;
writers and page tasks owe nothing. `Drain!FairSpec` makes pool threads, the drain thread,
`main()` and the refresher run, and handlers, gRPC calls and probes end, as the
request timeout guarantees when one is set (`Hangs` is empty in the run). Nothing makes the
grace window end, so `ShutdownEnds` does not rest on `wait_for` timing out: it fails if any
notification can be lost.

`OcrPipeline!Fairness` makes the worker and the copy engine run, the joins go on, and each
call's deadline pass; back ends owe no answer, and faults need not happen. `Batch!Fairness`
makes handlers and workers run and the deadline of a request pass; the dispatcher's
futures and its task owe nothing, so a batch is answered although the GPU is wedged.
`RenderPool!RpFairness` makes each render's thread run, its reply timeout included
(`poll()` has one), and the destructor; no daemon has to answer or to die, and a mutex is
held once by each render, so a waiter is overtaken only so often and weak fairness is
enough. `PipelinePool!PpFairness` makes
calls end, notified threads reach the mutex, and a probe's time run out; spurious
wake-ups are possible and nothing rests on them.

## 5. Proofs

The theorems hold for every value of the constants and assume only the named assumption
on them (`DispatcherAssumption`, `CropPoolAssumption`, `PdfJobAssumption`,
`BatchAssumption`, `PagesAssumption`, `ProgramsAssumption`, `DrainAssumption`, `RenderPoolAssumption`, `ReadinessAssumption`,
`PipelinePoolAssumption`, `NumBlocksAssumption`, `GridAssumption`, `RecQueueAssumption`,
`RequestsAssumption`, `SidesAssumption`, `WidthsAssumption`, `LanesAssumption`, `StructureAssumption`),
which TLC evaluates in the runs.

`DispatcherProofs`, for any number of workers, tasks and queue places, with or without
timeout and recycling, and whichever tasks hang:

- `TypeCorrect`: `TypeOK` is inductive by itself.
- `SingleOwner`, `NothingLost`, `DestructorDrains`: consequences of one inductive
  invariant, `Ownership`. None of the three is inductive alone. That a popped task is held
  by nobody else needs the queue to hold each task once, and that a push keeps it so needs
  to know that only tasks whose caller has a future are queued or held (`QueuedIsAccepted`,
  `HeldIsAccepted`, `SetIsAccepted`). That no promise is lost when a worker lets go of its
  task needs to know which positions of the loop hold a task (`HoldsWhileBusy`) and that
  letting go sets the future. `QueuedIsUnset` and `HeldIsUnset` say that a task that was
  not run yet is open, so running it overwrites nothing. `ExitIsFinal` (a worker leaves an
  empty queue after `stop_`, and nothing is pushed after that) and `JoinedAll` give the
  drain. The lemmas `CallerOwnership`, `PopOwnership`, `FinishOwnership`,
  `SettleOwnership` and `ExitOwnership` treat the actions that move a task, `QuietStep`
  all others.

and on top of `Ownership`:

- `OutcomeIsFinal` and `DispatcherImplementsResolver`: only a push, a task's end and the
  destruction of a task touch what callers see (`FuturesQuiet`), and the latter two find
  an accepted task, open or with the outcome it keeps (`SetStep`).
- `BrokenOnlyWhenLate`: by `SkippedIsLate`, a task that was passed over without being run
  has a deadline in the past, and `PastStays`, no deadline is stamped twice.
- `FaultsAreRebuilt`: by `SuspectIsMarked`, a faulted entry is marked in the pipeline until
  its task is settled and in the recycle flag from then until the rebuild, so clearing the
  flag of a merely slow task never clears the mark of a faulted one.
- `KillsAreEarned`: by `OverrunIsReal`, every clock value and every value the watchdog has
  read that could lead to a kill is evidence of an overrun.
- `DispatcherSafe`: all of them, as the run `dispatcher_timeouts` states its `Safety`.

`CropPoolProofs`, for any number of crops, any concurrency and any number of retries:

- `PoolSafe`: the `Safety` of the run `crop_pool`. The invariant `PoolInv` adds to it that
  inbox, retry list and handles share no crop and hold between them exactly the crops whose
  caller still waits (`Apart`), that a crop waiting to be sent has a try left (`Tries`),
  which `AttemptsBounded` needs before the attempt is counted, and what is already gone at
  each stage of the shutdown (`Stages`). `OnePlace` counts the places of a crop; from
  `Apart` each count is nought or one, and they exclude each other.
- `WakeWritesAreSafe`: `Stages` has the descriptor closed only when the pool is down, so a
  submit that finds it up writes to one that is open.
- `PoolImplementsResolver`: a step accepts or refuses one crop, resolves some, or leaves all
  alone. The sections of `shutdown()` set the futures of whole lists at once; by `Apart`
  these are accepted and open, as `Resolver!Resolve` asks.

`PdfJobProofs`, for any number of pages, with or without a page timeout, and any split of the
pages between text layer and render:

- `JobSafe`: the `Safety` of the run `pdf_job`. `JobInv` follows a page from the renderer to
  its line. `Handed`: a delivered page needs no render, was refused, or its task is one of
  the futures. `Joined`: the futures before the one waited for are done, and those that
  threw are counted. `Slots`: only a task that is done has stored a page, so a verdict over
  joined futures without a failure is a verdict over stored pages. `PageLines` and `Wire`:
  lines are of pages without a render or of tasks that are done, so the line a task adds
  is its page's first, and the end comes last. `Awaits`: as long as no writer has died, no
  render was retried and none has failed, a file somebody waits for is whole, whatever the
  order of events and scans. When the render failed, its scratch directory goes while late tasks may
  still want their files, and the property excuses the failed decodes of just that case.

`BatchProofs`, for any number of batches, images, workers, permits and pipelines, any size
of a chunk and any caps:

- `BatchInvariant`: `BatchInv` is one invariant per request, `RequestInv`, and what the
  requests share. `Shape` ties the lists of a request to its images; `Stage` says which
  surface can be where in its handler. `Slotted`: a slot is open or settled (the result of
  its own image, or a tag), and a slot without work has its tag from the checks. What closes
  the slots differs by surface: `Chunks` (the task has an outcome for each image up to its
  offset), `Futures` (slots are asked for, then settled, in order) and `Claims` (a slot
  before the shared counter is settled or in the hands of just one worker, one beyond it is
  untouched). `Blame` says for whom a tag is excused.
- `EverySlotAnswered`, `NeighboursAreSpared`: `Slotted` and `Blame` at the reply. `Blame` excuses a
  tag of a retried image by a failed run just before it, and one of a future by an error in `met`;
  that none is met twice (`ErrorsInv`) needs no other part.
- `BudgetIsHeld`: it needs no history. What the checks let through is within the budget
  (`SpendingBounded`), and what is held is among what they let through (`WithinBudget`).
- `WorkersAreBounded`: `Crewed` has every extra worker hold a permit until it is gone, and a
  pipeline exactly while it needs one; `Counted` has permits and pipelines in the pools and
  in hands add up to what there was at the start.

Recursion and lists in `CropPoolProofs`, `PdfJobProofs` and `BatchProofs`. The provers cannot expand SelectSeq and its like, and
the library's induction theorems are out of their reach. The walks over the retry list, the
pages, the images and the budget are therefore recursive functions in the modules, as the
loops are in the code. `LeastNatural` (a set of naturals has a least member, from the
library's well-foundedness) gives induction as "no least counterexample" (`UpTo`);
`Recursion`, `WalkExists` and the like show that the function a definition names exists,
and `PickedFromList`, `SkippedHaveLines`, `UntouchedList`, `WithinBudget` what it returns.

`OcrPipelineProofs`, for any program of calls, any pages with any sizes, boxes and regions,
any size of a batch and any number of faults:

- `PipelineInvariant`: `IInv` has three parts, and each needs another. `MemoryOK`: a buffer
  that counts as large enough is there, and every copy queued fits its target and the
  staging buffer; it is kept because memory is freed only when no copy is queued
  (`GrowthWaits`). `PixelsOK` ties buffers to the worker's stage: the buffer in use holds
  its page, or the last copy queued is that page's and staging still holds it; a batch slot
  before the one in hand holds its page for good, since the copies still queued at a settle
  are all for the slot in hand; the layout reads the buffer it was enqueued with. `HostOK`
  follows the results: the pages of a call are those done, in hand and left, in order
  (`Placed`), what a stage has not reached is untouched (`Ahead`), and a modality is settled
  once its stage has run (`Settled`: an item or a future for each region, or a flag).
  `DeviceStep`, `PixelsStep` and `HostStep` take the actions one by one for each part.
- `PagesNeverMix`: recognition and the layout read the page of the result they fill
  (`BuffersRead`, `LayoutRead`), by `PixelsOK`.
- `UploadsAlwaysFit`: the first half of `MemoryOK`.
- `NothingLostSilently`: a reply is final when no future is left, so what is `Settled` then
  has an item for each region; `NoBlanks` turns "no blank item" into the count the run
  checks. `JoinedIs` keeps `Settled` through every join.

The first attempt at `UploadsAlwaysFit` failed and TLC then refuted the property for a
call of a small page between two of a large one: the model let the handler of detection go on
with its copy queued, where the code waits for the stream, and knew nothing of a copy that
fails with its page staged. The module has both now, and a copy that runs after its page
was replaced in staging leaves no page at all.

`DrainProofs`, for any number of requests, gRPC calls, pool threads and queue places, and
whichever handlers hang:

- `DrainTypes`: `inflight` stays a natural number because it counts the threads between
  the pop and the end of the guard (`Counted`), which is what makes it inductive.
- `FullDrainAnswersAll`: `Placed` says that a request in the pool is in the queue or with a
  running thread, once and not both. An idle pool then holds no request
  (`IdleMeansAnswered`), and as the loop is up until the drain thread has its verdict
  (`QuitAfterVerdict`), none was cut (`CutAfterQuit`). Later requests do not disturb the
  verdict, since `EarlyIsIn`: no request arrives twice.
- `PoolDropsNothing`: a thread leaves over an empty queue after `stop_` (`ExitedWhenEmpty`),
  and nothing is submitted once `stop_` is up because the loop has quit before
  (`StopRaised`, `MainAfterQuit`); this is the order of `main()`, not of the pool alone.
- `DrainSafe`: the three together, the `Safety` of the run `drain`.

`ServingProofs`, for any number of daemons, renders, deaths and failed forks:

- `RenderPoolKept`: no daemon process is orphaned or shared, and a render fails only by
  what happened while it held its daemon. The invariant `RpInv` says that the pipes of a
  slot are those of its child and two slots have no common child (`OwnChild`), that the
  processes not waited for are just the children of the slots (`Known`), that the renderer
  goes after its last render (`LastOut`), and that between `acquire_daemon` and the end of
  `send_cmd` a render holds its slot's mutex, so that nobody else changes the pipes it
  reads (`Holding`). A step leaves the processes alone or replaces one slot's child:
  `StaysKnown` and `ReplacedKnown` treat the two cases.

for any number of callers of the readiness probe and any length of passes:

- `VerdictsFresh`: an answer is the GPU's last word among the passes it could know of, and the
  last of these began less than a time to live before the call. `OneProber` (one thread is
  between lock and unlock) and `Times` (the stamp is not later than the start of the last pass
  stored, and neither goes back) cover a caller that reads the stamp and the flag on either side
  of a store. `Words` has the flag be the last word: a pass that was refused stores what the flag
  holds, as nobody else stores while it is made (`LastPass`).

and for any number of pipelines, clients and probes of the CPU server, and whichever models
load:

- `PipelinesKept`, `OffersAreServed`: start-up loads into the pipeline at the head of the
  queue and puts it back at the end, so after k rounds the last k of the queue have the
  stage's models (`Loading`), and after as many rounds as the pool has places all have, even
  if fewer pipelines were built. What a stage offers every pipeline then has (`Offered`), so
  it does not matter which one a request gets; `LentOnce` says that it gets it alone.

for any number of pages, any text layer, any layout, faults on any pages, every mode and
every combination of options:

- `BuildsAgreeOnEveryPdf`: the GPU and the CPU build answer alike where both serve the
  request, and text, layout and image of a page are in the frame the page states. A page is
  filled by a chain of updates of its slot, in a different order in each build. `SlotBefore`
  says which fields the slot has before a task takes it (by mode and text layer),
  `GeometricStores`, `StructureStores` and `OcrStores` what each kind of task changes,
  and `TasksAgree` goes through the options by which the two tasks branch. `TaskInFrame`
  is the second half: whatever sets a page's boxes rescales them, or sets its dpi as well.

for any server, any query, any image, size, region and document (`RequestTypeOK` and
`RequestsAssumption` give their types; `RequestInputs` and the latter have TLC see that what the
run enumerates is of these types):

- `TransportsGiveOneAnswer`: HTTP and gRPC refuse the same requests or run and say the same.
  Each handler is a list of checks; for each list, down to those it is put together from, a
  lemma gives exactly the codes it can hold and what each stands for (`OptionCodes`,
  `ParamCodes`, `HostCodes`, `JobCodes`, ...). Two handlers are then compared by these sets
  and not by their order: `FirstOfCodes` has an answer be one of the codes, and 200 mean that
  there are none. `PlainGate` says what is left of the gate for a query that gRPC can say too,
  `ImageAlike` compares one image by both transports, and `SameKeys` the two emitters.
- `NothingIsLost`: an answer has what was asked for and what was degraded. 200 means that no
  list refused, so every option that was asked for has its stage in the run
  (`StagesOfImage`), with the layout and the order it needs (`ClosureIs`); `InferKeysAre` and
  `PageKeysAre` say what the emitters write of the output of such a run, and `CompleteWhen` that
  this is everything owed. A parameter that its handler does not read is named as ignored, or
  the gate has refused it, unless the gate lets pass more than the handler reads, which is
  `/ocr/stream` alone (`Unsaid`). `OfferIsKept` goes the other way: under what `/capabilities`
  offers, each of the codes of `/ocr/pdf` is ruled out.

`ReadingProofs`, for any number of blocks, any interleaving and any stale load:

- `UnionFindExact`: after the merge kernel two blocks have the same root exactly if touching
  blocks join them. Links point to smaller blocks (`LinksDown`), and link only what
  touches (`OnlyTouching`). That no link is lost is the hard half: halving overwrites a
  link with a value that may be old and may so remove the link that a hook has just
  written. `HeldConnected` says that all values a label has held are connected by the links
  of smaller blocks alone, which such a store does not touch; `EdgesKept` then follows a
  thread from its two blocks to the hook that joins them.

for any batch size, any number of slots, any calls and any recorded graphs:

- `CropsKept`: every crop of a call that returns has the rows of its own pixels, once, or is
  counted as dropped. The device's buffers are single, so no invariant can say what they hold
  for a batch in general; `RecInv` says it only for the operation that is next in the stream
  (`HeadReady`). `InOrder` has each operation directly follow the one that prepares its
  buffer, so that after a step the new head finds what it needs; `LastQueued` says the same
  of the end of the stream, where the host adds the next one. `Staged` keeps a slot's
  transforms as they are until their copy has run: only a batch of the same slot writes them,
  and no slot is given out twice between two waits (`Batches`). `Answered`: the answer of a batch on record
  is in its slot, or still in the stream and the last for that slot, which matters because a call
  that threw may have left older answers to the same slot. `Behind` keeps such left-overs
  apart from what is staged later. `Emitted` follows what was decoded and what was dropped.
- `RecTypeCorrect`: the types, which are part of `RecInv`.

for any size of a bitmap, any foreground, any scores, any number of slots and numbers and
any expansion constants (`GridAssumption` only asks for natural numbers and for the grid of
blocks that the size gives):

- `BoxesOfEveryBitmap`: the labelling finds exactly the components of the bitmap, with their
  boxes, counts and scores, and each background pixel goes to the nearest of the growing
  components that reach it. `CclInv` has what is final after each kernel: during the merge
  the invariant of `UnionFindExact`; then `Linked` (flat links that no two touching blocks
  and no others share), `Numbered` (one number per root, and a pixel without one only when
  all are used), and `Gathered` (a box is that of its pixels in the thread blocks done).
  Four arguments carry it. `TouchingMeans`: the tests of the four backward neighbours join
  two blocks exactly when a pixel of one touches one of the other, also at an odd width.
  `ComponentLeast`: what the definition reaches pixel by pixel is the least set closed under
  touching, so a set of blocks closed under the links settles both halves
  (`LabelIsComponent`). `BoxOfBoth`: minima, maxima and sums of two disjoint sets put
  together in either way (slot first, or pixel by pixel) are those of the union, so neither
  the slots nor the order of thread blocks matters. `NearestIsSeed`: a nearest growing pixel
  has a background neighbour, since the pixel one step closer would be nearer, so boundary
  seeds suffice; and the packed key orders by distance first.

for any environment, pages, boxes, number of lanes and scores:

- `BuffersFit`: whatever integers the environment holds, a page's resized size and the
  canvas of its batch fit the side by which the detector sizes profile and buffers. It is
  the half of `PagesInPlace` about memory. `SettingsFit` bounds the cap after its rounding
  to steps of 32, `ResizeFits` each side of a page after its own rounding.
- `CropsKeepTheirWidth`: the width of a crop, clamped to its own input or to its bucket, is
  the width it has in the widest input, so no recogniser squeezes a crop that fits.
- `RegistersChangeNothing`: the argmax by lanes and the scalar loop find the same class, the
  first of the highest. Both are walks that keep the first best so far; by lanes each walks
  its own columns, and the reduction must prefer the lower index among equals, which
  `FirstIn` of a union says; the tail that fills no register comes last.

for any detections, regions, lines, titles, page sizes and score threshold (`StructureTypeOK`
gives their types, and `StructureInputs` has TLC see that what the run enumerates is of them):

- `RegionsRoutedForAll`: a line is in the mask only for a region around it that is planned for
  the table or formula recogniser, a trusted region loses its place only with a reason, and no
  two places are contested (`OneLoses`). What masks a line is the first region around its centre (`OwnerHasCentre`), by its
  destination after the tie-breakers. A region sure of its class has the destination of its
  class (`TrustedRoute`) unless it lost a comparison, and each comparison is lost to what the
  region encloses, which tables are spared, or to a rival of the same priority or a higher
  one (`LoserRanks`).
- `DroppedForAllBoxes`: of suppression, reconciliation and clamping. `kept` of `Unsuppressed`
  grows box by box (`UnsuppressedMeans`), so what it leaves out is alike to a member with a
  smaller index, whose score is no lower, and no two members are alike, as `Alike` is symmetric
  (`AlikeBothWays`). A box that the inner mode drops contains another, which by that is itself
  in one and so is kept (`InnerKept`). `OrderExists` shows that a list has an order by
  score, so the statement about every order is not about none.
- `LargerIsHigherForAll`: of two titles told apart by size the larger is never deeper. Nothing
  is needed of the centres but that they are means of positive numbers of heights, which a
  round keeps; so it holds for any number of rounds, whether they have settled or not. The
  centre nearest to a height rises with the height (`NearestRises`), and a level counts the
  centres above it.
- `RowsKeptForAll`: joining tables across pages keeps the rows of a document in order and
  leaves out a row only when one of the same texts and widths stays. All blocks are in one
  list; between the two tables of a join no block has rows (`JoinAcrossIs`), so the rows moved
  were next to the upper table's already, and what is left out is at the head of both
  (`JoinReduces`, `OwnRowsIs`). It is not the same rows that stay: `count_header_rows` compares
  texts and colspans, so a repeated header whose rowspan differs is left out too, and a
  statement that the set of rows is the same is false. `Doc` has what makes one pass over the
  groups enough: a block that has joined another is empty and behind it, and its host is
  either joined itself or has rows (`FollowedAll`).

Only model-checked: everything under fairness, as liveness and ENABLED are out of the
prover's reach, the refinement of `Resolver!LiveSpec` with it; and, but for the seven theorems
about operators above, the pure algorithms of `MCReading` and `MCStructure` (`PagesInPlace` but
for its half about memory, `LinesDecoded` but for its widths and its argmax,
`TablesHoldTheirLines`, `LinesPlaced`, `BoxesPlaced`, `TextWritten`). What most of
these compute for every input needs induction over trees and nested lists, and several of
their modules use RECURSIVE operators.

## 6. Not modelled

Nothing, as there is no state or order in them that a model would show wrong:

- the tensor code of every recogniser and of the classifiers (`classification/`, script
  and language tables), resampling and reduction kernels, engine bindings and the
  TensorRT cache: numeric, or libraries; `OcrPipeline` has the errors an engine reports;
- image decoders and PDFium's text extraction: libraries;
- formula tokenizer and clean-up, `sanitize_table_html`, the escaping in Markdown, JSON and
  protobuf writers: texts character by character;
- configuration, environment, flags, metrics, logging: one value at a time;
- the VLM client's URL handling and its blocking calls; its asynchronous half is `CropPool`;
- `docassembly/repetition_guard.cpp`: no server calls it.

In part, with what is left out:

- GPU entries: construction of the pool at start-up; bootstrap: model paths, memory tuning;
- the CPU job: it reads its pages one after the other in the renderer's callback; `PageJob` has
  what it makes of each, not the streaming of the renderer, which it shares with `PdfJob`;
- Markdown: the scanners of LaTeX (`markdown_latex.cpp`), taken by their result;
- text detection: rotated boxes and the network; layout detection: the tensors;
- tables: the detector of single cells and the structure dictionary's text;
- gRPC: construction of the server and its health service, but for what `Readiness` leaves
  it to read; backend routing: the parsing of its configuration.

What could be added: the thread of the dispatcher on which each future of a batch RPC runs, so
that the error one of them meets is tied to the run that left it.
