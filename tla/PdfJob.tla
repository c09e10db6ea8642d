---- MODULE PdfJob ----
(***************************************************************************)
(* One PDF job of the GPU server's /ocr/stream: the renderer daemon writes *)
(* page files, inotify events hand them to run_pdf_job(), which submits a  *)
(* task per page to the dispatcher and joins the tasks under one deadline, *)
(* while the tasks write the NDJSON lines the client reads.                *)
(*                                                                         *)
(* The daemon and the writers it forks are external: they are modelled     *)
(* from what the renderer relies on.  A page task is abstracted to what    *)
(* the dispatcher promises (module Dispatcher): it is refused at submit,   *)
(* or runs at most once, at any later time, perhaps never.                 *)
(***************************************************************************)
EXTENDS Integers, Sequences, FiniteSets, SequencesExt

CONSTANTS
  NumPages,    \* the page count of the document
  HasTimeout   \* request_timeout_ms > 0

ASSUME PdfJobAssumption ==
  /\ NumPages \in Nat \ {0}
  /\ HasTimeout \in BOOLEAN

Pages == 0 .. NumPages - 1
Files == 1 .. NumPages      \* p_0001.ppm is page 0

VARIABLES
  skipped,    \* pages prepopulate_pages() leaves without a render
  attempt,    \* which of the two tries of send_cmd() is running
  unwritten,  \* the files no writer of this try has opened yet
  file,       \* the state of each page file
  died,       \* history: the files whose writer died
  reply,      \* render_resp or render_error, once render_done is up
  events,     \* IN_CLOSE_WRITE events nobody has read yet
  delivered,  \* delivered[], page indices
  pc,         \* the position of the thread that runs the job
  task,       \* the task of each page and its future
  futures,    \* page_futures
  next,       \* the position in page_futures of the join
  dropped,    \* dropped_pages
  stored,     \* the pages whose slot is final
  decodeFailures, pageFailures,
  status,     \* PdfJobStatus, once run_pdf_job() has returned
  lines,      \* history: what went out on the wire
  stream      \* NdjsonStream: "open", "lost" (a send has failed), "closed"

render  == <<skipped, attempt, unwritten, file, died, reply>>
feed    == <<events, delivered>>
join    == <<futures, next, dropped>>
counts  == <<decodeFailures, pageFailures>>
wire    == <<lines, stream>>
vars == <<render, feed, pc, task, join, stored, counts, status, wire>>

Statuses == {"Ok", "RenderFailed", "TimedOut", "Dropped", "DecodeFailed", "PageFailed"}

Init ==
  /\ skipped \in SUBSET Pages
  /\ attempt = 1
  /\ unwritten = {}
  /\ file = [n \in Files |-> "absent"]
  /\ died = {}
  /\ reply = "none"
  /\ events = <<>>
  /\ delivered = {}
  /\ pc = "start"
  /\ task = [p \in Pages |-> "none"]
  /\ futures = <<>>
  /\ next = 1
  /\ dropped = {}
  /\ stored = {}
  /\ decodeFailures = 0
  /\ pageFailures = 0
  /\ status = "none"
  /\ lines = <<>>
  /\ stream = "open"

----------------------------------------------------------------------------
(* The stream.                                                             *)

Line(event, n) == [event |-> event, n |-> n]

\* send_line(), once per line: the client reads all of them, or it is gone at
\* one of them and the stream is closed to every later line.
Send(s) ==
  \/ /\ stream = "open"
     /\ lines' = lines \o s
     /\ UNCHANGED stream
  \/ /\ stream = "open"
     /\ \E k \in 1 .. Len(s) : lines' = lines \o SubSeq(s, 1, k - 1)
     /\ stream' = "lost"
  \/ /\ stream # "open"
     /\ UNCHANGED wire

----------------------------------------------------------------------------
(* The daemon and its writers.                                             *)

Rendering == UNCHANGED <<skipped, delivered, pc, task, join, stored, counts, status, wire>>

\* fopen() truncates what an earlier try has left.
WriteStarts(n) ==
  /\ n \in unwritten
  /\ unwritten' = unwritten \ {n}
  /\ file' = [file EXCEPT ![n] = "partial"]
  /\ UNCHANGED <<attempt, died, reply, events>> /\ Rendering

WriteEnds(n) ==
  /\ file[n] = "partial"
  /\ file' = [file EXCEPT ![n] = "whole"]
  /\ events' = Append(events, n)
  /\ UNCHANGED <<attempt, unwritten, died, reply>> /\ Rendering

\* A writer dies before its file exists, or over it: the kernel closes it.
WriterDies(n) ==
  /\ \/ /\ n \in unwritten
        /\ unwritten' = unwritten \ {n}
        /\ UNCHANGED <<file, events>>
     \/ /\ file[n] = "partial"
        /\ file' = [file EXCEPT ![n] = "torn"]
        /\ events' = Append(events, n)
        /\ UNCHANGED unwritten
  /\ died' = died \cup {n}
  /\ UNCHANGED <<attempt, reply>> /\ Rendering

\* "OK N" may come before the writers are done.
ReplyOk ==
  /\ pc = "render" /\ reply = "none"
  /\ reply' = "ok"
  /\ UNCHANGED <<attempt, unwritten, file, died, events>> /\ Rendering

\* An error reply, or a daemon that cannot be respawned or fails again.
ReplyFails ==
  /\ pc = "render" /\ reply = "none"
  /\ reply' = "failed"
  /\ UNCHANGED <<attempt, unwritten, file, died, events>> /\ Rendering

\* The daemon dies or misses the reply timeout: a fresh one gets the same
\* command once more.
Respawn ==
  /\ pc = "render" /\ reply = "none" /\ attempt = 1
  /\ attempt' = 2
  /\ unwritten' = Files
  /\ UNCHANGED <<file, died, reply, events>> /\ Rendering

Daemon == ReplyOk \/ ReplyFails \/ Respawn

----------------------------------------------------------------------------
(* run_pdf_job() and render_streamed().                                    *)

\* A line per page without a render, by a loop over the pages.
SkippedLines ==
  LET upTo[k \in 0 .. NumPages] ==
        IF k = 0 THEN <<>>
        ELSE IF k - 1 \in skipped THEN Append(upTo[k - 1], Line("page", k - 1)) ELSE upTo[k - 1]
  IN upTo[NumPages]

\* The pages that need no pixels are final: they go out before the render.
Start ==
  /\ pc = "start"
  /\ stored' = skipped
  /\ Send(SkippedLines)
  /\ \/ /\ skipped = Pages
        /\ pc' = "join"
        /\ UNCHANGED unwritten
     \/ /\ skipped # Pages
        /\ pc' = "render"
        /\ unwritten' = Files
  /\ UNCHANGED <<skipped, attempt, file, died, reply, feed, task, join, counts, status>>

\* The work pool is full, or the job throws: an error line and no "end".
Refuse ==
  /\ pc = "start"
  /\ pc' = "finish"
  /\ Send(<<Line("error", 0)>>)
  /\ UNCHANGED <<render, feed, task, join, stored, counts, status>>

\* on_page(): nothing for a page without a render, a task for another one,
\* unless the dispatcher's queue is full.
OnPage(p) ==
  \/ /\ p \in skipped
     /\ UNCHANGED <<task, futures, dropped>>
  \/ /\ p \notin skipped
     /\ task' = [task EXCEPT ![p] = "queued"]
     /\ futures' = Append(futures, p)
     /\ UNCHANGED dropped
  \/ /\ p \notin skipped
     /\ dropped' = dropped \cup {p}
     /\ UNCHANGED <<task, futures>>

PageOf(n) == n - 1

Marked(p) == delivered \cup {p}

\* process_events(): one event, in the poll loop or in the drain after it.
ReadEvent ==
  /\ pc \in {"render", "drain"} /\ events # <<>>
  /\ LET p == PageOf(Head(events)) IN
       \/ /\ p \in delivered
          /\ UNCHANGED <<delivered, task, futures, dropped>>
       \/ /\ p \notin delivered
          /\ delivered' = Marked(p)
          /\ OnPage(p)
  /\ events' = Tail(events)
  /\ UNCHANGED <<render, pc, next, stored, counts, status, wire>>

\* render_done is up: the render thread is joined.
PollEnds ==
  /\ pc = "render" /\ reply # "none"
  /\ pc' = "drain"
  /\ UNCHANGED <<render, feed, task, join, stored, counts, status, wire>>

\* remove_all() of the scratch directory: no file in it, and none to come.
Removed ==
  /\ file' = [n \in Files |-> "absent"]
  /\ unwritten' = {}

\* A failed render throws: the guards remove the scratch directory at once
\* and the tasks already submitted are abandoned.
Drained ==
  /\ pc = "drain" /\ events = <<>>
  /\ \/ /\ reply = "ok"
        /\ pc' = "net"
        /\ UNCHANGED <<status, file, unwritten>>
     \/ /\ reply = "failed"
        /\ pc' = "report"
        /\ status' = "RenderFailed"
        /\ Removed
  /\ UNCHANGED <<skipped, attempt, died, reply, feed, task, join, stored, counts, wire>>

IsComplete(n) == file[n] = "whole"

\* The safety net looks for the pages no event has delivered.
NetDelivers(n) ==
  /\ pc = "net" /\ PageOf(n) \notin delivered /\ IsComplete(n)
  /\ delivered' = delivered \cup {PageOf(n)}
  /\ OnPage(PageOf(n))
  /\ UNCHANGED <<render, events, pc, next, stored, counts, status, wire>>

\* Mutant: the net waits for a missing page for ever.
NoCap == FALSE
CapReached == TRUE

\* All pages are there, or the 30 s are over.
NetEnds ==
  /\ pc = "net" /\ (Cardinality(delivered) = NumPages \/ CapReached)
  /\ pc' = "join"
  /\ UNCHANGED <<render, feed, task, join, stored, counts, status, wire>>

JoinGoesOn(how) == next + 1

Counted(how) == IF how = "threw" THEN pageFailures + 1 ELSE pageFailures

Join ==
  /\ pc = "join" /\ next <= Len(futures)
  /\ LET how == task[futures[next]] IN
       /\ how \in {"done", "threw"}
       /\ next' = JoinGoesOn(how)
       /\ pageFailures' = Counted(how)
  /\ UNCHANGED <<render, feed, pc, task, futures, dropped, stored, decodeFailures,
                 status, wire>>

\* The job's deadline passes on a task that is not done.
JoinTimesOut ==
  /\ pc = "join" /\ next <= Len(futures) /\ HasTimeout
  /\ task[futures[next]] \in {"queued", "running"}
  /\ pc' = "report"
  /\ status' = "TimedOut"
  /\ UNCHANGED <<render, feed, task, join, stored, counts, wire>>

\* The verdict, by priority, over the joined tasks.
Verdict ==
  /\ pc = "join" /\ next > Len(futures)
  /\ status' = CASE dropped # {}       -> "Dropped"
                 [] decodeFailures > 0 -> "DecodeFailed"
                 [] pageFailures > 0   -> "PageFailed"
                 [] OTHER              -> "Ok"
  /\ pc' = "report"
  /\ UNCHANGED <<render, feed, task, join, stored, counts, wire>>

\* The error line, the "end" line and the close are three sections of the
\* stream's lock.
ReportError ==
  /\ pc = "report"
  /\ pc' = "end"
  /\ Send(IF status = "Ok" THEN <<>> ELSE <<Line("error", 0)>>)
  /\ UNCHANGED <<render, feed, task, join, stored, counts, status>>

SendEnd ==
  /\ pc = "end"
  /\ pc' = "finish"
  /\ Send(<<Line("end", CASE status = "DecodeFailed" -> decodeFailures
                          [] status = "PageFailed"   -> pageFailures
                          [] OTHER                   -> 0)>>)
  /\ UNCHANGED <<render, feed, task, join, stored, counts, status>>

Finish ==
  /\ pc = "finish"
  /\ pc' = "ended"
  /\ stream' = "closed"
  /\ UNCHANGED <<render, feed, task, join, stored, counts, status, lines>>

Job ==
  \/ Start \/ Refuse \/ ReadEvent \/ PollEnds \/ Drained \/ NetEnds
  \/ \E n \in Files : NetDelivers(n)
  \/ Join \/ JoinTimesOut \/ Verdict \/ ReportError \/ SendEnd \/ Finish

----------------------------------------------------------------------------
(* The page tasks on the dispatcher's workers, and the scratch directory.  *)

\* decode_ppm(): a whole file is mapped and unlinked; any other one is a
\* decode failure, after which it may be left behind or unlinked too.
TaskDecodes(p) ==
  /\ task[p] = "queued"
  /\ \/ /\ file[p + 1] = "whole"
        /\ file' = [file EXCEPT ![p + 1] = "absent"]
        /\ task' = [task EXCEPT ![p] = "running"]
        /\ UNCHANGED <<decodeFailures, wire>>
     \/ /\ file[p + 1] # "whole"
        /\ file' \in {file, [file EXCEPT ![p + 1] = "absent"]}
        /\ task' = [task EXCEPT ![p] = "done"]
        /\ decodeFailures' = decodeFailures + 1
        /\ Send(<<Line("page_error", p)>>)
  /\ UNCHANGED <<skipped, attempt, unwritten, died, reply, feed, pc, join, stored,
                 pageFailures, status>>

\* The page is stored and its line sent, or its inference throws.
TaskEnds(p) ==
  /\ task[p] = "running"
  /\ task' = [task EXCEPT ![p] = "done"]
  /\ \/ /\ stored' = stored \cup {p}
        /\ Send(<<Line("page", p)>>)
        /\ UNCHANGED pageFailures
     \/ /\ pageFailures' = pageFailures + 1
        /\ Send(<<Line("page_error", p)>>)
        /\ UNCHANGED stored
  /\ UNCHANGED <<render, feed, pc, join, decodeFailures, status>>

\* An exception outside the handler (the bitmap of the page cannot be
\* allocated, the dispatcher drops the task): only the future carries it.
TaskThrows(p) ==
  /\ task[p] \in {"queued", "running"}
  /\ task' = [task EXCEPT ![p] = "threw"]
  /\ UNCHANGED <<render, feed, pc, join, stored, counts, status, wire>>

\* Mutant: the tasks do not own the StreamHandle.
JobIsOwner == status # "none"
NoOwnerLeft == status # "none" /\ \A p \in Pages : task[p] \notin {"queued", "running"}

\* The last owner of the StreamHandle drops it.
Cleanup ==
  /\ NoOwnerLeft /\ reply = "ok"
  /\ Removed
  /\ UNCHANGED <<skipped, attempt, died, reply, feed, pc, task, join, stored, counts, status, wire>>

\* The stream is closed and nothing has to happen any more.
Over == pc = "ended" /\ UNCHANGED vars

Next ==
  \/ Job
  \/ Daemon
  \/ \E n \in Files : WriteStarts(n) \/ WriteEnds(n) \/ WriterDies(n)
  \/ \E p \in Pages : TaskDecodes(p) \/ TaskEnds(p) \/ TaskThrows(p)
  \/ Cleanup
  \/ Over

Spec == Init /\ [][Next]_vars

\* The thread of the job runs, its waits are capped (the reply timeout, the
\* 30 s of the net, the deadline of the join); no writer and no task has to
\* do anything.
FairSpec == Spec /\ WF_vars(Job) /\ WF_vars(Daemon)

----------------------------------------------------------------------------
(* Properties.                                                             *)

\* The shape of the state.
TypeOK ==
  /\ skipped \subseteq Pages
  /\ attempt \in 1 .. 2
  /\ unwritten \subseteq Files
  /\ file \in [Files -> {"absent", "partial", "whole", "torn"}]
  /\ died \subseteq Files
  /\ reply \in {"none", "ok", "failed"}
  /\ events \in Seq(Files)
  /\ delivered \subseteq Pages
  /\ pc \in {"start", "render", "drain", "net", "join", "report", "end", "finish", "ended"}
  /\ task \in [Pages -> {"none", "queued", "running", "done", "threw"}]
  /\ futures \in Seq(Pages)
  /\ next \in Nat
  /\ dropped \subseteq Pages
  /\ stored \subseteq Pages
  /\ decodeFailures \in Nat
  /\ pageFailures \in Nat
  /\ status \in Statuses \cup {"none"}
  /\ lines \in Seq([event : {"page", "page_error", "error", "end"}, n : Nat])
  /\ stream \in {"open", "lost", "closed"}

LinesOf(p) == {i \in DOMAIN lines : lines[i].event \in {"page", "page_error"} /\ lines[i].n = p}
HasLine(event, n) == \E i \in DOMAIN lines : lines[i] = Line(event, n)

\* The wire shows a page at most once, as a page or as an error, whatever the
\* order of inotify events, retried renders, net scans and late tasks.
OneLinePerPage == \A p \in Pages : Cardinality(LinesOf(p)) <= 1

\* A job that reports Ok has the final slot of every page it was handed: a
\* dropped, undecodable, failed or throwing page never ends as a blank one.
OkMeansStored == status = "Ok" => delivered \cup skipped \subseteq stored

\* A verdict drawn from the page results is drawn after the last task: only a
\* timed-out or failed render leaves tasks behind that still touch the sink.
VerdictAfterTasks ==
  status \in Statuses \ {"RenderFailed", "TimedOut"} =>
    \A p \in Pages : task[p] \in {"none", "done", "threw"}

\* A client that is still there when an Ok job closes the stream has the line
\* of every page the job was handed, no error line, and "end" as the last line.
OkStreamComplete ==
  pc = "finish" /\ status = "Ok" /\ stream = "open" =>
    /\ \A p \in delivered \cup skipped : HasLine("page", p)
    /\ ~HasLine("error", 0)
    /\ Last(lines) = Line("end", 0)

\* A page fails to decode only after a writer died, the render was retried or
\* it failed: neither the safety net nor the removal of the scratch directory
\* takes a file away from a task, abandoned tasks included.
DecodeFailuresHaveCause ==
  decodeFailures > 0 => died # {} \/ attempt = 2 \/ reply = "failed"

\* What holds of the pages, their tasks and the wire in every state.
Safety ==
  /\ TypeOK
  /\ OneLinePerPage
  /\ OkMeansStored
  /\ VerdictAfterTasks
  /\ OkStreamComplete
  /\ DecodeFailuresHaveCause

\* With a request timeout the stream is closed in the end, even if a writer
\* dies silently or a worker is wedged on a page.
JobEnds == HasTimeout => <>(pc = "ended")

\* "so nothing slips through as a silently-empty page in a 200": an Ok job
\* has every page of the document.
NoSilentEmptyPage == status = "Ok" => stored = Pages

====
