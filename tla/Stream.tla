------------------------------- MODULE Stream -------------------------------
(***************************************************************************)
(* A streamed query, end to end (api/mod.rs): the server task that runs the *)
(* query and forwards its progress into a bounded channel, the event stream *)
(* that drains it, and the page of the visualizer that shows it.  The query *)
(* itself is Progress.tla, whose variables this module shares; Rlm.tla      *)
(* implements that module.                                                  *)
(*                                                                          *)
(* A task whose page has gone keeps running without an observer; it is left *)
(* out from the moment the page starts the next one.                        *)
(***************************************************************************)
EXTENDS Progress, SequencesExt

CONSTANTS
  Capacity,  \* of the channel (100 in stream_query)
  MaxRuns,   \* bound: clicks on the run button
  Examples,  \* examples of the page: [name, from], from \in Origins
  Nothing    \* no text, no path

Origins == {"file", "url", "inline"}

ASSUME CapacityAssumption == Capacity \in Nat \ {0}
ASSUME MaxRunsAssumption == MaxRuns \in Nat
ASSUME ExamplesAssumption == \A e \in Examples : e.from \in Origins

VARIABLES
  task,      \* the server task: idle, connecting, running, last, done
  emitting,  \* events the progress callback has still to offer
  channel,   \* the mpsc channel
  open,      \* the page reads the stream
  dropped,   \* history: the channel was full for some event of this run
  run,       \* history: runs started
  page,      \* the state of the script
  fetching   \* examples whose text is being fetched

vars == <<progressVars, task, emitting, channel, open, dropped, run, page, fetching>>

NoData == [run |-> 0, success |-> FALSE, iterations |-> 0, history |-> <<>>]

Init ==
  /\ ProgressInit
  /\ task = "idle" /\ emitting = <<>> /\ channel = <<>>
  /\ open = FALSE /\ dropped = FALSE /\ run = 0
  /\ page = [running |-> FALSE, timer |-> FALSE, status |-> "ready",
             history |-> <<>>, data |-> NoData,
             example |-> Nothing, path |-> Nothing, text |-> Nothing]
  /\ fetching = {}

-----------------------------------------------------------------------------
(* stream_query: the server.                                                *)

Accept ==
  /\ task = "connecting"
  /\ \/ task' = "running"
     \/ task' = "last"     \* resolve_context fails: the error is all that is sent
  /\ UNCHANGED <<progressVars, emitting, channel, open, dropped, run, page, fetching>>

\* The progress callback forwards everything but the query's own "complete".
Forward(kinds, kind) == IF kind = "complete" THEN kinds ELSE Append(kinds, kind)
Forwarded(events) ==
  LET kinds == FoldLeft(Forward, <<>>, events)
  IN [i \in DOMAIN kinds |-> [kind |-> kinds[i], step |-> step']]

Produce ==
  /\ task = "running" /\ emitting = <<>>
  /\ ProgressNext
  /\ emitting' = Forwarded(burst')
  /\ task' = CASE at' # "closed"     -> "running"
               [] outcome' = "panic" -> "done"
               [] OTHER              -> "last"
  /\ UNCHANGED <<channel, open, dropped, run, page, fetching>>

\* Mutant: an off-by-one in the room that is left.
TrySend_Over ==
  /\ emitting # <<>>
  /\ emitting' = Tail(emitting)
  /\ IF open /\ Len(channel) <= Capacity
     THEN channel' = Append(channel, Head(emitting)) /\ UNCHANGED dropped
     ELSE dropped' = TRUE /\ UNCHANGED channel
  /\ UNCHANGED <<progressVars, task, open, run, page, fetching>>

\* try_send: an event that finds the channel full, or closed, is dropped.
TrySend ==
  /\ emitting # <<>>
  /\ emitting' = Tail(emitting)
  /\ IF open /\ Len(channel) < Capacity
     THEN channel' = Append(channel, Head(emitting)) /\ UNCHANGED dropped
     ELSE dropped' = TRUE /\ UNCHANGED channel
  /\ UNCHANGED <<progressVars, task, open, run, page, fetching>>

\* The answer, or the error, that ends the stream.
Terminal ==
  IF outcome \in {"answered", "exhausted"}
  THEN [kind |-> "done", success |-> outcome = "answered",
        iterations |-> IF step = 0 THEN 1 ELSE step]
  ELSE [kind |-> "error"]

\* Mutant: the last event is offered like the others.
SendLast_Try ==
  /\ task = "last" /\ emitting = <<>>
  /\ task' = "done"
  /\ channel' = IF open /\ Len(channel) < Capacity THEN Append(channel, Terminal) ELSE channel
  /\ UNCHANGED <<progressVars, emitting, open, dropped, run, page, fetching>>

\* Mutant: the last event waits for a page that has gone.
SendLast_Waits ==
  /\ task = "last" /\ emitting = <<>>
  /\ open /\ Len(channel) < Capacity
  /\ task' = "done"
  /\ channel' = Append(channel, Terminal)
  /\ UNCHANGED <<progressVars, emitting, open, dropped, run, page, fetching>>

\* send().await: waits for room, unless the page has gone.
SendLast ==
  /\ task = "last" /\ emitting = <<>>
  /\ open => Len(channel) < Capacity
  /\ task' = "done"
  /\ channel' = IF open THEN Append(channel, Terminal) ELSE channel
  /\ UNCHANGED <<progressVars, emitting, open, dropped, run, page, fetching>>

-----------------------------------------------------------------------------
(* The page: runQuery and handleStreamEvent.                                *)

\* What runQuery asks about: the file on the server when a path is set, else
\* the text in the page.  It need not be the selected example: a text that is
\* fetched may arrive after another selection (README, section 7).
Request == IF page.path # Nothing THEN page.path ELSE page.text

\* Mutant: the history of the last run is not cleared.
Click_KeepsHistory ==
  /\ ~page.running /\ run < MaxRuns
  /\ run' = run + 1
  /\ page' = [page EXCEPT !.running = TRUE, !.timer = FALSE, !.status = "connecting",
                          !.data = NoData]
  /\ at' = "start" /\ step' = 0 /\ burst' = <<>> /\ outcome' = "none"
  /\ task' = "connecting" /\ emitting' = <<>> /\ channel' = <<>>
  /\ open' = TRUE /\ dropped' = FALSE
  /\ UNCHANGED fetching

\* runQuery.  clearProgress stops the wait timer.
Click ==
  /\ ~page.running /\ run < MaxRuns
  /\ run' = run + 1
  /\ page' = [page EXCEPT !.running = TRUE, !.timer = FALSE, !.status = "connecting",
                          !.history = <<>>, !.data = NoData]
  /\ at' = "start" /\ step' = 0 /\ burst' = <<>> /\ outcome' = "none"
  /\ task' = "connecting" /\ emitting' = <<>> /\ channel' = <<>>
  /\ open' = TRUE /\ dropped' = FALSE
  /\ UNCHANGED fetching

\* What one event does to the page.
Shown(p, event) ==
  CASE event.kind = "llm_start" -> [p EXCEPT !.timer = TRUE]
    [] event.kind = "llm_complete" -> [p EXCEPT !.timer = FALSE, !.status = "processing"]
    [] event.kind = "iteration_complete" -> [p EXCEPT !.history = Append(@, event.step)]
    [] event.kind = "done" ->
         [p EXCEPT !.data = [run |-> run, success |-> event.success,
                             iterations |-> event.iterations, history |-> p.history]]
    [] OTHER -> p

Deliver ==
  /\ open /\ channel # <<>>
  /\ page' = Shown(page, Head(channel))
  /\ channel' = Tail(channel)
  /\ UNCHANGED <<progressVars, task, emitting, open, dropped, run, fetching>>

\* Mutant: the button comes back only at the end of the try block.
Finished_NoFinally(status) ==
  [page EXCEPT !.running = (status = "failed"), !.status = status]

Finished(status) == [page EXCEPT !.running = FALSE, !.status = status]

\* The stream closes: whatever it brought, the page says that it is complete.
StreamEnds ==
  /\ open /\ task = "done" /\ emitting = <<>> /\ channel = <<>>
  /\ open' = FALSE
  /\ page' = Finished("complete")
  /\ UNCHANGED <<progressVars, task, emitting, channel, dropped, run, fetching>>

\* The request is refused, or the connection breaks: the events in flight are
\* lost, the server task goes on.
Disconnect ==
  /\ open
  /\ open' = FALSE
  /\ channel' = <<>>
  /\ page' = Finished("failed")
  /\ task' = IF task = "connecting" THEN "done" ELSE task
  /\ UNCHANGED <<progressVars, emitting, dropped, run, fetching>>

\* The wait timer writes the status once a second.
Tick ==
  /\ page.timer /\ page.status # "waiting"
  /\ page' = [page EXCEPT !.status = "waiting"]
  /\ UNCHANGED <<progressVars, task, emitting, channel, open, dropped, run, fetching>>

-----------------------------------------------------------------------------
(* loadExample: the context of the next query.                              *)

Keep == UNCHANGED <<progressVars, task, emitting, channel, open, dropped, run>>

Select(e) ==
  /\ page.example # e
  /\ page' = [page EXCEPT !.example = e,
                !.path = IF e.from = "file" THEN e ELSE Nothing,
                !.text = IF e.from = "inline" THEN e ELSE Nothing]
  /\ fetching' = IF e.from = "url" THEN fetching \union {e} ELSE fetching
  /\ Keep

\* The text arrives, or an error in its place, whatever is selected by then.
Fetched(e) ==
  /\ e \in fetching
  /\ fetching' = fetching \ {e}
  /\ \E text \in {e, Nothing} : page' = [page EXCEPT !.text = text]
  /\ Keep

-----------------------------------------------------------------------------

Server == Accept \/ Produce \/ TrySend \/ SendLast
Reader == Deliver \/ StreamEnds
User == Click \/ \E e \in Examples : Select(e)

Next == Server \/ Reader \/ User \/ Disconnect \/ Tick \/ \E e \in Examples : Fetched(e)

\* The runtime polls the task, the browser its stream, and a call of a model
\* ends.  Nothing makes a batch of commands end: it may wait for a native program.
Polled == Accept \/ (at # "exec" /\ Produce) \/ TrySend \/ SendLast
Spec == Init /\ [][Next]_vars /\ WF_vars(Polled) /\ WF_vars(Reader)

-----------------------------------------------------------------------------
(* Properties.                                                              *)

EventType == [kind : EventKinds \ {"complete"}, step : Nat]

\* The variables have their types.
TypeOK ==
  /\ at \in Places /\ step \in 0..MaxIterations /\ outcome \in Outcomes
  /\ task \in {"idle", "connecting", "running", "last", "done"}
  /\ emitting \in Seq(EventType)
  /\ Len(channel) <= Capacity
  /\ run \in 0..MaxRuns /\ open \in BOOLEAN /\ dropped \in BOOLEAN
  /\ open = page.running
  /\ fetching \subseteq Examples

\* A query that ends with an answer, or without one after all its iterations,
\* is shown as that, however many events a full channel has dropped: a stream
\* that ends has brought the result.
ResultShown ==
  (page.status = "complete" /\ ~page.running /\ outcome \in {"answered", "exhausted"}
   /\ run > 0 /\ at = "closed") =>
    /\ page.data.run = run
    /\ page.data.success = (outcome = "answered")

\* The steps on the page are in order, none twice; they are all the iterations
\* the result counts when the channel dropped nothing.  (A query answered
\* without the loop reports one iteration and sends none.)
HistoryShown ==
  /\ \A i, j \in DOMAIN page.history : i < j => page.history[i] < page.history[j]
  /\ (page.data.run = run /\ run > 0 /\ ~dropped /\ step > 0) =>
       page.data.history = [i \in 1..page.data.iterations |-> i]

\* The run button comes back, unless the query stays in one batch for ever
\* (runQuery's finally; a batch may wait for a native program).
RunEnds == []<>(~page.running) \/ <>[](at = "exec")

\* The server task that holds a result does not wait for ever, also when the
\* page has left and nobody drains the channel: it is done, or the page has
\* started the next run, from when this module follows that one's task.
TaskEnds == (task = "last") ~> (task # "last")

=============================================================================
