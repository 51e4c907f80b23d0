---------------------------- MODULE CaptureStream ----------------------------
(***************************************************************************)
(* What Codex says, from the worker to the screen of a browser.            *)
(*                                                                         *)
(*   worker --notifications--> actor --events--> EventJournal              *)
(*                               |                    |                    *)
(*                               +---- capture ---> stream --frames-->     *)
(*                                        |                        browser *)
(*                                        +------- refresh ------------->  *)
(*                                                                         *)
(* An event says only that something changed: the stream waits for one and *)
(* then reads a capture of the actor, and its frame carries the number the *)
(* journal had when the wait ended.  The browser keeps that number as its  *)
(* cursor and asks for a capture of its own now and then.  A session in a  *)
(* terminal has no events: its stream looks at the terminal every second.  *)
(*                                                                         *)
(* One session with one turn of one answer, whose text is the sequence of  *)
(* its deltas; one browser.  The Owner publishes nothing that the journal  *)
(* skips, and one delta that comes alone is bigger than the other events.  *)
(***************************************************************************)
EXTENDS EventJournal

CONSTANTS
    MaxText,        \* bound: deltas of the answer
    MaxSeen,        \* bound: deltas of an answer that a browser watches
    MaxLag,         \* bound: notifications that wait for the actor
    MaxFaults       \* bound: lost links, restarts, ended streams, failed refreshes, hidings

(* Sizes of events: a delta that comes alone has 2, any other event 1. *)
ASSUME SizesOfEvents == {1, 2} \subseteq Sizes

VARIABLES
    backend,        \* "web" (an App Server session) or "terminal"
    watched,        \* there is a browser; else the link is what may fail
    worker,         \* the turn as Codex has it
    link,           \* of the Owner to the worker: "down", "joining" or "up"
    answer,         \* the answer to thread/read that is on its way, or NoAnswer
    queue,          \* notifications the actor has not been told yet
    actor,          \* WebSessionActor
    batch,          \* pending_delta_events: a delta waits to be published
    stream,         \* the stream the Owner serves, or NoStream
    wire,           \* frames on their way to the browser
    browser,        \* the capture controller
    refresh,        \* the refresh in flight, or NoRefresh
    faults,
    said,           \* history: the actor's revision at each event of this epoch
    late            \* history: an old thread/read was applied over the end of the answer

sources == <<worker, link, answer, queue>>
projection == <<actor, batch, said, late>>
screen == <<browser, refresh>>
kept == <<backend, watched>>
journal == <<epoch, sequence, events, total_bytes, skipped>>
captureVars == <<journal, sources, projection, kept, stream, wire, screen, faults>>

Nothing == [text |-> <<>>, final |-> FALSE, running |-> FALSE, revision |-> 0]
NoAnswer == [phase |-> "none", text |-> <<>>]
NoStream == [step |-> "none"]
NoRefresh == [step |-> "none"]
NoPaint == [waits |-> FALSE]

CaptureInit ==
    /\ Init
    /\ backend \in {"web", "terminal"}
    /\ watched \in (IF backend = "web" THEN BOOLEAN ELSE {TRUE})
    /\ worker = [phase |-> "idle", text |-> <<>>]
    /\ link = (IF backend = "web" /\ watched THEN "up" ELSE "down")
    /\ answer = NoAnswer /\ queue = <<>>
    /\ actor = Nothing /\ batch = FALSE
    /\ stream = NoStream /\ wire = <<>>
    /\ browser = [run |-> IF watched THEN "starting" ELSE "hidden", last |-> NoCursor, shown |-> Nothing, paint |-> NoPaint]
    /\ refresh = NoRefresh
    /\ faults = 0 /\ said = <<>> /\ late = FALSE

Fault == faults < MaxFaults /\ faults' = faults + 1

-----------------------------------------------------------------------------
(* The worker: a turn, its answer delta by delta, the end of both.         *)
Phases == <<"idle", "turn", "answer", "answered", "over">>
Follows(phase) == Phases[(CHOOSE i \in DOMAIN Phases : Phases[i] = phase) + 1]
Notices == [turn |-> "turn/started", answer |-> "item/started",
            answered |-> "item/completed", over |-> "turn/completed"]

Notifies(kind, text) ==
    queue' = IF link = "down" \/ backend = "terminal" THEN queue
             ELSE Append(queue, [kind |-> kind, text |-> text])

(* Bounds: while a browser watches, the actor keeps up with Codex, and the *)
(* link is back before Codex goes on.                                      *)
WorkerMayStep ==
    IF watched THEN queue = <<>> /\ (backend = "web" => link = "up")
    ELSE Len(queue) < MaxLag

WorkerGoesOn ==
    /\ WorkerMayStep
    /\ worker.phase # "over"
    /\ worker.phase = "answer" => worker.text # <<>>
    /\ worker' = [worker EXCEPT !.phase = Follows(@)]
    /\ Notifies(Notices[worker'.phase], worker.text)
    /\ UNCHANGED <<journal, link, answer, projection, kept, stream, wire, screen, faults>>

WorkerSpeaks ==
    /\ WorkerMayStep
    /\ worker.phase = "answer"
    /\ Len(worker.text) < IF watched THEN MaxSeen ELSE MaxText
    /\ worker' = [worker EXCEPT !.text = Append(@, Len(@) + 1)]
    /\ Notifies("delta", <<Len(worker'.text)>>)
    /\ UNCHANGED <<journal, link, answer, projection, kept, stream, wire, screen, faults>>

-----------------------------------------------------------------------------
(* The actor.  Every event it returns counts in its revision.              *)
NothingPublished == UNCHANGED <<journal, said>>
Publishes(size) == Publish(size, TRUE) /\ said' = Append(said, actor'.revision)

Started(a) == [a EXCEPT !.running = TRUE, !.revision = @ + 1]

(* _item_started: the text is that of the item, whatever was known of it. *)
ItemStarted(a, text) == [a EXCEPT !.text = text, !.revision = @ + 1]

(* _agent_delta: a text that is final takes no delta. *)
Delta(a, text) ==
    IF a.final THEN a ELSE [a EXCEPT !.text = @ \o text, !.revision = @ + 1]

(* Mutant: what is final already is left alone. *)
CompletedOnce(a, text) ==
    IF a.final THEN a ELSE [a EXCEPT !.text = text, !.final = TRUE, !.revision = @ + 1]

(* _item_completed: an event only if something changed. *)
Completed(a, text) ==
    IF a.final /\ a.text = text THEN a
    ELSE [a EXCEPT !.text = text, !.final = TRUE, !.revision = @ + 1]

TurnCompleted(a) == [a EXCEPT !.running = FALSE, !.revision = @ + 1]

(* apply(). *)
Apply(a, n) ==
    CASE n.kind = "turn/started" -> Started(a)
      [] n.kind = "item/started" -> ItemStarted(a, n.text)
      [] n.kind = "delta" -> Delta(a, n.text)
      [] n.kind = "item/completed" -> Completed(a, n.text)
      [] n.kind = "turn/completed" -> TurnCompleted(a)

(* _notification: an event of an item first flushes the batch of the item, *)
(* a delta joins it.  Nothing changed, nothing is published.               *)
Told(n) == link # "down" /\ queue # <<>> /\ n = Head(queue) /\ queue' = Tail(queue)

HearsDelta ==
    /\ Told([kind |-> "delta", text |-> Head(queue).text])
    /\ actor' = Apply(actor, Head(queue))
    /\ batch' = (batch \/ actor' # actor)
    /\ NothingPublished
    /\ UNCHANGED <<worker, link, answer, late, kept, stream, wire, screen, faults>>

(* _flush_delta: 50 ms after the first delta of the batch ... *)
FlushesDelta ==
    /\ batch /\ batch' = FALSE
    /\ actor' = actor
    /\ Publishes(2)
    /\ UNCHANGED <<sources, late, kept, stream, wire, screen, faults>>

(* ... or because the item has another event.  A notification that finds a *)
(* batch of its item publishes it first: that is FlushesDelta.             *)
HearsNotice ==
    /\ queue # <<>> /\ Head(queue).kind # "delta"
    /\ Told(Head(queue))
    /\ Head(queue).kind \in {"item/started", "item/completed"} => ~batch
    /\ actor' = Apply(actor, Head(queue))
    /\ IF actor' = actor THEN NothingPublished ELSE Publishes(1)
    /\ UNCHANGED <<worker, link, answer, batch, late, kept, stream, wire, screen, faults>>

-----------------------------------------------------------------------------
(* Nothing is under way.  Bounds: a timer takes seconds, and what was      *)
(* under way is over by then; a new Owner under the eyes of a browser      *)
(* comes at such a time.                                                   *)
Resting ==
    /\ queue = <<>> /\ ~batch /\ link # "joining"
    /\ wire = <<>> /\ ~browser.paint.waits
    /\ stream.step \in {"none", "waits", "looks"}
    /\ backend = "web" /\ stream # NoStream => stream.cursor = Latest

(* The link.  A thread is resumed, so its notifications come, and then     *)
(* read; what is read may be applied before or after notifications that    *)
(* came earlier or later.                                                  *)
Connects ==
    /\ backend = "web" /\ link = "down"
    /\ link' = "joining"
    /\ UNCHANGED <<journal, worker, answer, queue, projection, kept, stream, wire, screen, faults>>

(* thread/read may hold the answer that is still being given, or not. *)
WorkerReads ==
    /\ link = "joining" /\ answer = NoAnswer
    /\ \E phase \in {worker.phase} \cup (IF worker.phase = "answer" THEN {"turn"} ELSE {}) :
           answer' = [phase |-> phase, text |-> worker.text]
    /\ UNCHANGED <<journal, worker, link, queue, projection, kept, stream, wire, screen, faults>>

(* hydrate: every item is taken as completed, also one that is not. *)
HydratedFrom(a) ==
    LET item == IF a.phase \in {"answer", "answered", "over"} THEN Completed(actor, a.text) ELSE actor
    IN  [item EXCEPT !.running = a.phase \in {"turn", "answer", "answered"}]

AnswerEnded == worker.phase \in {"answered", "over"}
EndIsKnown == AnswerEnded /\ \A i \in DOMAIN queue : queue[i].kind # "item/completed"

Hydrates ==
    /\ link = "joining" /\ answer # NoAnswer
    /\ link' = "up" /\ answer' = NoAnswer
    /\ actor' = HydratedFrom(answer)
    /\ late' = (answer.phase \notin {"answered", "over"} /\ (late \/ EndIsKnown))
    /\ Publishes(1)
    /\ UNCHANGED <<worker, queue, batch, kept, stream, wire, screen, faults>>

LinkLost ==
    /\ Fault /\ ~watched /\ link # "down"
    /\ link' = "down" /\ answer' = NoAnswer /\ queue' = <<>>
    /\ UNCHANGED <<journal, worker, projection, kept, stream, wire, screen>>

(* A new Owner: the worker runs on, what the old one had written to the    *)
(* stream still arrives.                                                   *)
OwnerRestarts ==
    /\ Fault /\ Restart
    /\ watched => Resting /\ refresh = NoRefresh
    /\ said' = <<>> /\ late' = FALSE
    /\ link' = "down" /\ answer' = NoAnswer /\ queue' = <<>>
    /\ actor' = Nothing /\ batch' = FALSE
    /\ stream' = NoStream
    /\ refresh' = NoRefresh
    /\ UNCHANGED <<worker, kept, wire, browser>>

-----------------------------------------------------------------------------
(* A capture.  That of a terminal is read in two steps: whether it is busy *)
(* (`running`), and then what it shows.                                    *)
Shown(running) ==
    IF backend = "web" THEN actor
    ELSE [text |-> worker.text, final |-> AnswerEnded, running |-> running, revision |-> 0]
Busy == worker.phase \in {"turn", "answer", "answered"}
Now == Shown(Busy)

(* web_stream: the wait ends with the answer of the journal ... *)
StreamWakes ==
    /\ backend = "web" /\ stream.step = "waits" /\ wire = <<>>
    /\ LET status == ReplayStatus(stream.cursor)
       IN  /\ status # "replay" \/ ReplayEvents(stream.cursor) # <<>>
           /\ IF status \in {"gap", "reset"}
              THEN /\ wire' = <<[type |-> "state", id |-> Latest]>>
              ELSE UNCHANGED wire
    /\ stream' = [step |-> "reads", cursor |-> stream.cursor, id |-> Latest]
    /\ UNCHANGED <<journal, sources, projection, kept, screen, faults>>

(* ... and then the capture is read ... *)
StreamReads ==
    /\ backend = "web" /\ stream.step = "reads"
    /\ stream' = [step |-> "writes", id |-> stream.id, capture |-> Now]
    /\ UNCHANGED <<journal, sources, projection, kept, wire, screen, faults>>

(* Mutant: the frame has the number of the moment it is written. *)
StreamWritesLatest ==
    /\ stream.step = "writes" /\ wire = <<>>
    /\ wire' = <<[type |-> "capture", id |-> Latest, capture |-> stream.capture]>>
    /\ stream' = [step |-> "waits", cursor |-> Latest]
    /\ UNCHANGED <<journal, sources, projection, kept, screen, faults>>

(* ... and its frame has the number from before. *)
StreamWrites ==
    /\ stream.step = "writes" /\ wire = <<>>
    /\ wire' = <<[type |-> "capture", id |-> stream.id, capture |-> stream.capture]>>
    /\ stream' = [step |-> "waits", cursor |-> stream.id]
    /\ UNCHANGED <<journal, sources, projection, kept, screen, faults>>

(* terminal_stream: a frame when the digest or the business has changed. *)
TerminalLooks ==
    /\ backend = "terminal" /\ stream.step = "waits" /\ wire = <<>>
    /\ stream' = [stream EXCEPT !.step = "looks", !.running = Busy]
    /\ UNCHANGED <<journal, sources, projection, kept, wire, screen, faults>>

TerminalWrites ==
    /\ backend = "terminal" /\ stream.step = "looks"
    /\ LET capture == Shown(stream.running)
       IN  /\ wire' = IF stream.wrote = capture THEN wire
                      ELSE <<[type |-> "capture", id |-> NoCursor, capture |-> capture]>>
           /\ stream' = [stream EXCEPT !.step = "waits", !.wrote = capture]
    /\ UNCHANGED <<journal, sources, projection, kept, screen, faults>>

(* Its time is up, the capture fails or times out, or the Owner drains. *)
StreamEnds ==
    /\ Fault /\ stream # NoStream
    /\ stream' = NoStream
    /\ UNCHANGED <<journal, sources, projection, kept, wire, screen>>

-----------------------------------------------------------------------------
(* The browser.                                                            *)
Delivered(b, capture) == [b EXCEPT !.shown = capture, !.paint = NoPaint]
RefreshOvertaken ==
    IF refresh = NoRefresh THEN refresh ELSE [refresh EXCEPT !.moved = refresh.safety]

NewStream(cursor) ==
    IF backend = "web" THEN [step |-> "waits", cursor |-> cursor]
    ELSE [step |-> "waits", running |-> FALSE, wrote |-> Nothing]

(* startEventStream: what waits to be painted is dropped. *)
Opens ==
    /\ browser' = [browser EXCEPT !.run = "open", !.paint = NoPaint]
    /\ stream' = NewStream(browser.last)
    /\ wire' = <<>>

Starts ==
    /\ browser.run = "starting"
    /\ Opens
    /\ UNCHANGED <<journal, sources, projection, kept, refresh, faults>>

(* applyEvent: the cursor first; a capture of a running turn is painted    *)
(* with the next frame of the screen, any other at once.                   *)
Receives ==
    /\ browser.run = "open" /\ wire # <<>>
    /\ wire' = Tail(wire)
    /\ LET f == Head(wire)
           b == [browser EXCEPT !.last = IF f.id = NoCursor THEN @ ELSE f.id]
       IN  CASE f.type = "state" -> browser' = b /\ UNCHANGED refresh
             [] f.type = "capture" /\ backend = "web" /\ f.capture.running ->
                    /\ browser' = [b EXCEPT !.paint = [waits |-> TRUE, capture |-> f.capture]]
                    /\ UNCHANGED refresh
             [] OTHER -> browser' = Delivered(b, f.capture) /\ refresh' = RefreshOvertaken
    /\ UNCHANGED <<journal, sources, projection, kept, stream, faults>>

Paints ==
    /\ browser.paint.waits
    /\ browser' = Delivered(browser, browser.paint.capture)
    /\ refresh' = RefreshOvertaken
    /\ UNCHANGED <<journal, sources, projection, kept, stream, wire, faults>>

(* retryEventStream. *)
SeesEnd ==
    /\ browser.run = "open" /\ stream = NoStream /\ wire = <<>>
    /\ browser' = [browser EXCEPT !.run = "starting"]
    /\ UNCHANGED <<journal, sources, projection, kept, stream, wire, refresh, faults>>

(* The connection breaks, with what was on it. *)
Breaks ==
    /\ Fault /\ browser.run = "open"
    /\ browser' = [browser EXCEPT !.run = "starting"]
    /\ stream' = NoStream /\ wire' = <<>>
    /\ UNCHANGED <<journal, sources, projection, kept, refresh>>

(* refresh: one at a time; another one waits and comes after it. *)
Asking(safety) ==
    refresh' = IF refresh = NoRefresh
               THEN [step |-> "asked", safety |-> safety, moved |-> FALSE, again |-> FALSE]
               ELSE [refresh EXCEPT !.again = TRUE]

(* Mutant: no refresh while the stream is live. *)
TimerOnlyWithoutStream ==
    /\ browser.run = "starting"
    /\ refresh = NoRefresh
    /\ Resting
    /\ Asking(FALSE)
    /\ UNCHANGED <<journal, sources, projection, kept, stream, wire, browser, faults>>

(* The timers: the safety refresh beside a live stream, the fallback while *)
(* there is none.                                                          *)
Timer ==
    /\ browser.run # "hidden"
    /\ refresh = NoRefresh
    /\ Resting
    /\ Asking(browser.run = "open")
    /\ UNCHANGED <<journal, sources, projection, kept, stream, wire, browser, faults>>

OwnerLooks ==
    /\ backend = "terminal" /\ refresh.step = "asked"
    /\ refresh' = [step |-> "looked", safety |-> refresh.safety, moved |-> refresh.moved,
                   again |-> refresh.again, running |-> Busy]
    /\ UNCHANGED <<journal, sources, projection, kept, stream, wire, browser, faults>>

OwnerReads ==
    /\ refresh.step = IF backend = "web" THEN "asked" ELSE "looked"
    /\ refresh' = [step |-> "read", safety |-> refresh.safety, moved |-> refresh.moved,
                   again |-> refresh.again,
                   capture |-> Shown(backend = "terminal" /\ refresh.running)]
    /\ UNCHANGED <<journal, sources, projection, kept, stream, wire, browser, faults>>

NextRefresh ==
    IF refresh.again THEN [step |-> "asked", safety |-> FALSE, moved |-> FALSE, again |-> FALSE]
    ELSE NoRefresh

(* deliverCapture: a safety refresh gives way to what was delivered since  *)
(* it began; any other replaces what is shown, also by something older.    *)
Answers ==
    /\ refresh.step = "read"
    /\ browser' = IF refresh.safety /\ refresh.moved THEN browser
                  ELSE [browser EXCEPT !.shown = refresh.capture]
    /\ refresh' = NextRefresh
    /\ UNCHANGED <<journal, sources, projection, kept, stream, wire, faults>>

RefreshFails ==
    /\ Fault /\ refresh # NoRefresh
    /\ refresh' = NextRefresh
    /\ UNCHANGED <<journal, sources, projection, kept, stream, wire, browser>>

Hides ==
    /\ Fault /\ browser.run # "hidden"
    /\ browser' = [browser EXCEPT !.run = "hidden", !.paint = NoPaint]
    /\ stream' = NoStream /\ wire' = <<>>
    /\ refresh' = NoRefresh
    /\ UNCHANGED <<journal, sources, projection, kept>>

(* resumeLiveConnection: the page is shown again. *)
Wakes ==
    /\ watched /\ browser.run = "hidden"
    /\ Opens
    /\ Asking(FALSE)
    /\ UNCHANGED <<journal, sources, projection, kept, faults>>

(* The same when a page that was never hidden gets the focus, or the       *)
(* network is back.                                                        *)
Focuses ==
    /\ Fault /\ browser.run # "hidden"
    /\ Opens
    /\ Asking(FALSE)
    /\ UNCHANGED <<journal, sources, projection, kept>>

-----------------------------------------------------------------------------
CaptureNext ==
    \/ WorkerGoesOn \/ WorkerSpeaks
    \/ HearsDelta \/ FlushesDelta \/ HearsNotice
    \/ Connects \/ WorkerReads \/ Hydrates \/ LinkLost \/ OwnerRestarts
    \/ StreamWakes \/ StreamReads \/ StreamWrites
    \/ TerminalLooks \/ TerminalWrites \/ StreamEnds
    \/ Starts \/ Receives \/ Paints \/ SeesEnd \/ Breaks
    \/ Timer \/ OwnerLooks \/ OwnerReads \/ Answers \/ RefreshFails
    \/ Hides \/ Wakes \/ Focuses

CaptureSpec == CaptureInit /\ [][CaptureNext]_captureVars

(* The Owner's tasks and timers run, and so do the browser's; a request    *)
(* that does not fail is answered.  Codex and the person need do nothing.  *)
CaptureFairness ==
    /\ WF_captureVars(HearsDelta) /\ WF_captureVars(FlushesDelta) /\ WF_captureVars(HearsNotice)
    /\ WF_captureVars(Connects) /\ WF_captureVars(WorkerReads) /\ WF_captureVars(Hydrates)
    /\ WF_captureVars(StreamWakes) /\ WF_captureVars(StreamReads) /\ WF_captureVars(StreamWrites)
    /\ WF_captureVars(TerminalLooks) /\ WF_captureVars(TerminalWrites)
    /\ WF_captureVars(Starts) /\ WF_captureVars(Receives) /\ WF_captureVars(Paints)
    /\ WF_captureVars(SeesEnd)
    /\ WF_captureVars(Timer) /\ WF_captureVars(OwnerLooks) /\ WF_captureVars(OwnerReads)
    /\ WF_captureVars(Answers)

FairCapture == CaptureSpec /\ CaptureFairness

-----------------------------------------------------------------------------
(* A frame of the stream shows all that its number stands for: a browser   *)
(* that comes back with that number is told of everything it has not seen. *)
FramesCoverTheirId ==
    \A i \in DOMAIN wire :
        LET f == wire[i]
        IN  f.type = "capture" /\ f.id.epoch = epoch /\ f.id.sequence > 0 =>
                /\ f.id.sequence <= sequence
                /\ f.capture.revision >= said[f.id.sequence]

(* Once the answer has ended and the actor knows it, the actor has the     *)
(* whole of it, however its deltas, its end, the reading of the thread and *)
(* a lost link were interleaved.  (Not when an older reading of the thread *)
(* is applied over the end: `late`.)                                       *)
FinalTextIsWhole ==
    link = "up" /\ EndIsKnown /\ ~late => actor.text = worker.text /\ actor.final

(* A visible browser comes to show what the session shows, and keeps to    *)
(* it: over gaps, restarts, lost frames, frames that were never painted    *)
(* although their number was kept, and answers that came too late.         *)
ShownCatchesUp == <>[](browser.run # "hidden" => browser.shown = Now)
=============================================================================
