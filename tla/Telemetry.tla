------------------------------ MODULE Telemetry ------------------------------
(***************************************************************************)
(* Usage statistics: the recorders of the terminal interface, a command and *)
(* the server (internal/telemetry/sender.go), the buffer of the console     *)
(* page (web/src/usage.ts), and what people choose meanwhile.               *)
(*                                                                         *)
(* A recorder reads the consent file before it takes its lock, so to record *)
(* and to flush are two steps each, and both run beside the keys a person   *)
(* presses.  Writing the decision is Settings; here it is one step.  The    *)
(* order of the events in a buffer or a batch is left out: an event happens *)
(* once, so they are sets.                                                  *)
(***************************************************************************)
EXTENDS Naturals, FiniteSets, Sequences

CONSTANTS
    EventId,      \* the events of a run, reported at most once by their source
    InstallId,
    ForcedOff,    \* processes whose environment forces telemetry off
    MaxBuffered,  \* bound on what waits for a decision
    QueueSize,    \* MaxQueuedBatches
    None

Process == {"tui", "cli", "server"}
State == {"not_asked", "enabled", "disabled"}

VARIABLES
    consent,    \* the decision in config.yaml
    pending,    \* [Process -> events recorded and not flushed]
    recording,  \* [Process -> the events and the decision of a Record]
    flushing,   \* [Process -> the decision of a Flush]
    sending,    \* [Process -> the batch being sent]
    queue,      \* the server's batches that wait for its worker
    tui,        \* what the person chose in the terminal, until it is done
    page,       \* the console page: known state, buffer, Turn on in progress
    posted,     \* buffers and events the page posted, in requests of their own
    sent,       \* the batches that reached the provider
    fate,       \* [EventId -> what happened to it before it was sent]
    given       \* install ids that an enable created

vars == <<consent, pending, recording, flushing, sending, queue, tui, page, posted, sent, fate, given>>

Batch == [events : SUBSET EventId, id : InstallId, by : Process]
Decision == [sending : BOOLEAN, state : State, id : InstallId \cup {None}]
Kept == [event : EventId, buffered : BOOLEAN]
Recording == [events : SUBSET EventId, decision : Decision]
Fate == [early : BOOLEAN, released : BOOLEAN, refused : BOOLEAN]
NewFate(early) == [early |-> early, released |-> FALSE, refused |-> FALSE]
NewPage == [known |-> None, loading |-> None, buffer |-> {}, turning |-> "no"]

TelemetryAssumption ==
    /\ MaxBuffered \in Nat /\ QueueSize \in Nat
    /\ None \notin InstallId \cup Batch \cup Decision \cup Recording \cup Fate

Events(kept) == {x.event : x \in kept}
Buffered(kept) == Cardinality({x \in kept : x.buffered})

TelemetryTypeOK ==
    /\ consent \in [state : State, id : InstallId \cup {None}]
    /\ pending \in [Process -> SUBSET Kept]
    /\ \A p \in Process : Buffered(pending[p]) <= MaxBuffered
    /\ recording \in [Process -> Recording \cup {None}]
    /\ flushing \in [Process -> Decision \cup {None}]
    /\ sending \in [Process -> Batch \cup {None}]
    /\ queue \in Seq(Batch) /\ Len(queue) <= QueueSize
    /\ tui \in {"idle", "turnOn", "release", "turnOff", "gone"}
    /\ page \in [known : State \cup {None}, loading : State \cup {None}, buffer : SUBSET EventId,
                turning : {"no", "asked", "done"}]
    /\ Cardinality(page.buffer) <= MaxBuffered
    /\ posted \subseteq SUBSET EventId /\ sent \subseteq Batch
    /\ fate \in [EventId -> Fate \cup {None}]
    /\ given \subseteq InstallId

Init ==
    /\ consent = [state |-> "not_asked", id |-> None]
    /\ pending = [p \in Process |-> {}]
    /\ recording = [p \in Process |-> None]
    /\ flushing = [p \in Process |-> None]
    /\ sending = [p \in Process |-> None]
    /\ queue = <<>> /\ tui = "idle" /\ page = NewPage /\ posted = {}
    /\ sent = {} /\ fate = [e \in EventId |-> None] /\ given = {}

-----------------------------------------------------------------------------
(* The recorder *)

\* Decide: consent from the file, forced-off conditions of the process.  An
\* enable by hand without an install id sends nothing.
Decide(p) == [sending |-> p \notin ForcedOff /\ consent.state = "enabled" /\ consent.id # None,
              state |-> consent.state, id |-> consent.id]

Buffers(p) == p = "tui"

\* An event happens in a process, which reads the decision.
Happens(e, p) ==
    /\ fate[e] = None /\ recording[p] = None
    /\ recording' = [recording EXCEPT ![p] = [events |-> {e}, decision |-> Decide(p)]]
    /\ fate' = [fate EXCEPT ![e] = NewFate(~Decide(p).sending)]
    /\ UNCHANGED <<consent, pending, flushing, sending, queue, tui, page, posted, sent, given>>

\* trackStart, trackCreate and the others: an action of a command, or of the
\* terminal interface, ended.
Track(e) == Happens(e, "cli") \/ (tui # "gone" /\ Happens(e, "tui"))

\* observe: an action of the console ended, when the server may send.
Observe(e) == Decide("server").sending /\ Happens(e, "server")

\* Mutant: the buffer has no bound.
KeepEverything(p) ==
    /\ recording[p] # None
    /\ LET d == recording[p].decision IN
       pending' = [pending EXCEPT ![p] = @ \cup [event : recording[p].events, buffered : {~d.sending}]]
    /\ recording' = [recording EXCEPT ![p] = None]
    /\ UNCHANGED <<consent, flushing, sending, queue, tui, page, posted, sent, fate, given>>

\* Record: kept when it may be sent, buffered while nobody was asked and there
\* is room; the terminal interface, which buffers, records one event at a time.
Keep(p) ==
    /\ recording[p] # None
    /\ LET d == recording[p].decision
           room == Buffers(p) /\ d.state = "not_asked" /\ Buffered(pending[p]) < MaxBuffered
           kept == IF d.sending \/ room THEN [event : recording[p].events, buffered : {~d.sending}] ELSE {}
       IN  pending' = [pending EXCEPT ![p] = @ \cup kept]
    /\ recording' = [recording EXCEPT ![p] = None]
    /\ UNCHANGED <<consent, flushing, sending, queue, tui, page, posted, sent, fate, given>>

\* Flush, at the end of a step, of a command, of a console action.
FlushDecides(p) ==
    /\ flushing[p] = None /\ sending[p] = None /\ pending[p] # {}
    /\ flushing' = [flushing EXCEPT ![p] = Decide(p)]
    /\ UNCHANGED <<consent, pending, recording, sending, queue, tui, page, posted, sent, fate, given>>

\* Mutant: consent on disk releases what was buffered.
TakeAll(p) ==
    /\ flushing[p] # None
    /\ flushing' = [flushing EXCEPT ![p] = None]
    /\ pending' = [pending EXCEPT ![p] = {}]
    /\ sending' = [sending EXCEPT ![p] =
         IF flushing[p].sending /\ pending[p] # {}
         THEN [events |-> Events(pending[p]), id |-> flushing[p].id, by |-> p]
         ELSE None]
    /\ UNCHANGED <<consent, recording, queue, tui, page, posted, sent, fate, given>>

\* take: what was buffered stays until this session's own Turn on; the rest
\* is sent, or dropped.  The server queues it, and drops it when the queue is
\* full.
Take(p) ==
    /\ flushing[p] # None
    /\ LET free == {x \in pending[p] : ~x.buffered}
           batch == [events |-> Events(free), id |-> flushing[p].id, by |-> p]
           full == Len(queue) = QueueSize IN
       /\ pending' = [pending EXCEPT ![p] = @ \ free]
       /\ IF ~flushing[p].sending \/ free = {} THEN UNCHANGED <<sending, queue>>
          ELSE IF p # "server" THEN sending' = [sending EXCEPT ![p] = batch] /\ UNCHANGED queue
          ELSE queue' = (IF full THEN queue ELSE Append(queue, batch)) /\ UNCHANGED sending
    /\ flushing' = [flushing EXCEPT ![p] = None]
    /\ UNCHANGED <<consent, recording, tui, page, posted, sent, fate, given>>

\* The server's worker takes the next batch.
Work ==
    /\ queue # <<>> /\ sending["server"] = None
    /\ sending' = [sending EXCEPT !["server"] = Head(queue)]
    /\ queue' = Tail(queue)
    /\ UNCHANGED <<consent, pending, recording, flushing, tui, page, posted, sent, fate, given>>

\* send: one POST, whose failure is silent.
Send(p) ==
    /\ sending[p] # None
    /\ sent' \in {sent, sent \cup {sending[p]}}
    /\ sending' = [sending EXCEPT ![p] = None]
    /\ UNCHANGED <<consent, pending, recording, flushing, queue, tui, page, posted, fate, given>>

\* The server stops: Drain waits at most two seconds, so what is queued may
\* be lost.
ServerStops ==
    /\ queue # <<>> \/ sending["server"] # None
    /\ queue' = <<>>
    /\ pending' = [pending EXCEPT !["server"] = {}]
    /\ recording' = [recording EXCEPT !["server"] = None]
    /\ flushing' = [flushing EXCEPT !["server"] = None]
    /\ sending' = [sending EXCEPT !["server"] = None]
    /\ UNCHANGED <<consent, tui, page, posted, sent, fate, given>>

-----------------------------------------------------------------------------
(* The terminal interface *)

Enabled(c) == IF c.state = "enabled" /\ c.id # None THEN {c}
              ELSE {[state |-> "enabled", id |-> id] : id \in InstallId \ (given \cup {c.id})}
Disabled == [state |-> "disabled", id |-> None]

\* Discard: what waits is dropped, and counts as refused.
Discards(p) ==
    /\ pending' = [pending EXCEPT ![p] = {}]
    /\ fate' = [e \in EventId |->
         IF e \in Events(pending[p]) THEN [fate[e] EXCEPT !.refused = TRUE] ELSE fate[e]]

\* t: Turn on, in the prompt or in Settings, answered by a command.
ChooseOn ==
    /\ tui = "idle" /\ tui' = "turnOn"
    /\ UNCHANGED <<consent, pending, recording, flushing, sending, queue, page, posted, sent, fate, given>>

TurnOn ==
    /\ tui = "turnOn"
    /\ \E c \in Enabled(consent) : consent' = c /\ given' = given \cup {c.id}
    /\ tui' = "release"
    /\ UNCHANGED <<pending, recording, flushing, sending, queue, page, posted, sent, fate>>

\* Consented: this session's own Turn on releases what it buffered.
Consented ==
    /\ tui = "release"
    /\ pending' = [pending EXCEPT !["tui"] = [event : Events(@), buffered : {FALSE}]]
    /\ fate' = [e \in EventId |->
         IF e \in Events(pending["tui"]) THEN [fate[e] EXCEPT !.released = TRUE] ELSE fate[e]]
    /\ tui' = "idle"
    /\ UNCHANGED <<consent, recording, flushing, sending, queue, page, posted, sent, given>>

\* n, x: No thanks and Turn off drop what waits, then write the decision.
ChooseOff ==
    /\ tui = "idle" /\ tui' = "turnOff"
    /\ Discards("tui")
    /\ UNCHANGED <<consent, recording, flushing, sending, queue, page, posted, sent, given>>

TurnOff ==
    /\ tui = "turnOff" /\ tui' = "idle"
    /\ consent' = Disabled
    /\ UNCHANGED <<pending, recording, flushing, sending, queue, page, posted, sent, fate, given>>

\* esc: decide later.
Later ==
    /\ tui = "idle" /\ pending["tui"] # {}
    /\ Discards("tui")
    /\ UNCHANGED <<consent, recording, flushing, sending, queue, tui, page, posted, sent, given>>

\* Exit, after its flush.
Exit ==
    /\ tui = "idle" /\ tui' = "gone"
    /\ flushing["tui"] = None /\ sending["tui"] = None
    /\ Discards("tui")
    /\ recording' = [recording EXCEPT !["tui"] = None]
    /\ UNCHANGED <<consent, flushing, sending, queue, page, posted, sent, given>>

-----------------------------------------------------------------------------
(* Commands, and people who edit config.yaml *)

\* ovdb telemetry enable or disable, or an edit that enables without an id.
ChooseElsewhere ==
    /\ \/ \E c \in Enabled(consent) : consent' = c /\ given' = given \cup {c.id}
       \/ consent' \in {Disabled, [state |-> "enabled", id |-> None]} /\ UNCHANGED given
    /\ UNCHANGED <<pending, recording, flushing, sending, queue, tui, page, posted, sent, fate>>

-----------------------------------------------------------------------------
(* The console page *)

\* apply: an undecided page keeps its events.
Applied(state) ==
    [page EXCEPT !.known = state, !.loading = None,
                 !.buffer = IF state = "not_asked" THEN @ ELSE {}]

\* loadUsage: the server answers what it holds now.  The answer to the first
\* load may come late; that to a load of Settings comes at once (a bound).
LoadUsage ==
    /\ page.loading = None
    /\ \/ page.known = None /\ page' = [page EXCEPT !.loading = consent.state]
       \/ page.known # None /\ page.turning = "no" /\ page' = Applied(consent.state)
    /\ UNCHANGED <<consent, pending, recording, flushing, sending, queue, tui, posted, sent, fate, given>>

\* The answer to the first load comes.
Apply ==
    /\ page.loading # None /\ page' = Applied(page.loading)
    /\ UNCHANGED <<consent, pending, recording, flushing, sending, queue, tui, posted, sent, fate, given>>

\* recordUsage; events that the server reports itself are only buffered.
PageRecords(e) ==
    /\ fate[e] = None
    /\ fate' = [fate EXCEPT ![e] = NewFate(page.known # "enabled")]
    /\ IF page.known \in {None, "not_asked"}
       THEN /\ page' = [page EXCEPT !.buffer = IF Cardinality(@) < MaxBuffered THEN @ \cup {e} ELSE @]
            /\ UNCHANGED posted
       ELSE /\ \/ page.known = "enabled" /\ posted' = posted \cup {{e}}
               \/ UNCHANGED posted
            /\ UNCHANGED page
    /\ UNCHANGED <<consent, pending, recording, flushing, sending, queue, tui, sent, given>>

\* turnOnUsage: the decision, then the buffer as it is when the answer comes.
PageTurnsOn ==
    /\ page.known = "not_asked" /\ page.turning = "no"
    /\ page' = [page EXCEPT !.turning = "asked"]
    /\ UNCHANGED <<consent, pending, recording, flushing, sending, queue, tui, posted, sent, fate, given>>

PutEnabled ==
    /\ page.turning = "asked"
    /\ \E c \in Enabled(consent) : consent' = c /\ given' = given \cup {c.id}
    /\ page' = [page EXCEPT !.turning = "done"]
    /\ UNCHANGED <<pending, recording, flushing, sending, queue, tui, posted, sent, fate>>

PageTurnedOn ==
    /\ page.turning = "done"
    /\ posted' = IF page.buffer = {} THEN posted ELSE posted \cup {page.buffer}
    /\ fate' = [e \in EventId |-> IF e \in page.buffer
                                  THEN [fate[e] EXCEPT !.released = TRUE] ELSE fate[e]]
    /\ page' = [page EXCEPT !.known = "enabled", !.buffer = {}, !.turning = "no"]
    /\ UNCHANGED <<consent, pending, recording, flushing, sending, queue, tui, sent, given>>

\* turnOffUsage, dismissUsagePrompt and a closed page drop the buffer.
PageDrops ==
    /\ page.turning = "no" /\ page.known # None
    /\ \/ page' = [page EXCEPT !.buffer = {}, !.known = "disabled"] /\ consent' = Disabled
       \/ page' = [page EXCEPT !.buffer = {}] /\ UNCHANGED consent
       \/ page' = NewPage /\ UNCHANGED consent
    /\ fate' = [e \in EventId |-> IF e \in page.buffer
                                  THEN [fate[e] EXCEPT !.refused = TRUE] ELSE fate[e]]
    /\ UNCHANGED <<pending, recording, flushing, sending, queue, tui, posted, sent, given>>

\* postTelemetryEvents: recorded when this process may send, never kept.
Post ==
    /\ recording["server"] = None
    /\ \E events \in posted :
          /\ posted' = posted \ {events}
          /\ recording' = IF Decide("server").sending
                          THEN [recording EXCEPT !["server"] = [events |-> events, decision |-> Decide("server")]]
                          ELSE recording
    /\ UNCHANGED <<consent, pending, flushing, sending, queue, tui, page, sent, fate, given>>

Next ==
    \/ \E e \in EventId : Track(e) \/ Observe(e) \/ PageRecords(e)
    \/ \E p \in Process : Keep(p) \/ FlushDecides(p) \/ Take(p) \/ Send(p)
    \/ Work \/ ServerStops
    \/ ChooseOn \/ TurnOn \/ Consented \/ ChooseOff \/ TurnOff \/ Later \/ Exit
    \/ ChooseElsewhere
    \/ LoadUsage \/ Apply \/ PageTurnsOn \/ PutEnabled \/ PageTurnedOn \/ PageDrops \/ Post

Spec == Init /\ [][Next]_vars

-----------------------------------------------------------------------------
(* Properties *)

\* What was recorded before anybody agreed is sent only after a Turn on of
\* the same session, never because consent appeared from another process,
\* and never when the session dropped it (sender.go:74-76, usage.ts:1-8).
NothingBeforeConsent ==
    \A b \in sent : \A e \in b.events : fate[e].early => fate[e].released /\ ~fate[e].refused

\* A batch leaves only a process whose environment allows it, under an
\* install id that a person's enable created (consent.go:193-219).
SentByConsent == \A b \in sent : b.by \notin ForcedOff /\ b.id \in given
=============================================================================
