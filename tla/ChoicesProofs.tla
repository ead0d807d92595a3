---------------------------- MODULE ChoicesProofs ----------------------------
(***************************************************************************)
(* Theorems about what people chose.  Telemetry, for any number of events,  *)
(* install ids and buffer bounds, and any processes whose environment       *)
(* forces telemetry off: nothing leaves that nobody agreed to.  Settings,   *)
(* for any clients, keys and install ids, when the server handles one change*)
(* at a time; with changes side by side it does not hold: see the run       *)
(* settings_race.  Contexts, for any directories, ids, places and clients:  *)
(* what a removal leaves of the contexts and what it leaves alone, where a  *)
(* project's context applies, and where cd moves.                           *)
(***************************************************************************)
EXTENDS MCHome, FiniteSetTheorems, TLAPS

-----------------------------------------------------------------------------
(* The invariants *)

TypesInv ==
    /\ consent \in [state : State, id : InstallId \cup {None}]
    /\ pending \in [Process -> SUBSET Kept]
    /\ recording \in [Process -> Recording \cup {None}]
    /\ flushing \in [Process -> Decision \cup {None}]
    /\ sending \in [Process -> Batch \cup {None}]
    /\ queue \in Seq(Batch)
    /\ tui \in {"idle", "turnOn", "release", "turnOff", "gone"}
    /\ page \in [known : State \cup {None}, loading : State \cup {None}, buffer : SUBSET EventId, turning : {"no", "asked", "done"}]
    /\ posted \subseteq SUBSET EventId /\ sent \subseteq Batch
    /\ fate \in [EventId -> Fate \cup {None}]
    /\ given \subseteq InstallId

\* What waits stays within its bounds.
BoundsInv ==
    /\ \A p \in Process : Buffered(pending[p]) <= MaxBuffered
    /\ \A p \in Process : IsFiniteSet({x \in pending[p] : x.buffered})
    /\ recording["tui"] # None => \E e \in EventId : recording["tui"].events = {e}
    /\ Len(queue) <= QueueSize
    /\ IsFiniteSet(page.buffer) /\ Cardinality(page.buffer) <= MaxBuffered

\* The batch was sent, is being sent or waits for the server's worker.
InFlight(b) ==
    b \in sent \/ (\E p \in Process : sending[p] = b) \/ \E i \in 1 .. Len(queue) : queue[i] = b

\* Whoever decided to send had an install id and may send.
IdsInv ==
    /\ consent.id # None => consent.id \in given
    /\ \A p \in Process : flushing[p] # None /\ flushing[p].sending
                          => p \notin ForcedOff /\ flushing[p].id \in given
    /\ \A b \in Batch : InFlight(b) => b.by \notin ForcedOff /\ b.id \in given

\* An event is in one place: in what the terminal recorded or kept, in the
\* buffer of the page, or on its way to the provider.
RecordedBy(p, e) == recording[p] # None /\ e \in recording[p].events
InTui(e) == e \in Events(pending["tui"])
Leaves(e) ==
    \/ \E b \in Batch : InFlight(b) /\ e \in b.events
    \/ \E s \in posted : e \in s
    \/ \E p \in {"cli", "server"} :
          e \in Events(pending[p]) \/ (RecordedBy(p, e) /\ recording[p].decision.sending)

\* What may be sent: recorded after somebody agreed, or released and not
\* refused.
Safe(e) == fate[e] # None /\ (fate[e].early => fate[e].released /\ ~fate[e].refused)
Waiting(e) == fate[e] # None /\ ~fate[e].refused

EventInv(e) ==
    /\ Leaves(e) => Safe(e) /\ ~InTui(e) /\ ~RecordedBy("tui", e) /\ e \notin page.buffer
    /\ InTui(e) => Waiting(e) /\ ~RecordedBy("tui", e) /\ e \notin page.buffer
    /\ RecordedBy("tui", e) => /\ Waiting(e) /\ e \notin page.buffer
                               /\ recording["tui"].decision.sending => Safe(e)
    /\ e \in page.buffer => Waiting(e)
    /\ \A x \in pending["tui"] : x.event = e /\ ~x.buffered => Safe(e)
    /\ \A x, y \in pending["tui"] : x.event = e /\ y.event = e => x = y

EventsInv == \A e \in EventId : EventInv(e)

TelemetryInv == TypesInv /\ BoundsInv /\ IdsInv /\ EventsInv

-----------------------------------------------------------------------------
(* Types *)

LEMMA DecideType ==
  ASSUME TypesInv, NEW p \in Process
  PROVE  Decide(p) \in Decision
  BY DEF TypesInv, Decide, Decision

LEMMA EventsType ==
  ASSUME NEW kept \in SUBSET Kept
  PROVE  Events(kept) \subseteq EventId
  BY DEF Events, Kept

LEMMA NewFateIs ==
  ASSUME NEW early \in BOOLEAN
  PROVE  /\ NewFate(early) \in Fate
         /\ NewFate(early).early = early /\ ~NewFate(early).released /\ ~NewFate(early).refused
  BY DEF NewFate, Fate

LEMMA HappensTypes ==
  ASSUME TypesInv, NEW e \in EventId, NEW p \in Process, Happens(e, p)
  PROVE  TypesInv'
  <1>1. [events |-> {e}, decision |-> Decide(p)] \in Recording
    BY DecideType DEF Recording
  <1>2. recording' \in [Process -> Recording \cup {None}]
    BY <1>1 DEF Happens, TypesInv
  <1>3. NewFate(~Decide(p).sending) \in Fate
    BY NewFateIs
  <1>4. fate' \in [EventId -> Fate \cup {None}]
    BY <1>3 DEF Happens, TypesInv
  <1>5. QED
    BY <1>2, <1>4 DEF Happens, TypesInv

\* What a recorder adds to what waits.
KeptOf(p) ==
    LET d == recording[p].decision
        room == Buffers(p) /\ d.state = "not_asked" /\ Buffered(pending[p]) < MaxBuffered
    IN  IF d.sending \/ room THEN [event : recording[p].events, buffered : {~d.sending}] ELSE {}

LEMMA KeepIs ==
  ASSUME TypesInv, NEW p \in Process, Keep(p)
  PROVE  /\ recording[p] \in Recording /\ KeptOf(p) \subseteq Kept
         /\ pending' = [pending EXCEPT ![p] = pending[p] \cup KeptOf(p)]
         /\ recording' = [recording EXCEPT ![p] = None]
  <1>1. recording[p] \in Recording
    BY DEF Keep, TypesInv
  <1>2. KeptOf(p) \subseteq [event : recording[p].events, buffered : {~recording[p].decision.sending}]
    BY DEF KeptOf
  <1>3. recording[p].events \subseteq EventId /\ (~recording[p].decision.sending) \in BOOLEAN
    BY <1>1 DEF Recording, Decision
  <1>4. KeptOf(p) \subseteq Kept
    BY <1>2, <1>3 DEF Kept
  <1>5. QED
    BY <1>1, <1>4 DEF Keep, KeptOf

LEMMA RecorderTypes ==
  ASSUME TypesInv, NEW p \in Process, Keep(p) \/ FlushDecides(p) \/ Send(p)
  PROVE  TypesInv'
  <1>1. CASE Keep(p)
    <2>1. recording' \in [Process -> Recording \cup {None}] /\ pending' \in [Process -> SUBSET Kept]
      BY <1>1, KeepIs DEF TypesInv
    <2>2. UNCHANGED <<consent, flushing, sending, queue, tui, page, posted, sent, fate, given>>
      BY <1>1 DEF Keep
    <2>3. QED
      BY <2>1, <2>2 DEF TypesInv
  <1>2. CASE FlushDecides(p)
    BY <1>2, DecideType DEF TypesInv, FlushDecides
  <1>3. CASE Send(p)
    BY <1>3 DEF TypesInv, Send
  <1>4. QED
    BY <1>1, <1>2, <1>3

\* What take has to send, and as which batch.
Free(p) == {x \in pending[p] : ~x.buffered}
BatchOf(p) == [events |-> Events(Free(p)), id |-> flushing[p].id, by |-> p]

\* Only who decided to send makes a batch, under that decision's id.
LEMMA TakeIs ==
  ASSUME TypesInv, IdsInv, TelemetryAssumption, NEW p \in Process, Take(p)
  PROVE  /\ pending' = [pending EXCEPT ![p] = pending[p] \ Free(p)]
         /\ flushing' = [flushing EXCEPT ![p] = None]
         /\ \/ UNCHANGED <<sending, queue>>
            \/ /\ BatchOf(p) \in Batch /\ p \notin ForcedOff /\ flushing[p].id \in given
               /\ \/ /\ sending' = [sending EXCEPT ![p] = BatchOf(p)]
                     /\ UNCHANGED queue
                  \/ /\ queue' = Append(queue, BatchOf(p)) /\ Len(queue) # QueueSize
                     /\ UNCHANGED sending
  <1>1. Free(p) \subseteq Kept
    BY DEF Free, TypesInv
  <1>2. Events(Free(p)) \subseteq EventId
    BY <1>1, EventsType
  <1>3. flushing[p] # None /\ flushing[p].sending => p \notin ForcedOff /\ flushing[p].id \in given
    BY DEF IdsInv
  <1>4. flushing[p] # None /\ flushing[p].sending => BatchOf(p) \in Batch
    BY <1>2, <1>3 DEF BatchOf, Batch, TypesInv
  <1>5. /\ pending' = [pending EXCEPT ![p] = pending[p] \ Free(p)]
        /\ flushing[p] # None /\ flushing' = [flushing EXCEPT ![p] = None]
    BY DEF Take, Free
  <1>6. \/ UNCHANGED <<sending, queue>>
        \/ /\ flushing[p].sending
           /\ \/ /\ sending' = [sending EXCEPT ![p] = BatchOf(p)]
                 /\ UNCHANGED queue
              \/ /\ queue' = Append(queue, BatchOf(p)) /\ Len(queue) # QueueSize
                 /\ UNCHANGED sending
    BY DEF Take, Free, BatchOf
  <1>7. QED
    BY <1>3, <1>4, <1>5, <1>6

LEMMA TakeTypes ==
  ASSUME TypesInv, IdsInv, TelemetryAssumption, NEW p \in Process, Take(p)
  PROVE  TypesInv'
  <1>1. pending' \in [Process -> SUBSET Kept] /\ flushing' \in [Process -> Decision \cup {None}]
    <2>1. pending \in [Process -> SUBSET Kept] /\ flushing \in [Process -> Decision \cup {None}]
      BY DEF TypesInv
    <2>2. pending' = [pending EXCEPT ![p] = pending[p] \ Free(p)] /\ flushing' = [flushing EXCEPT ![p] = None]
      BY TakeIs
    <2>3. QED
      BY <2>1, <2>2
  <1>2. sending' \in [Process -> Batch \cup {None}] /\ queue' \in Seq(Batch)
    <2>1. CASE UNCHANGED <<sending, queue>>
      BY <2>1 DEF TypesInv
    <2>2. CASE BatchOf(p) \in Batch /\ sending' = [sending EXCEPT ![p] = BatchOf(p)] /\ queue' = queue
      BY <2>2 DEF TypesInv
    <2>3. CASE BatchOf(p) \in Batch /\ queue' = Append(queue, BatchOf(p)) /\ sending' = sending
      BY <2>3 DEF TypesInv
    <2>4. QED
      BY <2>1, <2>2, <2>3, TakeIs
  <1>3. UNCHANGED <<consent, recording, tui, page, posted, sent, fate, given>>
    BY DEF Take
  <1>4. QED
    BY <1>1, <1>2, <1>3 DEF TypesInv

LEMMA ServerTypes ==
  ASSUME TypesInv, Work \/ ServerStops \/ Post
  PROVE  TypesInv'
  <1>1. CASE Work
    <2>1. Head(queue) \in Batch /\ Tail(queue) \in Seq(Batch)
      BY <1>1 DEF Work, TypesInv
    <2>2. QED
      BY <1>1, <2>1 DEF Work, TypesInv
  <1>2. CASE ServerStops
    <2>1. <<>> \in Seq(Batch) /\ {} \in SUBSET Kept
      OBVIOUS
    <2>2. /\ pending' \in [Process -> SUBSET Kept] /\ recording' \in [Process -> Recording \cup {None}]
          /\ flushing' \in [Process -> Decision \cup {None}] /\ sending' \in [Process -> Batch \cup {None}]
      BY <1>2, <2>1 DEF ServerStops, TypesInv
    <2>3. queue' \in Seq(Batch) /\ UNCHANGED <<consent, tui, page, posted, sent, fate, given>>
      BY <1>2, <2>1 DEF ServerStops
    <2>4. QED
      BY <2>2, <2>3 DEF TypesInv
  <1>3. CASE Post
    <2>1. PICK group \in posted :
            /\ posted' = posted \ {group}
            /\ recording' = recording \/
               recording' = [recording EXCEPT !["server"] = [events |-> group, decision |-> Decide("server")]]
      BY <1>3 DEF Post
    <2>2. [events |-> group, decision |-> Decide("server")] \in Recording
      BY DecideType DEF Recording, TypesInv, Process
    <2>3. recording' \in [Process -> Recording \cup {None}] /\ posted' \subseteq SUBSET EventId
      BY <2>1, <2>2 DEF TypesInv
    <2>4. UNCHANGED <<consent, pending, flushing, sending, queue, tui, page, sent, fate, given>>
      BY <1>3 DEF Post
    <2>5. QED
      BY <2>3, <2>4 DEF TypesInv
  <1>4. QED
    BY <1>1, <1>2, <1>3

LEMMA EnabledType ==
  ASSUME TypesInv, NEW c \in Enabled(consent)
  PROVE  c \in [state : State, id : InstallId \cup {None}] /\ c.id \in InstallId
  BY DEF TypesInv, Enabled, State

\* What marks events leaves the others alone.
LEMMA MarkTypes ==
  ASSUME TypesInv, NEW group,
         \A e \in group \cap EventId : fate[e] # None,
         \/ fate' = [e \in EventId |-> IF e \in group THEN [fate[e] EXCEPT !.refused = TRUE] ELSE fate[e]]
         \/ fate' = [e \in EventId |-> IF e \in group THEN [fate[e] EXCEPT !.released = TRUE] ELSE fate[e]]
  PROVE  fate' \in [EventId -> Fate \cup {None}]
  <1>1. \A e \in group \cap EventId : /\ [fate[e] EXCEPT !.refused = TRUE] \in Fate
                                       /\ [fate[e] EXCEPT !.released = TRUE] \in Fate
    <2> SUFFICES ASSUME NEW e \in group \cap EventId
                 PROVE  [fate[e] EXCEPT !.refused = TRUE] \in Fate /\ [fate[e] EXCEPT !.released = TRUE] \in Fate
      OBVIOUS
    <2>1. fate[e] \in Fate
      BY DEF TypesInv
    <2>2. QED
      BY <2>1 DEF Fate
  <1>2. CASE fate' = [e \in EventId |-> IF e \in group THEN [fate[e] EXCEPT !.refused = TRUE] ELSE fate[e]]
    BY <1>1, <1>2 DEF TypesInv
  <1>3. CASE fate' = [e \in EventId |-> IF e \in group THEN [fate[e] EXCEPT !.released = TRUE] ELSE fate[e]]
    BY <1>1, <1>3 DEF TypesInv
  <1>4. QED
    BY <1>2, <1>3

LEMMA InTuiHasFate ==
  ASSUME EventsInv
  PROVE  \A e \in Events(pending["tui"]) \cap EventId : fate[e] # None
  BY DEF EventsInv, EventInv, InTui, Waiting

LEMMA InPageHasFate ==
  ASSUME EventsInv
  PROVE  \A e \in page.buffer \cap EventId : fate[e] # None
  BY DEF EventsInv, EventInv, Waiting

LEMMA TuiTypes ==
  ASSUME TypesInv, EventsInv,
         ChooseOn \/ TurnOn \/ Consented \/ ChooseOff \/ TurnOff \/ Later \/ Exit \/ ChooseElsewhere
  PROVE  TypesInv'
  <1>1. CASE ChooseOn
    BY <1>1 DEF ChooseOn, TypesInv
  <1>2. CASE TurnOn
    BY <1>2, EnabledType DEF TurnOn, TypesInv
  <1>3. CASE Consented
    <2>1. [event : Events(pending["tui"]), buffered : {FALSE}] \subseteq Kept
      <3>1. Events(pending["tui"]) \subseteq EventId
        BY EventsType DEF TypesInv, Process
      <3>2. QED
        BY <3>1 DEF Kept
    <2>2. fate' \in [EventId -> Fate \cup {None}]
      BY <1>3, MarkTypes, InTuiHasFate DEF Consented
    <2>3. QED
      BY <1>3, <2>1, <2>2 DEF Consented, TypesInv
  <1>4. ASSUME Discards("tui")
        PROVE  pending' \in [Process -> SUBSET Kept] /\ fate' \in [EventId -> Fate \cup {None}]
    BY <1>4, MarkTypes, InTuiHasFate DEF Discards, TypesInv
  <1>5. CASE ChooseOff \/ Later \/ Exit
    BY <1>4, <1>5 DEF ChooseOff, Later, Exit, TypesInv
  <1>6. CASE TurnOff
    BY <1>6 DEF TurnOff, Disabled, State, TypesInv
  <1>7. CASE ChooseElsewhere
    BY <1>7, EnabledType DEF ChooseElsewhere, Disabled, State, TypesInv
  <1>8. QED
    BY <1>1, <1>2, <1>3, <1>5, <1>6, <1>7

LEMMA PageTypes ==
  ASSUME TypesInv, EventsInv, LoadUsage \/ Apply \/ PageTurnsOn \/ PutEnabled \/ PageTurnedOn \/ PageDrops
  PROVE  TypesInv'
  <1>1. CASE LoadUsage \/ Apply
    BY <1>1 DEF LoadUsage, Apply, Applied, TypesInv
  <1>2. CASE PageTurnsOn
    BY <1>2 DEF PageTurnsOn, TypesInv
  <1>3. CASE PutEnabled
    <2>1. PICK c \in Enabled(consent) : consent' = c /\ given' = given \cup {c.id}
      BY <1>3 DEF PutEnabled
    <2>2. QED
      BY <1>3, <2>1, EnabledType DEF PutEnabled, TypesInv
  <1>4. CASE PageTurnedOn
    <2>1. fate' \in [EventId -> Fate \cup {None}]
      BY <1>4, MarkTypes, InPageHasFate DEF PageTurnedOn
    <2>2. QED
      BY <1>4, <2>1 DEF PageTurnedOn, TypesInv, State
  <1>5. CASE PageDrops
    <2>1. fate' \in [EventId -> Fate \cup {None}]
      BY <1>5, MarkTypes, InPageHasFate DEF PageDrops
    <2>2. page' \in [known : State \cup {None}, loading : State \cup {None}, buffer : SUBSET EventId, turning : {"no", "asked", "done"}]
      <3>1. {} \in SUBSET EventId /\ NewPage.known = None /\ NewPage.loading = None /\ NewPage.buffer = {} /\ NewPage.turning = "no"
        BY DEF NewPage
      <3>2. CASE page' = NewPage
        BY <3>2 DEF NewPage
      <3>3. CASE page' = [page EXCEPT !.buffer = {}]
        BY <3>1, <3>3 DEF TypesInv
      <3>4. CASE page' = [page EXCEPT !.buffer = {}, !.known = "disabled"]
        BY <3>1, <3>4 DEF TypesInv, State
      <3>5. QED
        BY <1>5, <3>2, <3>3, <3>4 DEF PageDrops
    <2>3. consent' \in [state : State, id : InstallId \cup {None}]
      BY <1>5 DEF PageDrops, Disabled, TypesInv, State
    <2>4. QED
      BY <1>5, <2>1, <2>2, <2>3 DEF PageDrops, TypesInv
  <1>6. QED
    BY <1>1, <1>2, <1>3, <1>4, <1>5

LEMMA PageRecordsTypes ==
  ASSUME TypesInv, NEW e \in EventId, PageRecords(e)
  PROVE  TypesInv'
  <1>1. NewFate(page.known # "enabled") \in Fate
    BY NewFateIs
  <1>2. fate' \in [EventId -> Fate \cup {None}]
    BY <1>1 DEF PageRecords, TypesInv
  <1>3. page' \in [known : State \cup {None}, loading : State \cup {None}, buffer : SUBSET EventId, turning : {"no", "asked", "done"}]
    BY DEF PageRecords, TypesInv
  <1>4. posted' \subseteq SUBSET EventId
    BY DEF PageRecords, TypesInv
  <1>5. QED
    BY <1>2, <1>3, <1>4 DEF PageRecords, TypesInv

LEMMA NextTypes ==
  ASSUME TypesInv, IdsInv, EventsInv, TelemetryAssumption, [Next]_vars
  PROVE  TypesInv'
  <1>1. CASE UNCHANGED vars
    BY <1>1 DEF vars, TypesInv
  <1>2. QED
    BY <1>1, HappensTypes, RecorderTypes, TakeTypes, ServerTypes, TuiTypes, PageTypes, PageRecordsTypes
    DEF Next, Track, Observe, Process

LEMMA InitTypes ==
  ASSUME Init
  PROVE  TypesInv
  BY DEF Init, TypesInv, State, NewPage

-----------------------------------------------------------------------------
(* Install ids and processes that may send *)

LEMMA InFlightStays ==
  ASSUME UNCHANGED <<sent, sending, queue>>, NEW b, InFlight(b)'
  PROVE  InFlight(b)
  BY DEF InFlight

LEMMA IdsStay ==
  ASSUME IdsInv, \A b \in Batch : InFlight(b)' => InFlight(b),
         \A p \in Process : flushing'[p] \in {None, flushing[p]},
         given \subseteq given', consent'.id # None => consent'.id \in given'
  PROVE  IdsInv'
  BY DEF IdsInv

LEMMA WorkSends ==
  ASSUME TypesInv, Work, NEW b, InFlight(b)'
  PROVE  InFlight(b)
  <1>1. queue # <<>> /\ queue \in Seq(Batch) /\ queue' = Tail(queue) /\ UNCHANGED sent
        /\ sending' = [sending EXCEPT !["server"] = Head(queue)]
    BY DEF Work, TypesInv
  <1>2. CASE b \in sent'
    BY <1>1, <1>2 DEF InFlight
  <1>3. ASSUME NEW p \in Process, sending'[p] = b
        PROVE  InFlight(b)
    <2>1. sending[p] = b \/ b = queue[1]
      BY <1>1, <1>3 DEF TypesInv
    <2>2. 1 \in 1 .. Len(queue)
      BY <1>1
    <2>3. QED
      BY <2>1, <2>2 DEF InFlight
  <1>4. ASSUME NEW i \in 1 .. Len(queue'), queue'[i] = b
        PROVE  InFlight(b)
    <2>1. i + 1 \in 1 .. Len(queue) /\ queue[i + 1] = b
      BY <1>1, <1>4
    <2>2. QED
      BY <2>1 DEF InFlight
  <1>5. QED
    BY <1>2, <1>3, <1>4 DEF InFlight

LEMMA SendSends ==
  ASSUME TypesInv, NEW p \in Process, Send(p), NEW b \in Batch, TelemetryAssumption, InFlight(b)'
  PROVE  InFlight(b)
  BY DEF Send, InFlight, TypesInv, TelemetryAssumption

LEMMA StopSends ==
  ASSUME TypesInv, ServerStops, NEW b \in Batch, TelemetryAssumption, InFlight(b)'
  PROVE  InFlight(b)
  <1>1. Len(<<>>) = 0 /\ 1 .. 0 = {}
    OBVIOUS
  <1>2. QED
    BY <1>1 DEF ServerStops, InFlight, TypesInv, TelemetryAssumption

LEMMA TakeSends ==
  ASSUME TypesInv, IdsInv, TelemetryAssumption, NEW p \in Process, Take(p), NEW b, InFlight(b)'
  PROVE  InFlight(b) \/ (b = BatchOf(p) /\ p \notin ForcedOff /\ flushing[p].id \in given)
  <1>1. UNCHANGED sent
    BY DEF Take
  <1>2. CASE UNCHANGED <<sending, queue>>
    BY <1>1, <1>2, InFlightStays
  <1>3. CASE sending' = [sending EXCEPT ![p] = BatchOf(p)] /\ queue' = queue
    <2>1. InFlight(b) \/ b = BatchOf(p)
      BY <1>1, <1>3 DEF InFlight, TypesInv
    <2>2. QED
      BY <1>2, <2>1, TakeIs
  <1>4. CASE queue' = Append(queue, BatchOf(p)) /\ sending' = sending
    <2>1. queue \in Seq(Batch)
      BY DEF TypesInv
    <2>2. \A i \in 1 .. Len(queue') : queue'[i] = BatchOf(p) \/ (i \in 1 .. Len(queue) /\ queue'[i] = queue[i])
      BY <1>4, <2>1
    <2>3. InFlight(b) \/ b = BatchOf(p)
      BY <1>1, <1>4, <2>2 DEF InFlight
    <2>4. QED
      BY <1>2, <2>3, TakeIs
  <1>5. QED
    BY <1>2, <1>3, <1>4, TakeIs

LEMMA NextIds ==
  ASSUME TypesInv, IdsInv, TelemetryAssumption, [Next]_vars
  PROVE  IdsInv'
  <1>1. CASE UNCHANGED <<consent, given, flushing, sent, sending, queue>>
    BY <1>1, IdsStay, InFlightStays DEF IdsInv
  <1>2. CASE UNCHANGED vars \/ LoadUsage \/ Apply \/ PageTurnsOn \/ PageTurnedOn \/ Post \/ ChooseOn \/ Consented
    BY <1>1, <1>2 DEF vars, LoadUsage, Apply, Applied, PageTurnsOn, PageTurnedOn, Post, ChooseOn, Consented
  <1>3. CASE ChooseOff \/ Later \/ Exit
    BY <1>1, <1>3 DEF ChooseOff, Later, Exit
  <1>4. ASSUME NEW e \in EventId, Track(e) \/ Observe(e) \/ PageRecords(e)
        PROVE  IdsInv'
    BY <1>1, <1>4 DEF Track, Observe, Happens, PageRecords
  <1>5. ASSUME NEW p \in Process, Keep(p)
        PROVE  IdsInv'
    BY <1>1, <1>5 DEF Keep
  <1>6. ASSUME NEW p \in Process, Take(p)
        PROVE  IdsInv'
    <2>1. \A b \in Batch : InFlight(b)' => b.by \notin ForcedOff /\ b.id \in given
      BY <1>6, TakeSends DEF IdsInv, BatchOf
    <2>2. \A q \in Process : flushing'[q] = None \/ flushing'[q] = flushing[q]
      BY <1>6 DEF Take, TypesInv
    <2>3. UNCHANGED <<consent, given>>
      BY <1>6 DEF Take
    <2>4. QED
      BY <2>1, <2>2, <2>3 DEF IdsInv
  <1>7. ASSUME NEW p \in Process, FlushDecides(p)
        PROVE  IdsInv'
    <2>1. UNCHANGED <<consent, given, sent, sending, queue>>
      BY <1>7 DEF FlushDecides
    <2>2. \A q \in Process : flushing'[q] = flushing[q] \/ (q = p /\ flushing'[q] = Decide(p))
      BY <1>7 DEF FlushDecides, TypesInv
    <2>3. Decide(p).sending => p \notin ForcedOff /\ Decide(p).id \in given
      BY DEF Decide, IdsInv
    <2>4. QED
      BY <2>1, <2>2, <2>3, InFlightStays DEF IdsInv
  <1>8. CASE Work \/ ServerStops \/ \E p \in Process : Send(p)
    <2>1. \A b \in Batch : InFlight(b)' => InFlight(b)
      BY <1>8, WorkSends, SendSends, StopSends
    <2>2. \A p \in Process : flushing'[p] \in {None, flushing[p]}
      BY <1>8 DEF Work, ServerStops, Send, TypesInv
    <2>3. UNCHANGED <<consent, given>>
      BY <1>8 DEF Work, ServerStops, Send
    <2>4. QED
      BY <2>1, <2>2, <2>3, IdsStay DEF IdsInv
  <1>9. CASE TurnOn \/ TurnOff \/ ChooseElsewhere \/ PutEnabled \/ PageDrops
    <2>1. UNCHANGED <<flushing, sent, sending, queue>>
      BY <1>9 DEF TurnOn, TurnOff, ChooseElsewhere, PutEnabled, PageDrops
    <2>2. \/ consent' = consent /\ given' = given
          \/ consent'.id = None /\ given' = given
          \/ given' = given \cup {consent'.id}
      BY <1>9 DEF TurnOn, TurnOff, ChooseElsewhere, PutEnabled, PageDrops, Disabled
    <2>3. QED
      BY <2>1, <2>2, IdsStay, InFlightStays DEF IdsInv
  <1>10. QED
    BY <1>2, <1>3, <1>4, <1>5, <1>6, <1>7, <1>8, <1>9 DEF Next

LEMMA InitIds ==
  ASSUME TelemetryAssumption, Init
  PROVE  IdsInv
  <1>1. \A b \in Batch : ~InFlight(b)
    BY DEF Init, InFlight, Process, TelemetryAssumption
  <1>2. QED
    BY <1>1 DEF Init, IdsInv

-----------------------------------------------------------------------------
(* Events *)

\* The step leaves event e where it was, or loses it.
Keeps(e) ==
    /\ fate'[e] = fate[e]
    /\ Leaves(e)' => Leaves(e)
    /\ \A x \in pending'["tui"] : x.event = e => x \in pending["tui"]
    /\ RecordedBy("tui", e)' => RecordedBy("tui", e) /\ recording'["tui"] = recording["tui"]
    /\ e \in page'.buffer => e \in page.buffer

LEMMA KeptEvent ==
  ASSUME NEW e \in EventId, EventInv(e), Keeps(e)
  PROVE  EventInv(e)'
  BY DEF EventInv, Keeps, InTui, Events, Safe, Waiting

\* Nothing holds the event any more.
LEMMA LostEvent ==
  ASSUME NEW e, ~Leaves(e)', ~InTui(e)', ~RecordedBy("tui", e)', e \notin page'.buffer
  PROVE  EventInv(e)'
  BY DEF EventInv, InTui, Events

\* Nothing holds an event that has not happened.
LEMMA NewEvent ==
  ASSUME NEW e, EventInv(e), fate[e] = None
  PROVE  ~Leaves(e) /\ ~InTui(e) /\ ~RecordedBy("tui", e) /\ e \notin page.buffer
  BY DEF EventInv, Safe, Waiting

LEMMA LeavesStays ==
  ASSUME UNCHANGED <<sent, sending, queue, posted, pending, recording>>, NEW e
  PROVE  Leaves(e)' <=> Leaves(e)
  BY DEF Leaves, InFlight, RecordedBy

\* What the terminal interface does to what it recorded and kept is not yet on
\* its way.
LEMMA TuiLeaves ==
  ASSUME UNCHANGED <<sent, sending, queue, posted>>, NEW e, Leaves(e)',
         \A p \in {"cli", "server"} : pending'[p] = pending[p] /\ recording'[p] = recording[p]
  PROVE  Leaves(e)
  BY DEF Leaves, InFlight, RecordedBy

LEMMA HappensEvents ==
  ASSUME TypesInv, EventsInv, TelemetryAssumption, NEW e \in EventId, NEW p \in Process, Happens(e, p)
  PROVE  EventsInv'
  <1>1. /\ fate[e] = None /\ fate'[e] # None
        /\ fate'[e].early = ~Decide(p).sending /\ ~fate'[e].refused
        /\ \A d \in EventId \ {e} : fate'[d] = fate[d]
    <2>1. NewFate(~Decide(p).sending) # None
      BY NewFateIs DEF TelemetryAssumption
    <2>2. fate[e] = None /\ fate' = [fate EXCEPT ![e] = NewFate(~Decide(p).sending)]
      BY DEF Happens
    <2>3. (~Decide(p).sending) \in BOOLEAN
      OBVIOUS
    <2>4. fate'[e] = NewFate(~Decide(p).sending) /\ \A d \in EventId \ {e} : fate'[d] = fate[d]
      BY <2>2 DEF TypesInv
    <2>5. QED
      BY <2>1, <2>2, <2>3, <2>4, NewFateIs
  <1>2. /\ recording[p] = None
        /\ recording' = [recording EXCEPT ![p] = [events |-> {e}, decision |-> Decide(p)]]
        /\ UNCHANGED <<consent, pending, flushing, sending, queue, tui, page, posted, sent, given>>
    BY DEF Happens
  <1>3. /\ recording'[p] = [events |-> {e}, decision |-> Decide(p)]
        /\ \A q \in Process \ {p} : recording'[q] = recording[q]
    BY <1>2 DEF TypesInv
  <1>4. ASSUME NEW d \in EventId \ {e}
        PROVE  Keeps(d)
    <2>1. \A q \in Process : RecordedBy(q, d)' => RecordedBy(q, d) /\ recording'[q] = recording[q]
      BY <1>3 DEF RecordedBy
    <2>2. Leaves(d)' => Leaves(d)
      BY <1>2, <2>1 DEF Leaves, InFlight, Process
    <2>3. QED
      BY <1>1, <1>2, <2>1, <2>2 DEF Keeps, Process
  <1>5. EventInv(e)'
    <2>1. ~Leaves(e) /\ ~InTui(e) /\ ~RecordedBy("tui", e) /\ e \notin page.buffer
      BY <1>1, NewEvent DEF EventsInv
    <2>2. ~InTui(e)' /\ e \notin page'.buffer
      BY <1>2, <2>1 DEF InTui
    <2>3. RecordedBy("tui", e)' => p = "tui"
      BY <1>3, <2>1 DEF RecordedBy, Process
    <2>4. Leaves(e)' => p # "tui" /\ Decide(p).sending
      BY <1>2, <1>3, <2>1 DEF Leaves, InFlight, RecordedBy, Process
    <2>5. recording'[p].decision = Decide(p)
      BY <1>3
    <2>6. Decide(p).sending => Safe(e)'
      BY <1>1 DEF Safe
    <2>7. Waiting(e)'
      BY <1>1 DEF Waiting
    <2>8. QED
      BY <2>2, <2>3, <2>4, <2>5, <2>6, <2>7 DEF EventInv, InTui, Events
  <1>6. QED
    BY <1>4, <1>5, KeptEvent DEF EventsInv

\* The event waits or is safe, and is where these steps do not look.
LEMMA EventStays ==
  ASSUME EventsInv, UNCHANGED <<fate, pending, recording, sent, sending, queue, posted>>,
         page'.buffer \subseteq page.buffer
  PROVE  EventsInv'
  <1> SUFFICES ASSUME NEW e \in EventId
               PROVE  Keeps(e)
    BY KeptEvent DEF EventsInv
  <1>1. Leaves(e)' => Leaves(e)
    BY LeavesStays
  <1>2. QED
    BY <1>1 DEF Keeps, RecordedBy

LEMMA ChoiceEvents ==
  ASSUME TypesInv, EventsInv,
         \/ ChooseOn \/ TurnOn \/ TurnOff \/ ChooseElsewhere \/ PageTurnsOn \/ PutEnabled \/ LoadUsage \/ Apply
         \/ \E p \in Process : FlushDecides(p)
  PROVE  EventsInv'
  <1>1. CASE ChooseOn \/ TurnOn \/ TurnOff \/ ChooseElsewhere \/ \E p \in Process : FlushDecides(p)
    BY <1>1, EventStays DEF ChooseOn, TurnOn, TurnOff, ChooseElsewhere, FlushDecides
  <1>2. CASE PageTurnsOn \/ PutEnabled \/ LoadUsage \/ Apply
    <2>1. page'.buffer \subseteq page.buffer
      BY <1>2 DEF PageTurnsOn, PutEnabled, LoadUsage, Apply, Applied, TypesInv
    <2>2. QED
      BY <1>2, <2>1, EventStays DEF PageTurnsOn, PutEnabled, LoadUsage, Apply, Applied
  <1>3. QED
    BY <1>1, <1>2

LEMMA PageRecordsEvents ==
  ASSUME TypesInv, EventsInv, TelemetryAssumption, NEW e \in EventId, PageRecords(e)
  PROVE  EventsInv'
  <1>1. /\ fate[e] = None /\ fate'[e] # None
        /\ fate'[e].early = (page.known # "enabled") /\ ~fate'[e].refused
        /\ \A d \in EventId \ {e} : fate'[d] = fate[d]
    <2>1. NewFate(page.known # "enabled") # None
      BY NewFateIs DEF TelemetryAssumption
    <2>2. fate[e] = None /\ fate' = [fate EXCEPT ![e] = NewFate(page.known # "enabled")]
      BY DEF PageRecords
    <2>3. (page.known # "enabled") \in BOOLEAN
      OBVIOUS
    <2>4. fate'[e] = NewFate(page.known # "enabled") /\ \A d \in EventId \ {e} : fate'[d] = fate[d]
      BY <2>2 DEF TypesInv
    <2>5. QED
      BY <2>1, <2>2, <2>3, <2>4, NewFateIs
  <1>2. UNCHANGED <<pending, recording, sending, queue, sent>>
    BY DEF PageRecords
  <1>3. \/ page'.buffer \subseteq page.buffer \cup {e} /\ posted' = posted
        \/ page'.buffer = page.buffer /\ posted' = posted
        \/ page'.buffer = page.buffer /\ posted' = posted \cup {{e}} /\ page.known = "enabled"
    BY DEF PageRecords, TypesInv
  <1>4. ASSUME NEW d \in EventId \ {e}
        PROVE  Keeps(d)
    <2>1. Leaves(d)' => Leaves(d)
      BY <1>2, <1>3 DEF Leaves, InFlight, RecordedBy
    <2>2. QED
      BY <1>1, <1>2, <1>3, <2>1 DEF Keeps, RecordedBy
  <1>5. EventInv(e)'
    <2>1. ~Leaves(e) /\ ~InTui(e) /\ ~RecordedBy("tui", e) /\ e \notin page.buffer
      BY <1>1, NewEvent DEF EventsInv
    <2>2. ~InTui(e)' /\ ~RecordedBy("tui", e)'
      BY <1>2, <2>1 DEF InTui, RecordedBy
    <2>3. Leaves(e)' => page.known = "enabled" /\ e \notin page'.buffer
      BY <1>2, <1>3, <2>1 DEF Leaves, InFlight, RecordedBy
    <2>4. Waiting(e)' /\ (page.known = "enabled" => Safe(e)')
      BY <1>1 DEF Waiting, Safe
    <2>5. QED
      BY <2>2, <2>3, <2>4 DEF EventInv, InTui, Events
  <1>6. QED
    BY <1>4, <1>5, KeptEvent DEF EventsInv

LEMMA KeepEvents ==
  ASSUME TypesInv, EventsInv, NEW p \in Process, Keep(p)
  PROVE  EventsInv'
  <1>1. /\ recording[p] # None /\ recording'[p] = None
        /\ pending'[p] = pending[p] \cup KeptOf(p)
        /\ \A q \in Process \ {p} : recording'[q] = recording[q] /\ pending'[q] = pending[q]
    BY KeepIs DEF Keep, TypesInv
  <1>2. \A x \in KeptOf(p) : x.event \in recording[p].events /\ x.buffered = ~recording[p].decision.sending
    <2>1. KeptOf(p) \subseteq [event : recording[p].events, buffered : {~recording[p].decision.sending}]
      BY DEF KeptOf
    <2>2. QED
      BY <2>1
  <1>3. UNCHANGED <<fate, sent, sending, queue, posted, page>>
    BY DEF Keep
  <1>4. CASE p # "tui"
    <2>1. KeptOf(p) # {} => recording[p].decision.sending
      BY <1>4 DEF KeptOf, Buffers
    <2>2. ASSUME NEW e \in EventId, Leaves(e)'
          PROVE  Leaves(e)
      <3>1. CASE e \in Events(KeptOf(p))
        <4>1. RecordedBy(p, e) /\ recording[p].decision.sending
          BY <1>1, <1>2, <2>1, <3>1 DEF Events, RecordedBy
        <4>2. QED
          BY <1>4, <4>1 DEF Leaves, Process
      <3>2. CASE e \notin Events(KeptOf(p))
        <4>1. \A q \in Process : e \in Events(pending'[q]) => e \in Events(pending[q])
          BY <1>1, <3>2 DEF Events
        <4>2. \A q \in Process : RecordedBy(q, e)' => RecordedBy(q, e) /\ recording'[q] = recording[q]
          BY <1>1 DEF RecordedBy
        <4>3. QED
          BY <1>3, <2>2, <4>1, <4>2 DEF Leaves, InFlight, Process, Events
      <3>3. QED
        BY <3>1, <3>2
    <2>3. \A e \in EventId : Keeps(e)
      BY <1>1, <1>3, <1>4, <2>2 DEF Keeps, RecordedBy, Process
    <2>4. QED
      BY <2>3, KeptEvent DEF EventsInv
  <1>5. CASE p = "tui"
    <2>1. \A e : Leaves(e)' => Leaves(e)
      BY <1>1, <1>3, <1>5, TuiLeaves DEF Process
    <2>2. ASSUME NEW e \in EventId, e \notin recording[p].events
          PROVE  Keeps(e)
      BY <1>1, <1>2, <1>3, <1>5, <2>1, <2>2 DEF Keeps, RecordedBy
    <2>3. ASSUME NEW e \in EventId, e \in recording[p].events
          PROVE  EventInv(e)'
      <3>1. EventInv(e) /\ RecordedBy("tui", e)
        BY <1>1, <1>5, <2>3 DEF EventsInv, RecordedBy
      <3>2. ~Leaves(e) /\ ~InTui(e) /\ e \notin page.buffer /\ Waiting(e)
        BY <3>1 DEF EventInv
      <3>3. recording[p].decision.sending => Safe(e)
        BY <1>5, <3>1 DEF EventInv
      <3>4. ~Leaves(e)' /\ ~RecordedBy("tui", e)' /\ e \notin page'.buffer /\ Waiting(e)'
        BY <1>1, <1>3, <1>5, <2>1, <3>2 DEF RecordedBy, Waiting
      <3>5. Safe(e) => Safe(e)'
        BY <1>3 DEF Safe
      <3>6. \A x \in pending'["tui"] : x.event = e => x \in KeptOf(p)
        BY <1>1, <1>5, <3>2 DEF InTui, Events
      <3>7. \A x \in pending'["tui"] : x.event = e /\ ~x.buffered => Safe(e)'
        BY <1>2, <3>3, <3>5, <3>6
      <3>8. \A x, y \in KeptOf(p) : x.event = y.event => x = y
        BY DEF KeptOf
      <3>9. \A x, y \in pending'["tui"] : x.event = e /\ y.event = e => x = y
        BY <3>6, <3>8
      <3>10. QED
        BY <3>4, <3>7, <3>9 DEF EventInv
    <2>4. QED
      BY <2>2, <2>3, KeptEvent DEF EventsInv
  <1>6. QED
    BY <1>4, <1>5

LEMMA TakeEvents ==
  ASSUME TypesInv, IdsInv, EventsInv, TelemetryAssumption, NEW p \in Process, Take(p)
  PROVE  EventsInv'
  <1>1. UNCHANGED <<recording, page, posted, fate>>
    BY DEF Take
  <1>2. /\ pending'[p] = pending[p] \ Free(p)
        /\ \A q \in Process \ {p} : pending'[q] = pending[q]
    BY TakeIs DEF TypesInv
  <1>3. \A b \in Batch : InFlight(b)' => InFlight(b) \/ b = BatchOf(p)
    BY TakeSends
  <1>4. ASSUME NEW e, Leaves(e)'
        PROVE  Leaves(e) \/ e \in Events(Free(p))
    <2>1. ASSUME NEW b \in Batch, InFlight(b)', e \in b.events
          PROVE  Leaves(e) \/ e \in Events(Free(p))
      BY <1>3, <2>1 DEF Leaves, BatchOf
    <2>2. \A q \in Process : e \in Events(pending'[q]) => e \in Events(pending[q])
      BY <1>2 DEF Events
    <2>3. (\E b \in Batch : InFlight(b)' /\ e \in b.events) \/ Leaves(e)
      BY <1>1, <1>4, <2>2 DEF Leaves, RecordedBy, Process, Events
    <2>4. QED
      BY <2>1, <2>3
  <1>5. ASSUME NEW e \in EventId, Leaves(e)' => Leaves(e)
        PROVE  Keeps(e)
    BY <1>1, <1>2, <1>5 DEF Keeps, RecordedBy, Process
  <1>6. CASE p # "tui"
    <2>1. \A e : e \in Events(Free(p)) => Leaves(e)
      BY <1>6 DEF Leaves, Free, Events, Process
    <2>2. QED
      BY <1>4, <1>5, <2>1, KeptEvent DEF EventsInv
  <1>7. CASE p = "tui"
    <2>1. ASSUME NEW e \in EventId, e \in Events(Free(p))
          PROVE  EventInv(e)'
      <3>1. PICK x \in pending["tui"] : x.event = e /\ ~x.buffered /\ x \in Free(p)
        BY <1>7, <2>1 DEF Events, Free
      <3>2. EventInv(e)
        BY DEF EventsInv
      <3>3. Safe(e) /\ InTui(e) /\ \A y \in pending["tui"] : y.event = e => y = x
        BY <3>1, <3>2 DEF EventInv, InTui, Events
      <3>4. ~RecordedBy("tui", e) /\ e \notin page.buffer
        BY <3>2, <3>3 DEF EventInv
      <3>5. ~InTui(e)'
        BY <1>2, <1>7, <3>1, <3>3 DEF InTui, Events
      <3>6. Safe(e)' /\ ~RecordedBy("tui", e)' /\ e \notin page'.buffer
        BY <1>1, <3>3, <3>4 DEF Safe, RecordedBy
      <3>7. QED
        BY <3>5, <3>6 DEF EventInv, InTui, Events
    <2>2. QED
      BY <1>4, <1>5, <2>1, KeptEvent DEF EventsInv
  <1>8. QED
    BY <1>6, <1>7

LEMMA OneOfEach ==
  ASSUME NEW group, NEW buffered \in BOOLEAN
  PROVE  \A x, y \in [event : group, buffered : {buffered}] : x.event = y.event => x = y
  OBVIOUS

LEMMA MarkedAlike ==
  ASSUME NEW group, NEW buffered \in BOOLEAN
  PROVE  \A x \in [event : group, buffered : {buffered}] : x.buffered = buffered
  OBVIOUS

LEMMA ConsentedEvents ==
  ASSUME TypesInv, EventsInv, TelemetryAssumption, Consented
  PROVE  EventsInv'
  <1>1. /\ pending'["tui"] = [event : Events(pending["tui"]), buffered : {FALSE}]
        /\ \A q \in {"cli", "server"} : pending'[q] = pending[q]
    BY DEF Consented, TypesInv, Process
  <1>2. UNCHANGED <<recording, sending, queue, page, posted, sent>>
    BY DEF Consented
  <1>3. \A e \in EventId : fate'[e] = IF InTui(e) THEN [fate[e] EXCEPT !.released = TRUE] ELSE fate[e]
    BY DEF Consented, InTui
  <1>4. \A e : Leaves(e)' => Leaves(e)
    BY <1>1, <1>2, TuiLeaves
  <1>5. ASSUME NEW e \in EventId, ~InTui(e)
        PROVE  Keeps(e)
    <2>1. \A x \in pending'["tui"] : x.event # e
      BY <1>1, <1>5 DEF InTui
    <2>2. QED
      BY <1>2, <1>3, <1>4, <1>5, <2>1 DEF Keeps, RecordedBy
  <1>6. ASSUME NEW e \in EventId, InTui(e)
        PROVE  EventInv(e)'
    <2>1. EventInv(e) /\ fate[e] # None /\ fate[e] \in Fate
      BY <1>6 DEF EventsInv, EventInv, Waiting, TypesInv
    <2>2. ~Leaves(e) /\ ~RecordedBy("tui", e) /\ e \notin page.buffer /\ ~fate[e].refused
      BY <1>6, <2>1 DEF EventInv, Waiting
    <2>3. fate'[e].released /\ ~fate'[e].refused /\ fate'[e] \in Fate
      BY <1>3, <1>6, <2>1, <2>2 DEF Fate
    <2>4. fate'[e] # None
      BY <2>3 DEF TelemetryAssumption
    <2>5. Safe(e)' /\ Waiting(e)'
      BY <2>3, <2>4 DEF Safe, Waiting
    <2>6. ~Leaves(e)' /\ ~RecordedBy("tui", e)' /\ e \notin page'.buffer
      BY <1>2, <1>4, <2>2 DEF RecordedBy
    <2>7. \A x, y \in pending'["tui"] : x.event = e /\ y.event = e => x = y
      <3>1. \A x, y \in [event : Events(pending["tui"]), buffered : {FALSE}] : x.event = y.event => x = y
        BY OneOfEach
      <3>2. QED
        BY <1>1, <3>1
    <2>8. QED
      BY <2>5, <2>6, <2>7 DEF EventInv
  <1>7. QED
    BY <1>5, <1>6, KeptEvent DEF EventsInv

LEMMA DiscardEvents ==
  ASSUME TypesInv, EventsInv, ChooseOff \/ Later \/ Exit
  PROVE  EventsInv'
  <1>1. /\ pending'["tui"] = {}
        /\ \A q \in {"cli", "server"} : pending'[q] = pending[q] /\ recording'[q] = recording[q]
        /\ recording'["tui"] \in {None, recording["tui"]}
    BY DEF ChooseOff, Later, Exit, Discards, TypesInv, Process
  <1>2. UNCHANGED <<sending, queue, page, posted, sent>>
    BY DEF ChooseOff, Later, Exit
  <1>3. \A e \in EventId : ~InTui(e) => fate'[e] = fate[e]
    BY DEF ChooseOff, Later, Exit, Discards, InTui
  <1>4. \A e : Leaves(e)' => Leaves(e)
    BY <1>1, <1>2, TuiLeaves
  <1>5. \A e : RecordedBy("tui", e)' => RecordedBy("tui", e) /\ recording'["tui"] = recording["tui"]
    BY <1>1 DEF RecordedBy
  <1>6. ASSUME NEW e \in EventId, ~InTui(e)
        PROVE  Keeps(e)
    BY <1>1, <1>2, <1>3, <1>4, <1>5, <1>6 DEF Keeps
  <1>7. ASSUME NEW e \in EventId, InTui(e)
        PROVE  EventInv(e)'
    <2>1. ~Leaves(e) /\ ~RecordedBy("tui", e) /\ e \notin page.buffer
      BY <1>7 DEF EventsInv, EventInv
    <2>2. ~InTui(e)'
      BY <1>1 DEF InTui, Events
    <2>3. QED
      BY <1>2, <1>4, <1>5, <2>1, <2>2, LostEvent
  <1>8. QED
    BY <1>6, <1>7, KeptEvent DEF EventsInv

LEMMA PageEvents ==
  ASSUME TypesInv, EventsInv, TelemetryAssumption, PageTurnedOn \/ PageDrops
  PROVE  EventsInv'
  <1>1. page'.buffer = {}
    <2>1. page' = NewPage \/ page' = [page EXCEPT !.buffer = {}]
          \/ page' = [page EXCEPT !.buffer = {}, !.known = "disabled"]
          \/ page' = [page EXCEPT !.known = "enabled", !.buffer = {}, !.turning = "no"]
      BY DEF PageTurnedOn, PageDrops
    <2>2. CASE page' = NewPage
      BY <2>2 DEF NewPage
    <2>3. CASE page' = [page EXCEPT !.buffer = {}]
      BY <2>3 DEF TypesInv
    <2>4. CASE page' = [page EXCEPT !.buffer = {}, !.known = "disabled"]
      BY <2>4 DEF TypesInv
    <2>5. CASE page' = [page EXCEPT !.known = "enabled", !.buffer = {}, !.turning = "no"]
      BY <2>5 DEF TypesInv
    <2>6. QED
      BY <2>1, <2>2, <2>3, <2>4, <2>5
  <1>2. UNCHANGED <<pending, recording, sending, queue, sent>>
    BY DEF PageTurnedOn, PageDrops
  <1>3. ASSUME NEW e \in EventId, e \notin page.buffer
        PROVE  Keeps(e)
    <2>1. fate'[e] = fate[e]
      BY <1>3 DEF PageTurnedOn, PageDrops
    <2>2. \A s \in posted' : e \in s => s \in posted
      BY <1>3 DEF PageTurnedOn, PageDrops
    <2>3. Leaves(e)' => Leaves(e)
      BY <1>2, <2>2 DEF Leaves, InFlight, RecordedBy
    <2>4. QED
      BY <1>1, <1>2, <2>1, <2>3 DEF Keeps, RecordedBy
  <1>4. ASSUME NEW e \in EventId, e \in page.buffer
        PROVE  EventInv(e)'
    <2>1. EventInv(e) /\ fate[e] # None /\ fate[e] \in Fate /\ ~fate[e].refused
      BY <1>4 DEF EventsInv, EventInv, Waiting, TypesInv
    <2>2. ~Leaves(e) /\ ~InTui(e) /\ ~RecordedBy("tui", e)
      BY <1>4, <2>1 DEF EventInv
    <2>3. ~InTui(e)' /\ ~RecordedBy("tui", e)'
      BY <1>2, <2>2 DEF InTui, RecordedBy
    <2>4. CASE PageDrops
      <3>1. ~Leaves(e)'
        BY <1>2, <2>2, <2>4 DEF PageDrops, Leaves, InFlight, RecordedBy
      <3>2. QED
        BY <1>1, <2>3, <3>1, LostEvent
    <2>5. CASE PageTurnedOn
      <3>1. fate'[e] = [fate[e] EXCEPT !.released = TRUE]
        BY <1>4, <2>5 DEF PageTurnedOn
      <3>2. fate'[e].released /\ ~fate'[e].refused /\ fate'[e] \in Fate
        BY <2>1, <3>1 DEF Fate
      <3>3. QED
        BY <1>1, <2>3, <3>2 DEF EventInv, InTui, Events, Safe, TelemetryAssumption
    <2>6. QED
      BY <2>4, <2>5
  <1>5. QED
    BY <1>3, <1>4, KeptEvent DEF EventsInv

LEMMA ServerEvents ==
  ASSUME TypesInv, EventsInv, TelemetryAssumption,
         Work \/ ServerStops \/ Post \/ \E p \in Process : Send(p)
  PROVE  EventsInv'
  <1>1. CASE Work \/ \E p \in Process : Send(p)
    <2>1. \A b \in Batch : InFlight(b)' => InFlight(b)
      BY <1>1, WorkSends, SendSends
    <2>2. UNCHANGED <<pending, recording, posted, page, fate>>
      BY <1>1 DEF Work, Send
    <2>3. \A e : Leaves(e)' => Leaves(e)
      BY <2>1, <2>2 DEF Leaves, RecordedBy
    <2>4. \A e \in EventId : Keeps(e)
      BY <2>2, <2>3 DEF Keeps, RecordedBy
    <2>5. QED
      BY <2>4, KeptEvent DEF EventsInv
  <1>2. CASE ServerStops
    <2>1. \A b \in Batch : InFlight(b)' => InFlight(b)
      BY <1>2, StopSends
    <2>2. /\ pending'["server"] = {} /\ recording'["server"] = None
          /\ \A q \in Process \ {"server"} : pending'[q] = pending[q] /\ recording'[q] = recording[q]
          /\ UNCHANGED <<posted, page, fate>>
      BY <1>2 DEF ServerStops, TypesInv, Process
    <2>3. \A e : Leaves(e)' => Leaves(e)
      BY <2>1, <2>2 DEF Leaves, RecordedBy, Process, Events
    <2>4. \A e \in EventId : Keeps(e)
      BY <2>2, <2>3 DEF Keeps, RecordedBy, Process
    <2>5. QED
      BY <2>4, KeptEvent DEF EventsInv
  <1>3. CASE Post
    <2>1. UNCHANGED <<pending, sending, queue, page, sent, fate>>
      BY <1>3 DEF Post
    <2>2. PICK group \in posted :
            /\ posted' = posted \ {group}
            /\ recording' = recording \/
               recording' = [recording EXCEPT !["server"] = [events |-> group, decision |-> Decide("server")]]
      BY <1>3 DEF Post
    <2>3. \A q \in Process \ {"server"} : recording'[q] = recording[q]
      BY <2>2 DEF TypesInv
    <2>4. recording'["server"] = recording["server"] \/ recording'["server"].events = group
      BY <2>2 DEF TypesInv, Process
    <2>5. ASSUME NEW e, Leaves(e)'
          PROVE  Leaves(e)
      <3>1. CASE e \in group
        BY <3>1 DEF Leaves
      <3>2. CASE e \notin group
        <4>1. \A q \in Process : RecordedBy(q, e)' => RecordedBy(q, e) /\ recording'[q] = recording[q]
          BY <2>3, <2>4, <3>2 DEF RecordedBy
        <4>2. QED
          BY <2>1, <2>2, <2>5, <4>1 DEF Leaves, InFlight, Process
      <3>3. QED
        BY <3>1, <3>2
    <2>6. \A e \in EventId : Keeps(e)
      BY <2>1, <2>3, <2>5 DEF Keeps, RecordedBy, Process
    <2>7. QED
      BY <2>6, KeptEvent DEF EventsInv
  <1>4. QED
    BY <1>1, <1>2, <1>3

LEMMA NextEvents ==
  ASSUME TypesInv, IdsInv, EventsInv, TelemetryAssumption, [Next]_vars
  PROVE  EventsInv'
  <1>1. CASE UNCHANGED vars
    BY <1>1, EventStays DEF vars
  <1>2. ASSUME NEW e \in EventId, Track(e) \/ Observe(e) \/ PageRecords(e)
        PROVE  EventsInv'
    BY <1>2, HappensEvents, PageRecordsEvents DEF Track, Observe, Process
  <1>3. ASSUME NEW p \in Process, Keep(p) \/ FlushDecides(p) \/ Take(p) \/ Send(p)
        PROVE  EventsInv'
    BY <1>3, KeepEvents, ChoiceEvents, TakeEvents, ServerEvents
  <1>4. CASE Work \/ ServerStops \/ Post
    BY <1>4, ServerEvents
  <1>5. CASE ChooseOn \/ TurnOn \/ TurnOff \/ ChooseElsewhere \/ PageTurnsOn \/ PutEnabled \/ LoadUsage \/ Apply
    BY <1>5, ChoiceEvents
  <1>6. CASE Consented \/ ChooseOff \/ Later \/ Exit \/ PageTurnedOn \/ PageDrops
    BY <1>6, ConsentedEvents, DiscardEvents, PageEvents
  <1>7. QED
    BY <1>1, <1>2, <1>3, <1>4, <1>5, <1>6 DEF Next

LEMMA InitEvents ==
  ASSUME TelemetryAssumption, Init
  PROVE  EventsInv
  <1>1. \A b \in Batch : ~InFlight(b)
    BY DEF Init, InFlight, Process, TelemetryAssumption
  <1>2. \A e : ~Leaves(e)
    BY <1>1 DEF Init, Leaves, RecordedBy, Process, Events
  <1>3. pending["tui"] = {} /\ recording["tui"] = None /\ page.buffer = {}
    BY DEF Init, Process, NewPage
  <1>4. QED
    BY <1>2, <1>3 DEF EventsInv, EventInv, RecordedBy, InTui, Events

-----------------------------------------------------------------------------
(* Bounds *)

\* What waits in process p for a decision, within its bound.
WaitsFor(p) == {x \in pending[p] : x.buffered}
BufferOK(p) == IsFiniteSet(WaitsFor(p)) /\ Cardinality(WaitsFor(p)) <= MaxBuffered
PageOK == IsFiniteSet(page.buffer) /\ Cardinality(page.buffer) <= MaxBuffered
OneAtATime == recording["tui"] # None => \E e \in EventId : recording["tui"].events = {e}

LEMMA BoundsAre ==
  BoundsInv <=> /\ \A p \in Process : BufferOK(p)
                /\ OneAtATime /\ Len(queue) <= QueueSize /\ PageOK
  BY DEF BoundsInv, BufferOK, WaitsFor, Buffered, OneAtATime, PageOK

LEMMA EmptyIsBounded ==
  ASSUME TelemetryAssumption
  PROVE  IsFiniteSet({}) /\ Cardinality({}) <= MaxBuffered
  BY FS_EmptySet DEF TelemetryAssumption

LEMMA KeepBounds ==
  ASSUME TypesInv, BoundsInv, TelemetryAssumption, NEW p \in Process, Keep(p)
  PROVE  BoundsInv'
  <1>1. /\ recording[p] \in Recording /\ recording' = [recording EXCEPT ![p] = None]
        /\ pending' = [pending EXCEPT ![p] = pending[p] \cup KeptOf(p)]
        /\ recording[p] # None
    BY KeepIs DEF Keep
  <1>2. UNCHANGED <<queue, page>>
    BY DEF Keep
  <1>3. OneAtATime'
    BY <1>1, BoundsAre DEF TypesInv, OneAtATime, Process
  <1>4. /\ \A q \in Process \ {p} : WaitsFor(q)' = WaitsFor(q)
        /\ WaitsFor(p)' = WaitsFor(p) \cup {x \in KeptOf(p) : x.buffered}
    BY <1>1 DEF WaitsFor, TypesInv
  <1>5. BufferOK(p)'
    <2>1. BufferOK(p)
      BY BoundsAre
    <2>2. CASE {x \in KeptOf(p) : x.buffered} = {}
      <3>1. WaitsFor(p)' = WaitsFor(p)
        BY <1>4, <2>2
      <3>2. QED
        BY <2>1, <3>1 DEF BufferOK
    <2>3. CASE {x \in KeptOf(p) : x.buffered} # {}
      <3>1. ~recording[p].decision.sending
        BY <2>3 DEF KeptOf
      <3>2. p = "tui" /\ Buffered(pending[p]) < MaxBuffered
        <4>1. KeptOf(p) = IF Buffers(p) /\ recording[p].decision.state = "not_asked" /\ Buffered(pending[p]) < MaxBuffered
                          THEN [event : recording[p].events, buffered : {~recording[p].decision.sending}] ELSE {}
          BY <3>1 DEF KeptOf
        <4>2. QED
          BY <2>3, <4>1 DEF Buffers
      <3>3. PICK e \in EventId : recording[p].events = {e}
        BY <1>1, <3>2, BoundsAre DEF OneAtATime
      <3>4. PICK k \in KeptOf(p) : k.buffered
        BY <2>3
      <3>5. {x \in KeptOf(p) : x.buffered} = {k}
        <4>1. KeptOf(p) \subseteq [event : {e}, buffered : {~recording[p].decision.sending}]
          BY <3>3 DEF KeptOf
        <4>2. \A x, y \in KeptOf(p) : x = y
          <5>1. \A x, y \in [event : {e}, buffered : {~recording[p].decision.sending}] : x.event = y.event => x = y
            BY OneOfEach
          <5>2. \A x \in [event : {e}, buffered : {~recording[p].decision.sending}] : x.event = e
            OBVIOUS
          <5>3. QED
            BY <4>1, <5>1, <5>2
        <4>3. QED
          BY <3>4, <4>2
      <3>6. /\ IsFiniteSet(WaitsFor(p)) /\ Cardinality(WaitsFor(p)) < MaxBuffered
        BY <2>1, <3>2 DEF BufferOK, Buffered, WaitsFor
      <3>7. /\ IsFiniteSet(WaitsFor(p)')
            /\ \/ Cardinality(WaitsFor(p)') = Cardinality(WaitsFor(p))
               \/ Cardinality(WaitsFor(p)') = Cardinality(WaitsFor(p)) + 1
        <4>1. IsFiniteSet(WaitsFor(p)) /\ WaitsFor(p)' = WaitsFor(p) \cup {k}
          BY <1>4, <3>5, <3>6
        <4>2. QED
          BY <4>1, FS_AddElement
      <3>8. Cardinality(WaitsFor(p)) \in Nat /\ MaxBuffered \in Nat
        BY <3>6, FS_CardinalityType DEF TelemetryAssumption
      <3>9. QED
        BY <3>6, <3>7, <3>8 DEF BufferOK
    <2>4. QED
      BY <2>2, <2>3
  <1>6. ASSUME NEW q \in Process \ {p}
        PROVE  BufferOK(q)'
    <2>1. BufferOK(q)
      BY BoundsAre
    <2>2. WaitsFor(q)' = WaitsFor(q)
      BY <1>4
    <2>3. QED
      BY <2>1, <2>2 DEF BufferOK
  <1>7. Len(queue)' <= QueueSize /\ PageOK'
    BY <1>2, BoundsAre DEF PageOK
  <1>8. QED
    BY <1>3, <1>5, <1>6, <1>7 DEF BoundsInv, BufferOK, WaitsFor, Buffered, OneAtATime, PageOK

\* The steps that keep, or empty, what waits.
LEMMA BoundsStay ==
  ASSUME BoundsInv, TelemetryAssumption,
         \A p \in Process : WaitsFor(p)' = WaitsFor(p) \/ WaitsFor(p)' = {},
         Len(queue') <= QueueSize, OneAtATime', PageOK'
  PROVE  BoundsInv'
  <1>1. \A p \in Process : BufferOK(p)'
    <2> SUFFICES ASSUME NEW p \in Process
                 PROVE  BufferOK(p)'
      OBVIOUS
    <2>1. BufferOK(p)
      BY BoundsAre
    <2>2. CASE WaitsFor(p)' = WaitsFor(p)
      BY <2>1, <2>2 DEF BufferOK
    <2>3. CASE WaitsFor(p)' = {}
      BY <2>3, EmptyIsBounded DEF BufferOK
    <2>4. QED
      BY <2>2, <2>3
  <1>2. QED
    BY <1>1 DEF BoundsInv, BufferOK, WaitsFor, Buffered, OneAtATime, PageOK

LEMMA PageBounds ==
  ASSUME TypesInv, PageOK, TelemetryAssumption,
         LoadUsage \/ Apply \/ PageTurnsOn \/ PutEnabled \/ PageTurnedOn \/ PageDrops \/ \E e \in EventId : PageRecords(e)
  PROVE  PageOK'
  <1>1. CASE page'.buffer = page.buffer
    BY <1>1 DEF PageOK
  <1>2. CASE page'.buffer = {}
    BY <1>2, EmptyIsBounded DEF PageOK
  <1>3. CASE LoadUsage \/ Apply \/ PageTurnsOn \/ PutEnabled
    <2>1. page'.buffer = page.buffer \/ page'.buffer = {}
      BY <1>3 DEF LoadUsage, Apply, Applied, PageTurnsOn, PutEnabled, TypesInv
    <2>2. QED
      BY <1>1, <1>2, <2>1
  <1>4. CASE PageTurnedOn \/ PageDrops
    <2>1. page' = NewPage \/ page' = [page EXCEPT !.buffer = {}]
          \/ page' = [page EXCEPT !.buffer = {}, !.known = "disabled"]
          \/ page' = [page EXCEPT !.known = "enabled", !.buffer = {}, !.turning = "no"]
      BY <1>4 DEF PageTurnedOn, PageDrops
    <2>2. CASE page' = NewPage
      BY <1>2, <2>2 DEF NewPage
    <2>3. CASE page' = [page EXCEPT !.buffer = {}]
      BY <1>2, <2>3 DEF TypesInv
    <2>4. CASE page' = [page EXCEPT !.buffer = {}, !.known = "disabled"]
      BY <1>2, <2>4 DEF TypesInv
    <2>5. CASE page' = [page EXCEPT !.known = "enabled", !.buffer = {}, !.turning = "no"]
      BY <1>2, <2>5 DEF TypesInv
    <2>6. QED
      BY <1>2, <2>1, <2>2, <2>3, <2>4, <2>5
  <1>5. ASSUME NEW e \in EventId, PageRecords(e)
        PROVE  PageOK'
    <2>1. \/ page'.buffer = page.buffer
          \/ page'.buffer = page.buffer \cup {e} /\ Cardinality(page.buffer) < MaxBuffered
      BY <1>5 DEF PageRecords, TypesInv
    <2>2. CASE page'.buffer = page.buffer \cup {e} /\ Cardinality(page.buffer) < MaxBuffered
      <3>1. /\ IsFiniteSet(page'.buffer)
            /\ \/ Cardinality(page'.buffer) = Cardinality(page.buffer)
               \/ Cardinality(page'.buffer) = Cardinality(page.buffer) + 1
        BY <2>2, FS_AddElement DEF PageOK
      <3>2. Cardinality(page.buffer) \in Nat /\ MaxBuffered \in Nat
        BY FS_CardinalityType DEF PageOK, TelemetryAssumption
      <3>3. QED
        BY <2>2, <3>1, <3>2 DEF PageOK
    <2>3. QED
      BY <1>1, <2>1, <2>2
  <1>6. QED
    BY <1>3, <1>4, <1>5

LEMMA TakeBounds ==
  ASSUME TypesInv, IdsInv, BoundsInv, TelemetryAssumption, NEW p \in Process, Take(p)
  PROVE  BoundsInv'
  <1>1. UNCHANGED <<recording, page>>
    BY DEF Take
  <1>2. \A q \in Process : WaitsFor(q)' = WaitsFor(q)
    <2>1. pending' = [pending EXCEPT ![p] = pending[p] \ Free(p)]
      BY TakeIs
    <2>2. QED
      BY <2>1 DEF WaitsFor, Free, TypesInv
  <1>3. Len(queue') <= QueueSize
    <2>1. queue' = queue \/ (queue' = Append(queue, BatchOf(p)) /\ Len(queue) # QueueSize)
      BY TakeIs
    <2>2. Len(queue) <= QueueSize /\ QueueSize \in Nat /\ queue \in Seq(Batch)
      BY DEF BoundsInv, TelemetryAssumption, TypesInv
    <2>3. QED
      BY <2>1, <2>2
  <1>4. OneAtATime' /\ PageOK'
    BY <1>1, BoundsAre DEF OneAtATime, PageOK
  <1>5. QED
    BY <1>2, <1>3, <1>4, BoundsStay

LEMMA ServerBounds ==
  ASSUME TypesInv, BoundsInv, TelemetryAssumption, Work \/ ServerStops \/ Post
  PROVE  BoundsInv'
  <1>1. UNCHANGED page /\ recording'["tui"] = recording["tui"]
    BY DEF Work, ServerStops, Post, TypesInv, Process
  <1>2. \A q \in Process : WaitsFor(q)' = WaitsFor(q) \/ WaitsFor(q)' = {}
    <2>1. \A q \in Process : pending'[q] = pending[q] \/ pending'[q] = {}
      BY DEF Work, ServerStops, Post, TypesInv
    <2>2. QED
      BY <2>1 DEF WaitsFor
  <1>3. Len(queue') <= QueueSize
    <2>1. queue' = queue \/ queue' = <<>> \/ (queue # <<>> /\ queue' = Tail(queue))
      BY DEF Work, ServerStops, Post
    <2>2. Len(queue) <= QueueSize /\ QueueSize \in Nat /\ queue \in Seq(Batch)
      BY DEF BoundsInv, TelemetryAssumption, TypesInv
    <2>3. QED
      BY <2>1, <2>2
  <1>4. OneAtATime' /\ PageOK'
    BY <1>1, BoundsAre DEF OneAtATime, PageOK
  <1>5. QED
    BY <1>2, <1>3, <1>4, BoundsStay

LEMMA TuiBounds ==
  ASSUME TypesInv, BoundsInv, TelemetryAssumption, Consented \/ ChooseOff \/ Later \/ Exit
  PROVE  BoundsInv'
  <1>1. UNCHANGED <<page, queue>> /\ recording'["tui"] \in {None, recording["tui"]}
    BY DEF Consented, ChooseOff, Later, Exit, TypesInv, Process
  <1>2. \A q \in Process : WaitsFor(q)' = WaitsFor(q) \/ WaitsFor(q)' = {}
    <2>1. \A q \in Process \ {"tui"} : pending'[q] = pending[q]
      BY DEF Consented, ChooseOff, Later, Exit, Discards, TypesInv, Process
    <2>2. CASE Consented
      <3>1. pending'["tui"] = [event : Events(pending["tui"]), buffered : {FALSE}]
        BY <2>2 DEF Consented, TypesInv, Process
      <3>2. WaitsFor("tui")' = {}
        <4>1. \A x \in pending'["tui"] : x.buffered = FALSE
          BY <3>1, MarkedAlike
        <4>2. QED
          BY <4>1 DEF WaitsFor
      <3>3. QED
        BY <2>1, <3>2 DEF WaitsFor
    <2>3. CASE ChooseOff \/ Later \/ Exit
      <3>1. pending'["tui"] = {}
        BY <2>3 DEF ChooseOff, Later, Exit, Discards, TypesInv, Process
      <3>2. QED
        BY <2>1, <3>1 DEF WaitsFor
    <2>4. QED
      BY <2>2, <2>3
  <1>3. OneAtATime' /\ PageOK' /\ Len(queue') <= QueueSize
    BY <1>1, BoundsAre DEF OneAtATime, PageOK
  <1>4. QED
    BY <1>2, <1>3, BoundsStay

LEMMA HappensBounds ==
  ASSUME TypesInv, BoundsInv, TelemetryAssumption, NEW e \in EventId, NEW p \in Process, Happens(e, p)
  PROVE  BoundsInv'
  <1>1. UNCHANGED <<page, queue, pending>>
    BY DEF Happens
  <1>2. OneAtATime'
    <2>1. recording' = [recording EXCEPT ![p] = [events |-> {e}, decision |-> Decide(p)]]
      BY DEF Happens
    <2>2. recording'["tui"] = recording["tui"] \/ recording'["tui"].events = {e}
      BY <2>1 DEF TypesInv, Process
    <2>3. OneAtATime
      BY BoundsAre
    <2>4. QED
      BY <2>2, <2>3 DEF OneAtATime
  <1>3. PageOK' /\ Len(queue') <= QueueSize
    BY <1>1, BoundsAre DEF PageOK
  <1>4. \A q \in Process : WaitsFor(q)' = WaitsFor(q)
    BY <1>1 DEF WaitsFor
  <1>5. QED
    BY <1>2, <1>3, <1>4, BoundsStay

LEMMA NextBounds ==
  ASSUME TypesInv, IdsInv, BoundsInv, TelemetryAssumption, [Next]_vars
  PROVE  BoundsInv'
  <1>1. CASE UNCHANGED <<pending, recording, queue>> /\ PageOK'
    <2>1. \A q \in Process : WaitsFor(q)' = WaitsFor(q)
      BY <1>1 DEF WaitsFor
    <2>2. Len(queue') <= QueueSize /\ OneAtATime'
      BY <1>1, BoundsAre DEF OneAtATime
    <2>3. QED
      BY <1>1, <2>1, <2>2, BoundsStay
  <1>2. PageOK
    BY BoundsAre
  <1>3. CASE UNCHANGED vars \/ ChooseOn \/ TurnOn \/ TurnOff \/ ChooseElsewhere
    BY <1>1, <1>2, <1>3 DEF vars, ChooseOn, TurnOn, TurnOff, ChooseElsewhere, PageOK
  <1>4. ASSUME NEW p \in Process, Keep(p) \/ FlushDecides(p) \/ Take(p) \/ Send(p)
        PROVE  BoundsInv'
    <2>1. CASE FlushDecides(p) \/ Send(p)
      BY <1>1, <1>2, <2>1 DEF FlushDecides, Send, PageOK
    <2>2. QED
      BY <1>4, <2>1, KeepBounds, TakeBounds
  <1>5. CASE LoadUsage \/ Apply \/ PageTurnsOn \/ PutEnabled \/ PageTurnedOn \/ PageDrops \/ \E e \in EventId : PageRecords(e)
    <2>1. PageOK'
      BY <1>2, <1>5, PageBounds
    <2>2. UNCHANGED <<pending, recording, queue>>
      BY <1>5 DEF LoadUsage, Apply, Applied, PageTurnsOn, PutEnabled, PageTurnedOn, PageDrops, PageRecords
    <2>3. QED
      BY <1>1, <2>1, <2>2
  <1>6. ASSUME NEW e \in EventId, Track(e) \/ Observe(e)
        PROVE  BoundsInv'
    BY <1>6, HappensBounds DEF Track, Observe, Process
  <1>7. QED
    BY <1>3, <1>4, <1>5, <1>6, ServerBounds, TuiBounds DEF Next

LEMMA InitBounds ==
  ASSUME TelemetryAssumption, Init
  PROVE  BoundsInv
  <1>1. \A p \in Process : BufferOK(p)
    <2>1. \A p \in Process : WaitsFor(p) = {}
      BY DEF Init, WaitsFor
    <2>2. QED
      BY <2>1, EmptyIsBounded DEF BufferOK
  <1>2. PageOK
    <2>1. page.buffer = {}
      BY DEF Init, NewPage
    <2>2. QED
      BY <2>1, EmptyIsBounded DEF PageOK
  <1>3. OneAtATime
    BY DEF Init, OneAtATime, Process
  <1>4. Len(queue) <= QueueSize
    BY DEF Init, TelemetryAssumption
  <1>5. QED
    BY <1>1, <1>2, <1>3, <1>4, BoundsAre

-----------------------------------------------------------------------------
(* Theorems *)

LEMMA TelemetryInvariant ==
  ASSUME TelemetryAssumption
  PROVE  Spec => []TelemetryInv
  <1>1. Init => TelemetryInv
    BY InitTypes, InitBounds, InitIds, InitEvents DEF TelemetryInv
  <1>2. TelemetryInv /\ [Next]_vars => TelemetryInv'
    BY NextTypes, NextBounds, NextIds, NextEvents DEF TelemetryInv
  <1>3. QED
    BY <1>1, <1>2, PTL DEF Spec

\* Every variable keeps its type: the terminal and the console page never
\* keep more events than their bound, and the server's queue never more
\* batches than its own (sender.go:26-31, usage.ts:6).
THEOREM TelemetryTypes ==
  ASSUME TelemetryAssumption
  PROVE  Spec => []TelemetryTypeOK
  <1>1. TelemetryInv => TelemetryTypeOK
    BY DEF TelemetryInv, TypesInv, BoundsInv, TelemetryTypeOK
  <1>2. QED
    BY <1>1, TelemetryInvariant, PTL

\* Nothing recorded before a person agreed is sent without a Turn on of the
\* same session, or after the session dropped it (sender.go:74-76).
THEOREM NothingIsSentEarly ==
  ASSUME TelemetryAssumption
  PROVE  Spec => []NothingBeforeConsent
  <1>1. TelemetryInv => NothingBeforeConsent
    <2> SUFFICES ASSUME TelemetryInv, NEW b \in sent, NEW e \in b.events, fate[e].early
                 PROVE  fate[e].released /\ ~fate[e].refused
      BY DEF NothingBeforeConsent
    <2>1. b \in Batch /\ e \in EventId
      BY DEF TelemetryInv, TypesInv, Batch
    <2>2. Leaves(e)
      BY <2>1 DEF Leaves, InFlight
    <2>3. QED
      BY <2>1, <2>2 DEF TelemetryInv, EventsInv, EventInv, Safe
  <1>2. QED
    BY <1>1, TelemetryInvariant, PTL

\* Every batch left a process that may send, under an install id that an
\* enable created (consent.go:193-219).
THEOREM SentAsAgreed ==
  ASSUME TelemetryAssumption
  PROVE  Spec => []SentByConsent
  <1>1. TelemetryInv => SentByConsent
    BY DEF TelemetryInv, TypesInv, IdsInv, InFlight, SentByConsent
  <1>2. QED
    BY <1>1, TelemetryInvariant, PTL


-----------------------------------------------------------------------------
(* The invariant *)

\* One writer: who changes the file holds home.lock or works for the server
\* that holds it, and does so alone.
OneWriter ==
    \A c \in SettingsClient : S!InHandler(c) =>
        /\ holder \in {c, Server}
        /\ \A d \in SettingsClient : S!InHandler(d) => c = d

\* What a client is about to write is the file as it is now, with its change:
\* it cannot be behind another writer.
Planned(c) ==
    IF file.kind = "junk"
    THEN settingsCommand[c].op = "disable" /\ next[c] = [S!NoFile EXCEPT !.state = "disabled"]
    ELSE next[c] \in S!Changed(file, settingsCommand[c])

UpToDate ==
    \A c \in SettingsClient :
        /\ settingsPc[c] # "idle" => settingsCommand[c] \in S!Command
        /\ settingsPc[c] = "salvage" => settingsCommand[c].op = "disable" /\ file.kind # "whole"
        /\ settingsPc[c] = "store" => Planned(c) /\ (file.kind # "whole" => file \in backups)

\* What was decided is in the file, readable or not.
Recorded ==
    /\ file.state = decided.state /\ file.server = decided.server
    /\ file.id \notin retired

SettingsInv == S!SettingsTypeOK /\ OneWriter /\ UpToDate /\ Recorded

\* The commands of a client that is not idle are what their kind says.
LEMMA CommandKinds ==
  ASSUME NEW cmd \in S!Command
  PROVE  \/ cmd.op = "set" /\ cmd.key \in Key /\ cmd.value \in {0, 1}
         \/ cmd.op = "enable" /\ cmd.confirmed \in BOOLEAN
         \/ cmd.op = "disable"
  BY DEF S!Command, S!ConfigSet, S!TelemetryEnable, S!TelemetryDisable

LEMMA NoFileTypes == S!NoFile \in S!File /\ [S!NoFile EXCEPT !.state = "disabled"] \in S!File
  BY DEF S!NoFile, S!File, S!Default, S!Values, S!State

\* A changed file is a file, and differs from the one that was read in what
\* was asked only.
LEMMA ChangedIs ==
  ASSUME S!SettingsAssumption, NEW f \in S!File, NEW cmd \in S!Command, NEW g \in S!Changed(f, cmd)
  PROVE  /\ g \in S!File /\ g.kind = f.kind
         /\ cmd.op = "set" => /\ g.server = [f.server EXCEPT ![cmd.key] = cmd.value]
                              /\ g.state = f.state /\ g.id = f.id
         /\ cmd.op = "enable" => /\ g.server = f.server /\ g.state = "enabled"
                                 /\ g.id \in SettingsId \ retired
         /\ cmd.op = "disable" => /\ g.server = f.server /\ g.state = "disabled"
                                  /\ g.id = None
  <1>1. CASE cmd.op = "set"
    <2>1. g = [f EXCEPT !.server[cmd.key] = cmd.value] /\ cmd.key \in Key /\ cmd.value \in {0, 1}
      BY <1>1, CommandKinds DEF S!Changed
    <2>2. QED
      BY <1>1, <2>1 DEF S!File, S!Values
  <1>2. CASE cmd.op = "enable"
    <2>1. PICK id \in SettingsId \ (retired \cup {f.id}) : g = [f EXCEPT !.state = "enabled", !.id = id]
      BY <1>2 DEF S!Changed
    <2>2. QED
      BY <1>2, <2>1 DEF S!File, S!State
  <1>3. CASE cmd.op = "disable"
    <2>1. g = [f EXCEPT !.state = "disabled", !.id = None]
      BY <1>3 DEF S!Changed
    <2>2. QED
      BY <1>3, <2>1 DEF S!File, S!State
  <1>4. QED
    BY <1>1, <1>2, <1>3, CommandKinds

\* A planned change stays up to date while the file and its client rest.
LEMMA PlannedStays ==
  ASSUME NEW c, Planned(c), UNCHANGED <<file, retired>>,
         settingsCommand'[c] = settingsCommand[c], next'[c] = next[c]
  PROVE  Planned(c)'
  <1>1. S!Changed(file, settingsCommand[c])' = S!Changed(file, settingsCommand[c])
    BY DEF S!Changed
  <1>2. QED
    BY <1>1 DEF Planned

-----------------------------------------------------------------------------
(* Steps that leave the file alone *)

\* An answer, an error or a death frees what the client held, and disturbs
\* nobody else.
LEMMA ReturnsKeeps ==
  ASSUME S!SettingsAssumption, SettingsInv, NEW c \in SettingsClient, S!Returns(c),
         UNCHANGED <<file, backups, decided, retired, settingsRan, edited>>
  PROVE  SettingsInv'
  <1>1. S!SettingsTypeOK'
    BY DEF SettingsInv, S!SettingsTypeOK, S!Returns, S!Goes
  <1>2. \A d \in SettingsClient : d # c => /\ settingsPc'[d] = settingsPc[d] /\ settingsCommand'[d] = settingsCommand[d]
                                           /\ next'[d] = next[d]
    BY DEF SettingsInv, S!SettingsTypeOK, S!Returns, S!Goes
  <1>3. settingsPc'[c] = "idle"
    BY DEF SettingsInv, S!SettingsTypeOK, S!Returns, S!Goes
  <1>4. OneWriter'
    <2> SUFFICES ASSUME NEW d \in SettingsClient, S!InHandler(d)'
                 PROVE  holder' \in {d, Server} /\ \A e \in SettingsClient : S!InHandler(e)' => d = e
      BY DEF OneWriter
    <2>1. d # c /\ S!InHandler(d)
      BY <1>2, <1>3 DEF S!InHandler
    <2>2. holder \in {d, Server} /\ holder # c
      BY <2>1 DEF SettingsInv, OneWriter, S!SettingsAssumption
    <2>3. QED
      BY <1>2, <1>3, <2>1, <2>2 DEF SettingsInv, OneWriter, S!Returns, S!InHandler
  <1>5. UpToDate'
    BY <1>2, <1>3, PlannedStays DEF SettingsInv, UpToDate
  <1>6. Recorded'
    BY DEF SettingsInv, Recorded
  <1>7. QED
    BY <1>1, <1>4, <1>5, <1>6 DEF SettingsInv

\* A client that takes up a command or looks for the server is not a writer.
LEMMA OutsideKeeps ==
  ASSUME S!SettingsAssumption, SettingsInv, NEW c \in SettingsClient,
         NEW step \in {"inspect", "lock", "handle"}, S!Goes(c, step), ~S!InHandler(c),
         S!SettingsTypeOK', settingsCommand'[c] \in S!Command,
         \A d \in SettingsClient : d # c => settingsCommand'[d] = settingsCommand[d],
         UNCHANGED <<file, backups, holder, next, decided, retired>>
  PROVE  SettingsInv'
  <1>1. /\ settingsPc'[c] = step
        /\ \A d \in SettingsClient : d # c => settingsPc'[d] = settingsPc[d]
    BY DEF SettingsInv, S!SettingsTypeOK, S!Goes
  <1>2. OneWriter'
    BY <1>1 DEF SettingsInv, OneWriter, S!InHandler
  <1>3. UpToDate'
    BY <1>1, PlannedStays DEF SettingsInv, UpToDate
  <1>4. Recorded'
    BY DEF SettingsInv, Recorded
  <1>5. QED
    BY <1>2, <1>3, <1>4 DEF SettingsInv

\* A client enters the handler when nobody is in it.
LEMMA EnterKeeps ==
  ASSUME S!SettingsAssumption, SettingsInv, NEW c \in SettingsClient, S!Goes(c, "load"),
         settingsPc[c] \in {"lock", "handle"}, \A d \in SettingsClient : ~S!InHandler(d),
         holder' \in {c, Server},
         UNCHANGED <<file, backups, settingsCommand, attempt, next, decided, retired, settingsRan, edited>>
  PROVE  SettingsInv'
  <1>1. /\ settingsPc'[c] = "load"
        /\ \A d \in SettingsClient : d # c => settingsPc'[d] = settingsPc[d]
    BY DEF SettingsInv, S!SettingsTypeOK, S!Goes
  <1>2. S!SettingsTypeOK'
    BY DEF SettingsInv, S!SettingsTypeOK, S!Goes
  <1>3. OneWriter'
    BY <1>1 DEF OneWriter, S!InHandler
  <1>4. UpToDate'
    BY <1>1, PlannedStays DEF SettingsInv, UpToDate
  <1>5. Recorded'
    BY DEF SettingsInv, Recorded
  <1>6. QED
    BY <1>2, <1>3, <1>4, <1>5 DEF SettingsInv

LEMMA BeginKeeps ==
  ASSUME S!SettingsAssumption, SettingsInv, NEW c \in SettingsClient, S!Begin(c)
  PROVE  SettingsInv'
  <1>1. PICK cmd \in S!Command : settingsCommand' = [settingsCommand EXCEPT ![c] = cmd]
    BY DEF S!Begin
  <1>2. S!SettingsTypeOK'
    BY <1>1 DEF SettingsInv, S!SettingsTypeOK, S!Begin, S!Goes, S!SettingsAssumption
  <1>3. ~S!InHandler(c)
    BY DEF S!Begin, S!InHandler
  <1>4. settingsCommand'[c] \in S!Command /\ \A d \in SettingsClient : d # c => settingsCommand'[d] = settingsCommand[d]
    BY <1>1 DEF SettingsInv, S!SettingsTypeOK
  <1>5. S!Goes(c, "handle") \/ S!Goes(c, "inspect")
    BY DEF S!Begin
  <1>6. QED
    BY <1>2, <1>3, <1>4, <1>5, OutsideKeeps DEF S!Begin

LEMMA InspectKeeps ==
  ASSUME S!SettingsAssumption, SettingsInv, NEW c \in SettingsClient, S!Inspect(c)
  PROVE  SettingsInv'
  <1>1. S!SettingsTypeOK'
    BY DEF SettingsInv, S!SettingsTypeOK, S!Inspect, S!Goes
  <1>2. ~S!InHandler(c) /\ settingsCommand'[c] \in S!Command
    BY DEF S!Inspect, S!InHandler, SettingsInv, UpToDate
  <1>3. S!Goes(c, "handle") \/ S!Goes(c, "lock")
    BY DEF S!Inspect
  <1>4. QED
    BY <1>1, <1>2, <1>3, OutsideKeeps DEF S!Inspect

LEMMA LockKeeps ==
  ASSUME S!SettingsAssumption, SettingsInv, NEW c \in SettingsClient, S!Lock(c)
  PROVE  SettingsInv'
  <1>1. CASE holder = None /\ holder' = c /\ S!Goes(c, "load") /\ UNCHANGED <<settingsCommand, attempt, next>>
    <2>1. \A d \in SettingsClient : ~S!InHandler(d)
      BY <1>1 DEF SettingsInv, OneWriter, S!SettingsAssumption
    <2>2. QED
      BY <1>1, <2>1, EnterKeeps DEF S!Lock
  <1>2. CASE /\ attempt' = [attempt EXCEPT ![c] = 1] /\ S!Goes(c, "inspect")
             /\ UNCHANGED <<holder, settingsCommand, next>>
    <2>1. S!SettingsTypeOK'
      BY <1>2 DEF SettingsInv, S!SettingsTypeOK, S!Lock, S!Goes
    <2>2. ~S!InHandler(c) /\ settingsCommand'[c] \in S!Command
      BY <1>2 DEF S!Lock, S!InHandler, SettingsInv, UpToDate
    <2>3. QED
      BY <1>2, <2>1, <2>2, OutsideKeeps DEF S!Lock
  <1>3. CASE S!Returns(c)
    BY <1>3, ReturnsKeeps DEF S!Lock
  <1>4. QED
    BY <1>1, <1>2, <1>3 DEF S!Lock

LEMMA HandleKeeps ==
  ASSUME S!SettingsAssumption, ~Concurrent, SettingsInv, NEW c \in SettingsClient, S!Handle(c)
  PROVE  SettingsInv'
  <1>1. CASE ~S!Running \/ S!Forbidden(c)
    BY <1>1, ReturnsKeeps DEF S!Handle
  <1>2. CASE ~(~S!Running \/ S!Forbidden(c))
    BY <1>2, EnterKeeps DEF S!Handle, S!Running
  <1>3. QED
    BY <1>1, <1>2

-----------------------------------------------------------------------------
(* A change *)

LEMMA LoadKeeps ==
  ASSUME S!SettingsAssumption, SettingsInv, NEW c \in SettingsClient, S!Load(c)
  PROVE  SettingsInv'
  <1> DEFINE cmd == settingsCommand[c]
  <1>1. cmd \in S!Command /\ file \in S!File /\ settingsPc[c] = "load" /\ S!InHandler(c)
    BY DEF S!Load, S!InHandler, SettingsInv, UpToDate, S!SettingsTypeOK
  <1>2. UNCHANGED <<file, backups, decided, retired, settingsRan, edited>>
    BY DEF S!Load
  <1>3. \/ S!Returns(c)
        \/ /\ file.kind # "whole" /\ cmd.op = "disable"
           /\ S!Goes(c, "salvage") /\ UNCHANGED <<holder, settingsCommand, attempt, next>>
        \/ /\ file.kind = "whole"
           /\ \E f \in S!Changed(file, cmd) : next' = [next EXCEPT ![c] = f]
           /\ S!Goes(c, "store")
           /\ UNCHANGED <<holder, settingsCommand, attempt>>
    BY <1>1, CommandKinds DEF S!Load
  <1>4. CASE S!Returns(c)
    BY <1>2, <1>4, ReturnsKeeps
  <1>5. CASE /\ file.kind # "whole" /\ cmd.op = "disable"
             /\ S!Goes(c, "salvage") /\ UNCHANGED <<holder, settingsCommand, attempt, next>>
    <2>1. settingsPc'[c] = "salvage" /\ \A d \in SettingsClient : d # c => settingsPc'[d] = settingsPc[d]
      BY <1>5 DEF SettingsInv, S!SettingsTypeOK, S!Goes
    <2>2. S!SettingsTypeOK'
      BY <1>2, <1>5 DEF SettingsInv, S!SettingsTypeOK, S!Goes
    <2>3. OneWriter'
      BY <1>1, <1>5, <2>1 DEF SettingsInv, OneWriter, S!InHandler
    <2>4. UpToDate'
      BY <1>1, <1>2, <1>5, <2>1, PlannedStays DEF SettingsInv, UpToDate
    <2>5. QED
      BY <1>2, <2>2, <2>3, <2>4 DEF SettingsInv, Recorded
  <1>6. CASE /\ file.kind = "whole"
             /\ \E f \in S!Changed(file, cmd) : next' = [next EXCEPT ![c] = f]
             /\ S!Goes(c, "store")
             /\ UNCHANGED <<holder, settingsCommand, attempt>>
    <2>1. settingsPc'[c] = "store" /\ \A d \in SettingsClient : d # c => settingsPc'[d] = settingsPc[d]
      BY <1>6 DEF SettingsInv, S!SettingsTypeOK, S!Goes
    <2>2. PICK f \in S!Changed(file, cmd) : next' = [next EXCEPT ![c] = f]
      BY <1>6
    <2>3. f \in S!File
      BY <1>1, ChangedIs
    <2>4. next'[c] = f /\ \A d \in SettingsClient : d # c => next'[d] = next[d]
      BY <2>2 DEF SettingsInv, S!SettingsTypeOK
    <2>5. S!SettingsTypeOK'
      BY <1>2, <1>6, <2>2, <2>3 DEF SettingsInv, S!SettingsTypeOK, S!Goes
    <2>6. OneWriter'
      BY <1>1, <1>6, <2>1 DEF SettingsInv, OneWriter, S!InHandler
    <2>7. Planned(c)'
      <3>1. S!Changed(file, cmd)' = S!Changed(file, cmd)
        BY <1>2, <1>6 DEF S!Changed
      <3>2. QED
        BY <1>2, <1>6, <2>4, <3>1 DEF Planned
    <2>8. UpToDate'
      BY <1>1, <1>2, <1>6, <2>1, <2>4, <2>7, PlannedStays DEF SettingsInv, UpToDate
    <2>9. QED
      BY <1>2, <2>5, <2>6, <2>8 DEF SettingsInv, Recorded
  <1>7. QED
    BY <1>3, <1>4, <1>5, <1>6

LEMMA SalvageKeeps ==
  ASSUME S!SettingsAssumption, SettingsInv, NEW c \in SettingsClient, S!Salvage(c)
  PROVE  SettingsInv'
  <1>1. /\ settingsCommand[c] \in S!Command /\ settingsCommand[c].op = "disable"
        /\ file \in S!File /\ file.kind # "whole" /\ S!InHandler(c)
    BY DEF S!Salvage, S!InHandler, SettingsInv, UpToDate, S!SettingsTypeOK
  <1>2. UNCHANGED <<file, decided, retired, settingsRan, edited>>
    BY DEF S!Salvage
  <1>3. CASE S!Returns(c) /\ UNCHANGED backups
    BY <1>2, <1>3, ReturnsKeeps
  <1>4. CASE /\ backups' = backups \cup {file}
             /\ next' = [next EXCEPT ![c] =
                  IF file.kind = "junk" THEN [S!NoFile EXCEPT !.state = "disabled"]
                  ELSE [file EXCEPT !.state = "disabled", !.id = None]]
             /\ S!Goes(c, "store")
             /\ UNCHANGED <<holder, settingsCommand, attempt>>
    <2> DEFINE f == IF file.kind = "junk" THEN [S!NoFile EXCEPT !.state = "disabled"]
                    ELSE [file EXCEPT !.state = "disabled", !.id = None]
    <2>1. settingsPc'[c] = "store" /\ \A d \in SettingsClient : d # c => settingsPc'[d] = settingsPc[d]
      BY <1>4 DEF SettingsInv, S!SettingsTypeOK, S!Goes
    <2>2. f \in S!File
      BY <1>1, NoFileTypes DEF S!File, S!State
    <2>3. next'[c] = f /\ \A d \in SettingsClient : d # c => next'[d] = next[d]
      BY <1>4 DEF SettingsInv, S!SettingsTypeOK
    <2>4. S!SettingsTypeOK'
      BY <1>1, <1>2, <1>4, <2>2 DEF SettingsInv, S!SettingsTypeOK, S!Goes
    <2>5. OneWriter'
      BY <1>1, <1>4, <2>1 DEF SettingsInv, OneWriter, S!InHandler
    <2>6. Planned(c)'
      BY <1>1, <1>2, <1>4, <2>3 DEF Planned, S!Changed
    <2>7. \A d \in SettingsClient : d # c => ~S!InHandler(d)
      BY <1>1 DEF SettingsInv, OneWriter
    <2>8. UpToDate'
      BY <1>1, <1>2, <1>4, <2>1, <2>6, <2>7 DEF SettingsInv, UpToDate, S!InHandler
    <2>9. QED
      BY <1>2, <2>4, <2>5, <2>8 DEF SettingsInv, Recorded
  <1>5. QED
    BY <1>3, <1>4 DEF S!Salvage

\* The write leaves in the file what was decided: it holds the change, and all
\* that was there before.
LEMMA WriteRecords ==
  ASSUME S!SettingsAssumption, SettingsInv, NEW c \in SettingsClient, S!Store(c),
         ~UNCHANGED <<file, decided, retired>>
  PROVE  /\ Recorded'
         /\ file' \in S!File
         /\ decided' \in [state : S!State, server : S!Values]
         /\ retired' \subseteq SettingsId
  <1> DEFINE cmd == settingsCommand[c]
  <1>1. cmd \in S!Command /\ Planned(c) /\ file \in S!File /\ file' = next[c]
    BY DEF S!Store, SettingsInv, UpToDate, S!SettingsTypeOK
  <1>2. Recorded /\ decided \in [state : S!State, server : S!Values] /\ retired \subseteq SettingsId
    BY DEF SettingsInv, S!SettingsTypeOK
  <1>3. CASE file.kind = "junk"
    <2>1. cmd.op = "disable" /\ file' = [S!NoFile EXCEPT !.state = "disabled"]
      BY <1>1, <1>3 DEF Planned
    <2>2. decided' = [state |-> "disabled", server |-> S!Default]
      BY <1>3, <2>1 DEF S!Store
    <2>3. retired' = retired \cup ({file.id} \ {None}) /\ None \notin retired'
      BY <1>2, <2>1 DEF S!Store, S!SettingsAssumption
    <2>4. QED
      BY <1>1, <1>2, <2>1, <2>2, <2>3, NoFileTypes DEF Recorded, S!NoFile, S!File, S!State, S!Values, S!Default
  <1>4. CASE file.kind # "junk"
    <2>1. file' \in S!Changed(file, cmd)
      BY <1>1, <1>4 DEF Planned
    <2>2. CASE cmd.op = "set"
      <3>1. decided' = [decided EXCEPT !.server[cmd.key] = cmd.value] /\ retired' = retired
        BY <2>2 DEF S!Store
      <3>2. cmd.key \in Key /\ cmd.value \in {0, 1}
        BY <1>1, <2>2, CommandKinds
      <3>3. decided' \in [state : S!State, server : S!Values]
        BY <1>2, <3>1, <3>2 DEF S!Values
      <3>4. decided'.state = decided.state /\ decided'.server = [decided.server EXCEPT ![cmd.key] = cmd.value]
        BY <1>2, <3>1
      <3>5. QED
        BY <1>1, <1>2, <2>1, <2>2, <3>1, <3>3, <3>4, ChangedIs DEF Recorded
    <2>3. CASE cmd.op = "enable"
      <3>1. decided' = [decided EXCEPT !.state = "enabled"] /\ retired' = retired
        BY <2>3 DEF S!Store
      <3>2. decided' \in [state : S!State, server : S!Values]
        BY <1>2, <3>1 DEF S!State
      <3>3. decided'.state = "enabled" /\ decided'.server = decided.server
        BY <1>2, <3>1
      <3>4. /\ file' \in S!File /\ file'.server = file.server /\ file'.state = "enabled"
            /\ file'.id \in SettingsId \ retired
        BY <1>1, <2>1, <2>3, ChangedIs
      <3>5. QED
        BY <1>2, <3>1, <3>2, <3>3, <3>4 DEF Recorded
    <2>4. CASE cmd.op = "disable"
      <3>1. decided' = [state |-> "disabled", server |-> decided.server]
        BY <1>4, <2>4 DEF S!Store
      <3>2. retired' = retired \cup ({file.id} \ {None}) /\ None \notin retired'
        BY <1>2, <2>4 DEF S!Store, S!SettingsAssumption
      <3>3. retired' \subseteq SettingsId
        BY <1>1, <1>2, <3>2 DEF S!File
      <3>4. /\ file' \in S!File /\ file'.server = file.server /\ file'.state = "disabled"
            /\ file'.id = None
        <4>1. file' = [file EXCEPT !.state = "disabled", !.id = None]
          BY <2>1, <2>4 DEF S!Changed
        <4>2. QED
          BY <1>1, <4>1 DEF S!File, S!State
      <3>5. QED
        BY <1>2, <3>1, <3>2, <3>3, <3>4 DEF Recorded, S!State
    <2>5. QED
      BY <1>1, <2>2, <2>3, <2>4, CommandKinds
  <1>5. QED
    BY <1>3, <1>4

LEMMA StoreKeeps ==
  ASSUME S!SettingsAssumption, SettingsInv, NEW c \in SettingsClient, S!Store(c)
  PROVE  SettingsInv'
  <1>1. settingsPc[c] = "store" /\ S!InHandler(c) /\ S!Returns(c) /\ UNCHANGED <<backups, settingsRan, edited>>
    BY DEF S!Store, S!InHandler
  <1>2. CASE UNCHANGED <<file, decided, retired>>
    BY <1>1, <1>2, ReturnsKeeps
  <1>3. CASE ~UNCHANGED <<file, decided, retired>>
    <2>1. /\ Recorded'
          /\ file' \in S!File
          /\ decided' \in [state : S!State, server : S!Values]
          /\ retired' \subseteq SettingsId
      BY <1>3, WriteRecords
    <2>2. S!SettingsTypeOK'
      BY <1>1, <2>1 DEF SettingsInv, S!SettingsTypeOK, S!Returns, S!Goes
    <2>3. \A d \in SettingsClient : ~S!InHandler(d)'
      BY <1>1 DEF SettingsInv, OneWriter, S!SettingsTypeOK, S!Returns, S!Goes, S!InHandler
    <2>4. \A d \in SettingsClient : settingsPc'[d] # "idle" => settingsPc'[d] = settingsPc[d] /\ settingsCommand'[d] = settingsCommand[d]
      BY <1>1 DEF SettingsInv, S!SettingsTypeOK, S!Returns, S!Goes
    <2>5. UpToDate'
      BY <2>3, <2>4 DEF SettingsInv, UpToDate, S!InHandler
    <2>6. QED
      BY <2>1, <2>2, <2>3, <2>5 DEF SettingsInv, OneWriter
  <1>4. QED
    BY <1>2, <1>3

-----------------------------------------------------------------------------
(* Processes and people *)

LEMMA StopKeeps ==
  ASSUME S!SettingsAssumption, SettingsInv, S!Stop
  PROVE  SettingsInv'
  <1>1. S!SettingsTypeOK'
    BY DEF SettingsInv, S!SettingsTypeOK, S!Stop
  <1>2. \A d \in SettingsClient : ~S!InHandler(d)'
    BY DEF SettingsInv, S!SettingsTypeOK, S!Stop, S!InHandler
  <1>3. \A d \in SettingsClient : settingsPc'[d] # "idle" => settingsPc'[d] = settingsPc[d] /\ settingsCommand'[d] = settingsCommand[d]
    BY DEF SettingsInv, S!SettingsTypeOK, S!Stop
  <1>4. UpToDate'
    BY <1>2, <1>3 DEF SettingsInv, UpToDate, S!InHandler
  <1>5. QED
    BY <1>1, <1>2, <1>4 DEF SettingsInv, OneWriter, S!Stop, Recorded

LEMMA EditKeeps ==
  ASSUME S!SettingsAssumption, SettingsInv, S!EditByHand
  PROVE  SettingsInv'
  <1>1. PICK kind \in {"whole", "values", "junk"} \ {file.kind} : file' = [file EXCEPT !.kind = kind]
    BY DEF S!EditByHand
  <1>2. file' \in S!File /\ file'.state = file.state /\ file'.server = file.server /\ file'.id = file.id
    BY <1>1 DEF SettingsInv, S!SettingsTypeOK, S!File
  <1>3. S!SettingsTypeOK'
    BY <1>2 DEF SettingsInv, S!SettingsTypeOK, S!EditByHand, S!clientVars, S!SettingsAssumption
  <1>4. OneWriter' /\ UpToDate'
    BY DEF S!EditByHand, S!clientVars, SettingsInv, OneWriter, UpToDate, S!InHandler
  <1>5. QED
    BY <1>2, <1>3, <1>4 DEF SettingsInv, Recorded, S!EditByHand

LEMMA StartKeeps ==
  ASSUME S!SettingsAssumption, SettingsInv, S!Start
  PROVE  SettingsInv'
  BY DEF S!Start, S!clientVars, SettingsInv, S!SettingsTypeOK, OneWriter, UpToDate, Planned, S!Changed,
         Recorded, S!InHandler, S!SettingsAssumption

-----------------------------------------------------------------------------
(* The theorems *)

LEMMA InitSettings ==
  ASSUME S!SettingsAssumption, S!Init
  PROVE  SettingsInv
  <1>1. S!SettingsTypeOK
    BY NoFileTypes DEF S!SettingsAssumption, S!Init, S!SettingsTypeOK, S!State, S!Values, S!Default
  <1>2. QED
    BY <1>1 DEF S!Init, SettingsInv, OneWriter, UpToDate, Recorded, S!InHandler, S!NoFile

LEMMA NextSettings ==
  ASSUME S!SettingsAssumption, ~Concurrent, SettingsInv, [S!Next]_(S!vars)
  PROVE  SettingsInv'
  <1>1. ASSUME NEW c \in SettingsClient,
               \/ S!Begin(c) \/ S!Inspect(c) \/ S!Lock(c) \/ S!Handle(c)
               \/ S!Load(c) \/ S!Salvage(c) \/ S!Store(c)
        PROVE  SettingsInv'
    BY <1>1, BeginKeeps, InspectKeeps, LockKeeps, HandleKeeps, LoadKeeps, SalvageKeeps, StoreKeeps
  <1>2. ASSUME NEW c \in SettingsClient, S!Die(c)
        PROVE  SettingsInv'
    BY <1>2, ReturnsKeeps DEF S!Die
  <1>3. CASE UNCHANGED S!vars
    <2>1. S!SettingsTypeOK' /\ OneWriter' /\ Recorded'
      BY <1>3 DEF S!vars, S!clientVars, SettingsInv, S!SettingsTypeOK, OneWriter, Recorded, S!InHandler
    <2>2. UpToDate'
      BY <1>3, PlannedStays DEF S!vars, S!clientVars, SettingsInv, UpToDate
    <2>3. QED
      BY <2>1, <2>2 DEF SettingsInv
  <1>4. QED
    BY <1>1, <1>2, <1>3, StartKeeps, StopKeeps, EditKeeps DEF S!Next

LEMMA SettingsInvariant ==
  ASSUME S!SettingsAssumption, ~Concurrent
  PROVE  S!Spec => []SettingsInv
  <1>1. S!Init => SettingsInv
    BY InitSettings
  <1>2. SettingsInv /\ [S!Next]_(S!vars) => SettingsInv'
    BY NextSettings
  <1>3. QED
    BY <1>1, <1>2, PTL DEF S!Spec

\* The variables keep their types.
THEOREM SettingsTypes ==
  ASSUME S!SettingsAssumption, ~Concurrent
  PROVE  S!Spec => []S!SettingsTypeOK
  <1>1. SettingsInv => S!SettingsTypeOK
    BY DEF SettingsInv
  <1>2. QED
    BY <1>1, SettingsInvariant, PTL

\* What people decided and set stays so until they say otherwise, whatever
\* the order of the writers: no later change of another setting brings back
\* an older one (config.go:117-120, the home's single writer).
THEOREM DecisionsStay ==
  ASSUME S!SettingsAssumption, ~Concurrent
  PROVE  S!Spec => []S!DecisionsLast
  <1>1. SettingsInv => S!DecisionsLast
    BY DEF SettingsInv, Recorded, S!DecisionsLast
  <1>2. QED
    BY <1>1, SettingsInvariant, PTL

\* Telemetry that was turned off stays off and its install id does not come
\* back (telemetry.go:32-35), when changes come one at a time.
THEOREM DisabledTelemetryStays ==
  ASSUME S!SettingsAssumption, ~Concurrent
  PROVE  S!Spec => []S!DisabledStays
  <1>1. SettingsInv => S!DisabledStays
    BY DEF SettingsInv, Recorded, S!DisabledStays
  <1>2. QED
    BY <1>1, SettingsInvariant, PTL

\* A file that cannot be read is only ever replaced after it was copied
\* (telemetry.go:37-40).
THEOREM UnreadableStays ==
  ASSUME S!SettingsAssumption, ~Concurrent
  PROVE  S!Spec => S!UnreadableIsKept
  <1>1. ASSUME SettingsInv, [S!Next]_(S!vars), file' # file, file.kind # "whole",
               NEW c \in SettingsClient, settingsPc[c] = "store"
        PROVE  file \in backups
    BY <1>1 DEF SettingsInv, UpToDate
  <1>2. SettingsInv /\ [S!Next]_(S!vars) =>
          [file' # file /\ file.kind # "whole" /\ (\E c \in SettingsClient : settingsPc[c] = "store")
           => file \in backups]_(S!vars)
    BY <1>1
  <1>3. QED
    BY <1>2, SettingsInvariant, PTL DEF S!Spec, S!UnreadableIsKept

-----------------------------------------------------------------------------
(* Decisions in the home as the runs put it together *)

LEMMA HomeRunsSettings == HomeSpec => S!Spec
  <1>1. HomeInit => S!Init
    BY Zenon DEF HomeInit
  <1>2. [HomeNext]_<<contextsVars, settingsVars, vars, storageVars, part>> => [S!Next]_(S!vars)
    BY DEF HomeNext, settingsVars, S!vars, S!clientVars
  <1>3. QED
    BY <1>1, <1>2, PTL DEF HomeSpec, S!Spec

LEMMA HomeRunsTelemetry == HomeSpec => Spec
  <1>1. HomeInit => Init
    BY Zenon DEF HomeInit
  <1>2. [HomeNext]_<<contextsVars, settingsVars, vars, storageVars, part>> => [Next]_vars
    BY DEF HomeNext
  <1>3. QED
    BY <1>1, <1>2, PTL DEF HomeSpec, Spec

\* What people decided and set stays so, and what is sent is sent by a process
\* that may send and under an id that an enable made (config.go:117-120,
\* consent.go:193-219).
THEOREM HomeDecisionsHold ==
  ASSUME ~Concurrent
  PROVE  HomeSpec => []DecisionsHold
  <1>1. S!DecisionsLast /\ SentByConsent => DecisionsHold
    BY DEF DecisionsHold
  <1>2. S!SettingsAssumption /\ TelemetryAssumption
    BY HomeAssumption
  <1>3. QED
    BY <1>1, <1>2, HomeRunsSettings, HomeRunsTelemetry, DecisionsStay, SentAsAgreed, PTL

-----------------------------------------------------------------------------
(* The invariants *)

Removal == [step : {"idle", "unmount", "look", "unlink"}, id : Id \cup {None}, files : Seq(X!File)]

FilesTypes ==
    /\ ids \subseteq Id
    /\ stored \in [X!File -> X!Stored \cup {None, Junk}]
    /\ pc \in [Client -> {"idle", "ask", "resolve", "put", "apply"}]
    /\ listed \in [Client -> SUBSET Id]
    /\ change = [c \in Client |-> change[c]]
    /\ \A c \in Client : change[c].path \in Path /\ change[c].scope \in {"project", "global"}
    /\ remover \in Removal /\ (remover.step = "unlink" => remover.files # <<>>)

\* Ids are told apart ignoring case, a removal and a command do not overlap,
\* and what a command is about to store was registered after any removal.
SerialInv ==
    /\ \A a, b \in ids : Fold[a] = Fold[b] => a = b
    /\ remover.step # "idle" => \A c \in Client : pc[c] = "idle"
    /\ \A c \in Client : pc[c] = "apply" => listed[c] \subseteq ids

\* No database of the id being removed is registered, and the file about to
\* be unlinked names it.
RemovingInv ==
    /\ remover.step # "idle" =>
          /\ remover.id \in Id
          /\ \A k \in ids : Fold[k] # Fold[remover.id]
    /\ remover.step = "unlink" =>
          LET f == Head(remover.files) IN
          /\ stored[f] \in X!Stored
          /\ Fold[stored[f].database] = Fold[remover.id]

\* A context of a database that is gone waits for the removal to look at it.
LeftInv ==
    \A f \in X!File : stored[f] \in X!Stored /\ stored[f].database \notin ids =>
        /\ remover.step # "idle" /\ stored[f].database = remover.id
        /\ remover.step # "unmount" => \E i \in 1 .. Len(remover.files) : remover.files[i] = f

-----------------------------------------------------------------------------
(* Operators *)

\* What an instance takes of the library is the library's.
LEMMA InstanceOfLibrary ==
  ASSUME NEW T
  PROVE  /\ X!Cardinality(T) = Cardinality(T)
         /\ X!IsFiniteSet(T) <=> IsFiniteSet(T)
         /\ X!IsInjective(T) <=> IsInjective(T)
  <1>1. X!Cardinality(T) = Cardinality(T)
    BY Zenon DEF X!Cardinality, Cardinality
  <1>2. X!IsFiniteSet(T) <=> IsFiniteSet(T)
    BY Zenon DEF X!IsFiniteSet, IsFiniteSet
  <1>3. X!IsInjective(T) <=> IsInjective(T)
    BY Zenon DEF X!IsInjective, IsInjective
  <1>4. QED
    BY <1>1, <1>2, <1>3

\* The sequence of a finite set has its elements.
LEMMA SetToSeqHasAll ==
  ASSUME NEW T, IsFiniteSet(T)
  PROVE  /\ X!SetToSeq(T) \in Seq(T)
         /\ \A x \in T : \E i \in 1 .. Len(X!SetToSeq(T)) : X!SetToSeq(T)[i] = x
  <1> DEFINE n == Cardinality(T)
  <1>1. n \in Nat /\ ExistsBijection(1 .. n, T)
    BY FS_CardinalityType
  <1>2. \E f \in [1 .. n -> T] : IsInjective(f)
    BY <1>1 DEF ExistsBijection, Bijection, Injection
  <1>3. X!SetToSeq(T) \in [1 .. n -> T] /\ IsInjective(X!SetToSeq(T))
    <2>1. /\ X!SetToSeq(T) = CHOOSE f \in [1 .. X!Cardinality(T) -> T] : X!IsInjective(f)
          /\ X!Cardinality(T) = n /\ \A f : X!IsInjective(f) <=> IsInjective(f)
      BY InstanceOfLibrary DEF X!SetToSeq
    <2>2. \E f \in [1 .. X!Cardinality(T) -> T] : X!IsInjective(f)
      BY <1>2, <2>1
    <2>3. X!SetToSeq(T) \in [1 .. X!Cardinality(T) -> T] /\ X!IsInjective(X!SetToSeq(T))
      BY <2>1, <2>2
    <2>4. QED
      BY <2>1, <2>3
  <1>4. X!SetToSeq(T) \in Injection(1 .. n, T)
    BY <1>3 DEF Injection
  <1>5. Cardinality(1 .. n) = n
    BY <1>1, FS_Interval
  <1>6. X!SetToSeq(T) \in Surjection(1 .. n, T)
    BY <1>1, <1>4, <1>5, FS_Injection
  <1>7. Len(X!SetToSeq(T)) = n /\ X!SetToSeq(T) \in Seq(T)
    BY <1>1, <1>3
  <1>8. QED
    BY <1>6, <1>7 DEF Surjection

\* Registered finds one of the ids it is given, or none.
LEMMA RegisteredIs ==
  ASSUME NEW known, NEW id, X!Registered(known, id) # None
  PROVE  X!Registered(known, id) \in known
  <1> DEFINE folded == {k \in known : Fold[k] = Fold[id]}
  <1>1. CASE id \in known
    BY <1>1 DEF X!Registered
  <1>2. CASE id \notin known
    <2>1. Cardinality(folded) = 1
      BY <1>2, InstanceOfLibrary DEF X!Registered
    <2>2. folded # {}
      BY <2>1, FS_EmptySet
    <2>3. X!Registered(known, id) = CHOOSE k \in folded : TRUE
      BY <1>2, <2>1, InstanceOfLibrary DEF X!Registered
    <2>4. QED
      BY <2>2, <2>3
  <1>3. QED
    BY <1>1, <1>2

-----------------------------------------------------------------------------
(* Types *)

LEMMA FilesInit ==
  ASSUME X!ContextsAssumption, X!Init
  PROVE  FilesTypes
  <1>1. X!NoChange.path \in Path /\ X!NoChange.scope = "global"
    BY DEF X!NoChange, X!ContextsAssumption
  <1>2. <<>> \in Seq(X!File)
    OBVIOUS
  <1>3. QED
    BY <1>1, <1>2 DEF X!Init, FilesTypes, Removal

\* A command changes what belongs to its client, and Apply a file.
LEMMA CommandTypes ==
  ASSUME X!ContextsAssumption, FilesTypes, NEW c \in Client, X!Begin(c) \/ X!Ask(c) \/ X!CdResolves(c) \/ X!Put(c) \/ X!Apply(c)
  PROVE  FilesTypes'
  <1>1. Root \in Path /\ X!NoChange.path = Root /\ X!NoChange.scope = "global"
    BY DEF X!NoChange, X!ContextsAssumption
  <1>2. ids' = ids /\ remover' = remover
    BY DEF X!Begin, X!Ask, X!CdResolves, X!Put, X!Apply
  <1>3. pc' \in [Client -> {"idle", "ask", "resolve", "put", "apply"}]
    BY DEF FilesTypes, X!Begin, X!Use, X!Clear, X!Cd, X!Ask, X!CdResolves, X!Put, X!Apply, X!Goes, X!Returns
  <1>4. listed' \in [Client -> SUBSET Id]
    BY DEF FilesTypes, X!Begin, X!Use, X!Clear, X!Cd, X!Ask, X!CdResolves, X!Put, X!Apply, X!Returns
  <1>5. change' = change \/ \E ch : /\ change' = [change EXCEPT ![c] = ch]
                                         /\ ch.path \in Path /\ ch.scope \in {"project", "global"}
    <2>1. CASE X!Begin(c)
      BY <2>1, <1>1 DEF X!Begin, X!Use, X!Clear, X!Cd
    <2>2. CASE X!Ask(c)
      BY <2>2 DEF X!Ask
    <2>3. CASE X!CdResolves(c)
      BY <2>3, <1>1 DEF X!CdResolves, X!Returns
    <2>4. CASE X!Put(c)
      BY <2>4, <1>1 DEF X!Put, X!Returns
    <2>5. CASE X!Apply(c)
      BY <2>5, <1>1 DEF X!Apply, X!Returns
    <2>6. QED
      BY <2>1, <2>2, <2>3, <2>4, <2>5
  <1>6. /\ change' = [d \in Client |-> change'[d]]
        /\ \A d \in Client : change'[d].path \in Path /\ change'[d].scope \in {"project", "global"}
    BY <1>5 DEF FilesTypes
  <1>7. stored' \in [X!File -> X!Stored \cup {None, Junk}]
    <2>1. CASE X!Apply(c)
      <3>1. CASE UNCHANGED stored
        BY <3>1 DEF FilesTypes
      <3>2. CASE ~UNCHANGED stored
        <4> DEFINE id == X!Registered(listed[c], change[c].database)
        <4>1. change[c].clear \/ id \in listed[c]
          BY <2>1, <3>2, RegisteredIs DEF X!Apply
        <4>2. change[c].clear \/ [database |-> id, path |-> change[c].path] \in X!Stored
          BY <4>1 DEF FilesTypes, X!Stored
        <4>3. \E s \in X!Stored \cup {None} : stored' = [stored EXCEPT ![X!FileOf(change[c])] = s]
          BY <2>1, <3>2, <4>2 DEF X!Apply
        <4>4. QED
          BY <4>3 DEF FilesTypes
      <3>3. QED
        BY <3>1, <3>2
    <2>2. CASE ~X!Apply(c)
      BY <2>2 DEF FilesTypes, X!Begin, X!Ask, X!CdResolves, X!Put
    <2>3. QED
      BY <2>1, <2>2
  <1>8. QED
    BY <1>2, <1>3, <1>4, <1>6, <1>7 DEF FilesTypes

\* ClearDatabase looks at the global file and at all files of projects.
LEMMA ClearDatabaseIs ==
  ASSUME X!ContextsAssumption, FilesTypes, X!ClearDatabase
  PROVE  /\ remover.step = "unmount" /\ remover'.step = "look" /\ remover'.id = remover.id
         /\ remover' \in Removal
         /\ \A f \in X!File : stored[f] # None =>
               \E i \in 1 .. Len(remover'.files) : remover'.files[i] = f
  <1> DEFINE places == {d \in Directory : stored[d] # None}
             files == <<Global>> \o X!SetToSeq(places)
  <1>1. IsFiniteSet(places)
    BY FS_Subset, InstanceOfLibrary DEF X!ContextsAssumption
  <1>2. X!SetToSeq(places) \in Seq(X!File) /\ \A x \in places : \E i \in 1 .. Len(X!SetToSeq(places)) : X!SetToSeq(places)[i] = x
    <2>1. X!SetToSeq(places) \in Seq(places) /\ places \subseteq X!File
      BY <1>1, SetToSeqHasAll DEF X!File
    <2>2. X!SetToSeq(places) \in Seq(X!File)
      BY <2>1
    <2>3. QED
      BY <1>1, <2>2, SetToSeqHasAll
  <1>3. <<Global>> \in Seq(X!File)
    BY DEF X!File
  <1>4. files \in Seq(X!File) /\ Len(files) = 1 + Len(X!SetToSeq(places)) /\ files[1] = Global
        /\ \A i \in 1 .. Len(X!SetToSeq(places)) : files[i + 1] = X!SetToSeq(places)[i]
    BY <1>2, <1>3
  <1>5. remover' = [remover EXCEPT !.step = "look", !.files = files]
    BY DEF X!ClearDatabase
  <1>6. remover'.files = files
    BY <1>5 DEF FilesTypes, Removal
  <1>7. ASSUME NEW f \in X!File, stored[f] # None
        PROVE  \E i \in 1 .. Len(files) : files[i] = f
    <2>1. CASE f = Global
      BY <2>1, <1>2, <1>4
    <2>2. CASE f \in places
      <3>1. PICK i \in 1 .. Len(X!SetToSeq(places)) : X!SetToSeq(places)[i] = f
        BY <1>2, <2>2
      <3>2. i + 1 \in 1 .. Len(files) /\ files[i + 1] = f
        BY <1>2, <1>4, <3>1
      <3>3. QED
        BY <3>2
    <2>3. QED
      BY <1>7, <2>1, <2>2 DEF X!File
  <1>8. remover.step = "unmount" /\ remover'.step = "look" /\ remover'.id = remover.id /\ remover' \in Removal
    BY <1>4, <1>5 DEF X!ClearDatabase, FilesTypes, Removal
  <1>9. QED
    BY <1>6, <1>7, <1>8

LEMMA RegistryTypes ==
  ASSUME X!ContextsAssumption, FilesTypes, X!Register \/ X!RemoveDatabase \/ X!ClearDatabase \/ X!ClearLooks \/ X!ClearRemoves
  PROVE  FilesTypes'
  <1>1. UNCHANGED <<pc, listed, change>>
    BY DEF X!Register, X!RemoveDatabase, X!ClearDatabase, X!ClearLooks, X!ClearRemoves, X!clientVars
  <1>2. ids' \subseteq Id
    BY DEF FilesTypes, X!Register, X!RemoveDatabase, X!ClearDatabase, X!ClearLooks, X!ClearRemoves
  <1>3. stored' \in [X!File -> X!Stored \cup {None, Junk}]
    BY DEF FilesTypes, X!Register, X!RemoveDatabase, X!ClearDatabase, X!ClearLooks, X!ClearRemoves
  <1>4. remover' \in Removal /\ (remover'.step = "unlink" => remover'.files # <<>>)
    <2>1. CASE X!Register
      BY <2>1 DEF FilesTypes, X!Register
    <2>2. CASE X!RemoveDatabase
      BY <2>2 DEF FilesTypes, Removal, X!RemoveDatabase
    <2>3. CASE X!ClearDatabase
      BY <2>3, ClearDatabaseIs
    <2>4. Tail(remover.files) \in Seq(X!File) \/ remover.files = <<>>
      BY DEF FilesTypes, Removal
    <2>5. CASE X!ClearLooks
      BY <2>4, <2>5 DEF FilesTypes, Removal, X!ClearLooks
    <2>6. CASE X!ClearRemoves
      BY <2>4, <2>6 DEF FilesTypes, Removal, X!ClearRemoves
    <2>7. QED
      BY <2>1, <2>2, <2>3, <2>5, <2>6
  <1>5. QED
    BY <1>1, <1>2, <1>3, <1>4 DEF FilesTypes

LEMMA TypesHold == ASSUME X!ContextsAssumption PROVE X!Spec => []FilesTypes
  <1>1. FilesTypes /\ [X!Next]_(X!vars) => FilesTypes'
    <2>1. CASE UNCHANGED X!vars
      BY <2>1 DEF FilesTypes, X!vars, X!clientVars
    <2>2. QED
      BY <2>1, CommandTypes, RegistryTypes DEF X!Next
  <1>2. QED
    BY <1>1, FilesInit, PTL DEF X!Spec

-----------------------------------------------------------------------------
(* A removal that nothing overlaps *)

\* What a command changes of what it shares with removals.
LEMMA CommandFrames ==
  ASSUME FilesTypes, NEW c \in Client, X!Begin(c) \/ X!Ask(c) \/ X!CdResolves(c) \/ X!Put(c) \/ X!Apply(c)
  PROVE  /\ ids' = ids /\ remover' = remover
         /\ ~X!Apply(c) => stored' = stored
         /\ pc[c] # "idle" \/ X!Begin(c)
         /\ \A d \in Client : d # c => pc'[d] = pc[d] /\ listed'[d] = listed[d]
  <1>1. ids' = ids /\ remover' = remover /\ (~X!Apply(c) => stored' = stored)
    BY DEF X!Begin, X!Ask, X!CdResolves, X!Put, X!Apply
  <1>2. pc[c] # "idle" \/ X!Begin(c)
    BY DEF X!Ask, X!CdResolves, X!Put, X!Apply
  <1>3. \A d \in Client : d # c => pc'[d] = pc[d] /\ listed'[d] = listed[d]
    BY DEF FilesTypes, X!Begin, X!Use, X!Clear, X!Cd, X!Ask, X!CdResolves, X!Put, X!Apply, X!Goes, X!Returns
  <1>4. QED
    BY <1>1, <1>2, <1>3

\* Files change when a command applies and when a removal unlinks them.
LEMMA WhoStores ==
  ASSUME FilesTypes, [X!Next]_(X!vars)
  PROVE  UNCHANGED stored \/ (\E c \in Client : X!Apply(c)) \/ X!ClearRemoves
  <1>1. CASE \E c \in Client : X!Begin(c) \/ X!Ask(c) \/ X!CdResolves(c) \/ X!Put(c) \/ X!Apply(c)
    BY <1>1, CommandFrames
  <1>2. CASE X!Register \/ X!RemoveDatabase \/ X!ClearDatabase \/ X!ClearLooks
    BY <1>2 DEF X!Register, X!RemoveDatabase, X!ClearDatabase, X!ClearLooks
  <1>3. CASE UNCHANGED X!vars
    BY <1>3 DEF X!vars
  <1>4. QED
    BY <1>1, <1>2, <1>3 DEF X!Next

LEMMA SerialKept ==
  ASSUME X!ContextsAssumption, ~Overlap, FilesTypes, SerialInv, [X!Next]_(X!vars)
  PROVE  SerialInv'
  <1>1. CASE UNCHANGED X!vars
    BY <1>1 DEF SerialInv, X!vars, X!clientVars
  <1>2. ASSUME NEW c \in Client, X!Begin(c) \/ X!Ask(c) \/ X!CdResolves(c) \/ X!Put(c) \/ X!Apply(c)
        PROVE  SerialInv'
    <2>1. ids' = ids /\ remover' = remover
      BY <1>2, CommandFrames
    <2>2. remover.step = "idle"
      BY <1>2, CommandFrames DEF SerialInv, X!Begin
    <2>3. pc'[c] = "apply" => listed'[c] \subseteq ids
      <3>1. CASE X!Put(c)
        BY <3>1 DEF X!Put, X!Goes, X!Returns, FilesTypes
      <3>2. CASE X!Begin(c) \/ X!Ask(c) \/ X!CdResolves(c) \/ X!Apply(c)
        BY <3>2 DEF X!Begin, X!Use, X!Clear, X!Cd, X!Ask, X!CdResolves, X!Apply, X!Goes, X!Returns, FilesTypes
      <3>3. QED
        BY <1>2, <3>1, <3>2
    <2>4. \A d \in Client : pc'[d] = "apply" => listed'[d] \subseteq ids
      BY <1>2, <2>3, CommandFrames DEF SerialInv
    <2>5. QED
      BY <2>1, <2>2, <2>4 DEF SerialInv
  <1>3. CASE X!Register
    <2>1. UNCHANGED <<pc, listed>> /\ remover' = remover /\ ids \subseteq ids'
      BY <1>3 DEF X!Register, X!clientVars
    <2>2. \A a, b \in ids' : Fold[a] = Fold[b] => a = b
      BY <1>3 DEF X!Register, SerialInv
    <2>3. QED
      BY <2>1, <2>2 DEF SerialInv
  <1>4. CASE X!RemoveDatabase
    <2>1. (\A c \in Client : pc[c] = "idle") /\ UNCHANGED <<pc, listed>> /\ ids' \subseteq ids
      BY <1>4 DEF X!RemoveDatabase, X!clientVars
    <2>2. QED
      BY <2>1 DEF SerialInv
  <1>5. CASE X!ClearDatabase \/ X!ClearLooks \/ X!ClearRemoves
    <2>1. UNCHANGED <<ids, pc, listed>> /\ remover.step # "idle"
      BY <1>5 DEF X!ClearDatabase, X!ClearLooks, X!ClearRemoves, X!clientVars
    <2>2. QED
      BY <2>1 DEF SerialInv
  <1>6. QED
    BY <1>1, <1>2, <1>3, <1>4, <1>5 DEF X!Next

LEMMA RemovingKept ==
  ASSUME X!ContextsAssumption, ~Overlap, FilesTypes, SerialInv, RemovingInv, [X!Next]_(X!vars)
  PROVE  RemovingInv'
  <1>1. CASE UNCHANGED X!vars
    BY <1>1 DEF RemovingInv, X!vars, X!clientVars
  <1>2. ASSUME NEW c \in Client, X!Begin(c) \/ X!Ask(c) \/ X!CdResolves(c) \/ X!Put(c) \/ X!Apply(c)
        PROVE  RemovingInv'
    <2>1. ids' = ids /\ remover' = remover /\ remover.step = "idle"
      BY <1>2, CommandFrames DEF SerialInv, X!Begin
    <2>2. QED
      BY <2>1 DEF RemovingInv
  <1>3. CASE X!Register
    BY <1>3 DEF X!Register, RemovingInv
  <1>4. CASE X!RemoveDatabase
    <2>1. PICK id \in ids : ids' = ids \ {id} /\ remover' = [remover EXCEPT !.step = "unmount", !.id = id]
      BY <1>4 DEF X!RemoveDatabase
    <2>2. remover'.step = "unmount" /\ remover'.id = id
      BY <2>1 DEF FilesTypes, Removal
    <2>3. \A k \in ids' : Fold[k] # Fold[id]
      BY <2>1 DEF SerialInv
    <2>4. QED
      BY <2>1, <2>2, <2>3 DEF RemovingInv, FilesTypes
  <1>5. CASE X!ClearDatabase
    <2>1. remover'.step = "look" /\ remover'.id = remover.id /\ remover.step = "unmount"
      BY <1>5, ClearDatabaseIs
    <2>2. ids' = ids
      BY <1>5 DEF X!ClearDatabase
    <2>3. QED
      BY <2>1, <2>2 DEF RemovingInv
  <1>6. CASE X!ClearLooks
    <2>1. ids' = ids /\ stored' = stored /\ remover.step = "look"
      BY <1>6 DEF X!ClearLooks
    <2>2. CASE remover'.step = "unlink"
      <3>1. remover'.files = remover.files /\ remover'.id = remover.id
        BY <1>6, <2>2 DEF X!ClearLooks, FilesTypes, Removal
      <3>2. LET s == stored[Head(remover.files)] IN s \in X!Stored /\ Fold[s.database] = Fold[remover.id]
        BY <1>6, <2>2 DEF X!ClearLooks, FilesTypes, Removal
      <3>3. QED
        BY <2>1, <3>1, <3>2 DEF RemovingInv
    <2>3. CASE remover'.step = "look"
      <3>1. remover'.id = remover.id
        BY <1>6, <2>3 DEF X!ClearLooks, FilesTypes, Removal
      <3>2. QED
        BY <2>1, <2>3, <3>1 DEF RemovingInv
    <2>4. CASE remover'.step = "idle"
      BY <2>4 DEF RemovingInv
    <2>5. QED
      BY <1>6, <2>2, <2>3, <2>4 DEF X!ClearLooks, FilesTypes, Removal
  <1>7. CASE X!ClearRemoves
    <2>1. ids' = ids /\ remover'.step = "look" /\ remover'.id = remover.id /\ remover.step = "unlink"
      BY <1>7 DEF X!ClearRemoves, FilesTypes, Removal
    <2>2. QED
      BY <2>1 DEF RemovingInv
  <1>8. QED
    BY <1>1, <1>2, <1>3, <1>4, <1>5, <1>6, <1>7 DEF X!Next

\* A file that a removal has looked at names no database that is gone.
LEMMA LeftKept ==
  ASSUME X!ContextsAssumption, ~Overlap, ~Failing, FilesTypes, SerialInv, RemovingInv, LeftInv, [X!Next]_(X!vars)
  PROVE  LeftInv'
  <1>1. CASE UNCHANGED X!vars
    BY <1>1 DEF LeftInv, X!vars, X!clientVars
  <1>2. ASSUME NEW c \in Client, X!Begin(c) \/ X!Ask(c) \/ X!CdResolves(c) \/ X!Put(c) \/ X!Apply(c)
        PROVE  LeftInv'
    <2>1. ids' = ids /\ remover' = remover
      BY <1>2, CommandFrames
    <2>2. CASE X!Apply(c) /\ ~UNCHANGED stored
      <3>1. PICK f, s : stored' = [stored EXCEPT ![f] = s] /\ (s = None \/ s.database \in ids)
        <4> DEFINE id == X!Registered(listed[c], change[c].database)
        <4>1. change[c].clear \/ id \in ids
          BY <2>2, RegisteredIs DEF X!Apply, SerialInv
        <4>2. QED
          BY <2>2, <4>1 DEF X!Apply
      <3>2. None \notin X!Stored
        BY DEF X!ContextsAssumption, X!Stored
      <3>3. \A g \in X!File : stored'[g] = stored[g] \/ stored'[g] = s
        BY <3>1 DEF FilesTypes
      <3>4. QED
        BY <2>1, <3>1, <3>2, <3>3 DEF LeftInv
    <2>3. CASE UNCHANGED stored
      BY <2>1, <2>3 DEF LeftInv
    <2>4. QED
      BY <1>2, <2>2, <2>3, CommandFrames
  <1>3. CASE X!Register
    BY <1>3 DEF X!Register, LeftInv
  <1>4. CASE X!RemoveDatabase
    <2>1. PICK id \in ids : ids' = ids \ {id} /\ remover' = [remover EXCEPT !.step = "unmount", !.id = id]
      BY <1>4 DEF X!RemoveDatabase
    <2>2. remover'.step = "unmount" /\ remover'.id = id
      BY <2>1 DEF FilesTypes, Removal
    <2>3. stored' = stored /\ remover.step = "idle"
      BY <1>4 DEF X!RemoveDatabase
    <2>4. QED
      BY <2>1, <2>2, <2>3 DEF LeftInv
  <1>5. CASE X!ClearDatabase
    <2>1. remover.step = "unmount" /\ remover'.step = "look" /\ remover'.id = remover.id
          /\ \A f \in X!File : stored[f] # None => \E i \in 1 .. Len(remover'.files) : remover'.files[i] = f
      BY <1>5, ClearDatabaseIs
    <2>2. ids' = ids /\ stored' = stored
      BY <1>5 DEF X!ClearDatabase
    <2>3. None \notin X!Stored
      BY DEF X!ContextsAssumption, X!Stored
    <2>4. QED
      BY <2>1, <2>2, <2>3 DEF LeftInv
  <1>6. CASE X!ClearLooks
    <2>1. ids' = ids /\ stored' = stored /\ remover.step = "look" /\ remover.files \in Seq(X!File)
      BY <1>6 DEF X!ClearLooks, FilesTypes, Removal
    <2>2. CASE remover.files = <<>>
      BY <2>1, <2>2 DEF LeftInv
    <2>3. CASE remover.files # <<>> /\ remover'.step = "unlink"
      <3>1. remover'.files = remover.files /\ remover'.id = remover.id
        BY <1>6, <2>3 DEF X!ClearLooks, FilesTypes, Removal
      <3>2. QED
        BY <2>1, <2>3, <3>1 DEF LeftInv
    <2>4. CASE remover.files # <<>> /\ remover'.step # "unlink"
      <3> DEFINE h == Head(remover.files)
      <3>1. ~(stored[h] \in X!Stored /\ Fold[stored[h].database] = Fold[remover.id])
        BY <1>6, <2>4 DEF X!ClearLooks, FilesTypes, Removal
      <3>2. remover'.step = "look" /\ remover'.files = Tail(remover.files) /\ remover'.id = remover.id
        BY <1>6, <2>4, <3>1 DEF X!ClearLooks, FilesTypes, Removal
      <3>3. ASSUME NEW f \in X!File, stored[f] \in X!Stored, stored[f].database \notin ids
            PROVE  \E i \in 1 .. Len(remover'.files) : remover'.files[i] = f
        <4>1. stored[f].database = remover.id
          BY <3>3 DEF LeftInv
        <4>2. f # h
          BY <3>1, <3>3, <4>1
        <4>3. PICK i \in 1 .. Len(remover.files) : remover.files[i] = f
          BY <2>1, <3>3 DEF LeftInv
        <4>4. i # 1 /\ i - 1 \in 1 .. Len(remover'.files) /\ remover'.files[i - 1] = f
          BY <2>1, <2>4, <3>2, <4>2, <4>3
        <4>5. QED
          BY <4>4
      <3>4. QED
        BY <2>1, <3>2, <3>3 DEF LeftInv
    <2>5. QED
      BY <2>2, <2>3, <2>4
  <1>7. CASE X!ClearRemoves
    <2> DEFINE h == Head(remover.files)
    <2>1. ids' = ids /\ remover.step = "unlink" /\ remover.files \in Seq(X!File) /\ remover.files # <<>>
          /\ stored' = [stored EXCEPT ![h] = None]
      BY <1>7 DEF X!ClearRemoves, FilesTypes, Removal
    <2>2. remover'.step = "look" /\ remover'.files = Tail(remover.files) /\ remover'.id = remover.id
      BY <1>7 DEF X!ClearRemoves, FilesTypes, Removal
    <2>3. ASSUME NEW f \in X!File, stored'[f] \in X!Stored, stored'[f].database \notin ids
          PROVE  /\ stored'[f].database = remover.id
                 /\ \E i \in 1 .. Len(remover'.files) : remover'.files[i] = f
      <3>1. None \notin X!Stored
        BY DEF X!ContextsAssumption, X!Stored
      <3>2. f # h /\ stored'[f] = stored[f]
        BY <2>1, <2>3, <3>1 DEF FilesTypes
      <3>3. PICK i \in 1 .. Len(remover.files) : remover.files[i] = f
        BY <2>1, <2>3, <3>2 DEF LeftInv
      <3>4. i # 1 /\ i - 1 \in 1 .. Len(remover'.files) /\ remover'.files[i - 1] = f
        BY <2>1, <2>2, <3>2, <3>3
      <3>5. QED
        BY <2>3, <3>2, <3>4 DEF LeftInv
    <2>4. QED
      BY <2>1, <2>2, <2>3 DEF LeftInv
  <1>8. QED
    BY <1>1, <1>2, <1>3, <1>4, <1>5, <1>6, <1>7 DEF X!Next

LEMMA ForgetHolds ==
  ASSUME X!ContextsAssumption, ~Overlap
  PROVE  X!Spec => [](FilesTypes /\ SerialInv /\ RemovingInv)
  <1>1. X!Init => SerialInv /\ RemovingInv
    BY DEF X!Init, SerialInv, RemovingInv
  <1>2. FilesTypes /\ SerialInv /\ RemovingInv /\ [X!Next]_(X!vars) => SerialInv' /\ RemovingInv'
    BY SerialKept, RemovingKept
  <1>3. QED
    BY <1>1, <1>2, TypesHold, PTL DEF X!Spec

\* Once a removal has ended no context names its database, nor any other that
\* is gone, as long as commands and removals do not overlap and files can be
\* unlinked.  RemovedIsForgotten (store.go:309-310).
THEOREM RemovalForgets ==
  ASSUME X!ContextsAssumption, ~Overlap, ~Failing
  PROVE  X!Spec => []X!RemovedIsForgotten
  <1>1. X!Init => LeftInv
    BY DEF X!Init, LeftInv, X!ContextsAssumption, X!Stored
  <1>2. FilesTypes /\ SerialInv /\ RemovingInv /\ LeftInv /\ [X!Next]_(X!vars) => LeftInv'
    BY LeftKept
  <1>3. LeftInv => X!RemovedIsForgotten
    BY DEF LeftInv, X!RemovedIsForgotten, X!Quiet
  <1>4. QED
    BY <1>1, <1>2, <1>3, ForgetHolds, PTL DEF X!Spec

\* In MCHome contexts move by the steps of Contexts and no other.
LEMMA HomeRunsContexts == HomeSpec => X!Spec
  <1>1. HomeInit => X!Init
    BY Zenon DEF HomeInit
  <1>2. [HomeNext]_<<contextsVars, settingsVars, vars, storageVars, part>> => [X!Next]_(X!vars)
    BY DEF HomeNext, contextsVars, X!vars, X!clientVars
  <1>3. QED
    BY <1>1, <1>2, PTL DEF HomeSpec, X!Spec

\* The same of the home as the runs put it together (ContextsForget).
THEOREM HomeForgets ==
  ASSUME ~Overlap, ~Failing
  PROVE  HomeSpec => []ContextsForget
  <1>1. X!RemovedIsForgotten => ContextsForget
    BY DEF ContextsForget
  <1>2. X!ContextsAssumption
    BY HomeAssumption
  <1>3. QED
    BY <1>1, <1>2, HomeRunsContexts, RemovalForgets, PTL

\* A removal takes away no context of a database that is registered, not even
\* of one whose id differs in case only: those change only when a command
\* changes them, as long as commands and removals do not overlap, whether or
\* not writes fail.  ChoicesLast (store.go:309-329).
THEOREM RemovalSpares ==
  ASSUME X!ContextsAssumption, ~Overlap
  PROVE  X!Spec => X!ChoicesLast
  <1> DEFINE Spares == \A f \in X!File :
                 /\ stored'[f] # stored[f]
                 /\ stored[f] \in X!Stored /\ stored[f].database \in ids
                 => \E c \in Client : pc[c] = "apply" /\ X!FileOf(change[c]) = f
  <1>1. FilesTypes /\ RemovingInv /\ [X!Next]_(X!vars) => [Spares]_(X!vars)
    <2> SUFFICES ASSUME FilesTypes, RemovingInv, [X!Next]_(X!vars), NEW f \in X!File, stored'[f] # stored[f],
                        stored[f] \in X!Stored, stored[f].database \in ids
                 PROVE  \E c \in Client : pc[c] = "apply" /\ X!FileOf(change[c]) = f
      OBVIOUS
    <2>1. ~UNCHANGED stored
      OBVIOUS
    <2>2. CASE \E c \in Client : X!Apply(c)
      <3>1. PICK c \in Client : X!Apply(c)
        BY <2>2
      <3>2. pc[c] = "apply" /\ \E s : stored' = [stored EXCEPT ![X!FileOf(change[c])] = s]
        BY <2>1, <3>1 DEF X!Apply
      <3>3. X!FileOf(change[c]) = f
        BY <3>2 DEF FilesTypes
      <3>4. QED
        BY <3>2, <3>3
    <2>3. CASE X!ClearRemoves
      <3>1. f = Head(remover.files) /\ remover.step = "unlink"
        BY <2>1, <2>3 DEF X!ClearRemoves, FilesTypes
      <3>2. Fold[stored[f].database] = Fold[remover.id] /\ stored[f].database \in ids
        BY <3>1 DEF RemovingInv
      <3>3. QED
        BY <3>1, <3>2 DEF RemovingInv
    <2>4. QED
      BY <2>1, <2>2, <2>3, WhoStores
  <1>2. [][Spares]_(X!vars) => X!ChoicesLast
    BY DEF X!ChoicesLast
  <1>3. QED
    BY <1>1, <1>2, ForgetHolds, PTL DEF X!Spec

-----------------------------------------------------------------------------
(* Where a project's context may be *)

\* No project context covers the home directory or a whole file system,
\* whatever overlaps and fails: the first part of ContextsStayInProjects
\* (store.go:227-229, 288-290).
THEOREM ProjectsAreNarrow ==
  ASSUME X!ContextsAssumption
  PROVE  X!Spec => []X!ContextsAreNarrow
  <1>1. X!Init => X!ContextsAreNarrow
    BY DEF X!Init, X!ContextsAreNarrow, X!ContextsAssumption, X!Stored, X!File
  <1>2. FilesTypes /\ X!ContextsAreNarrow /\ [X!Next]_(X!vars) => X!ContextsAreNarrow'
    <2> SUFFICES ASSUME FilesTypes, X!ContextsAreNarrow, [X!Next]_(X!vars)
                 PROVE  X!ContextsAreNarrow'
      OBVIOUS
    <2>0. None \notin X!Stored
      BY DEF X!ContextsAssumption, X!Stored
    <2>1. CASE UNCHANGED stored
      BY <2>1 DEF X!ContextsAreNarrow
    <2>2. CASE ~UNCHANGED stored /\ \E c \in Client : X!Apply(c)
      <3>1. PICK c \in Client : X!Apply(c)
        BY <2>2
      <3> DEFINE ch == change[c]
      <3>2. PICK s : stored' = [stored EXCEPT ![X!FileOf(ch)] = s] /\
                     (s = None \/ ~(ch.scope = "project" /\ X!TooBroad(ch.dir)))
        BY <2>2, <3>1 DEF X!Apply
      <3>3. X!FileOf(ch) = Global \/ (X!FileOf(ch) = ch.dir /\ ch.scope = "project")
        <4>1. ch.scope \in {"project", "global"}
          BY DEF FilesTypes
        <4>2. QED
          BY <4>1 DEF X!FileOf
      <3>4. ASSUME NEW d \in Directory, stored'[d] \in X!Stored
            PROVE  ~X!TooBroad(d)
        <4>1. d # Global /\ d \in X!File
          BY DEF X!ContextsAssumption, X!File
        <4>2. CASE X!FileOf(ch) = d
          BY <2>0, <3>2, <3>3, <3>4, <4>1, <4>2 DEF FilesTypes
        <4>3. CASE X!FileOf(ch) # d
          BY <3>2, <3>4, <4>1, <4>3 DEF FilesTypes, X!ContextsAreNarrow
        <4>4. QED
          BY <4>2, <4>3
      <3>5. QED
        BY <3>4 DEF X!ContextsAreNarrow, X!TooBroad
    <2>3. CASE X!ClearRemoves
      <3>1. \A d \in Directory : stored'[d] = stored[d] \/ stored'[d] = None
        BY <2>3 DEF X!ClearRemoves, FilesTypes, X!File
      <3>2. QED
        BY <2>0, <3>1 DEF X!ContextsAreNarrow, X!TooBroad
    <2>4. QED
      BY <2>1, <2>2, <2>3, WhoStores
  <1>3. QED
    BY <1>1, <1>2, TypesHold, PTL DEF X!Spec

-----------------------------------------------------------------------------
(* The way up *)

\* A function of the directories: base where a way up stops, and below that
\* what up makes of its value above.
HasClimb(V, Stop, base, up) ==
    \E f \in [Directory -> V] :
        \A d \in Directory : f[d] = IF d \in Stop THEN base[d] ELSE up[<<d, f[Parent[d]]>>]

\* What is defined along the way up from a directory is defined.
LEMMA ClimbsEnd ==
  ASSUME X!ContextsAssumption, NEW V, NEW Stop \in SUBSET Directory,
         \A d \in Directory : Parent[d] = d => d \in Stop,
         NEW base \in [Directory -> V], NEW up \in [Directory \X V -> V]
  PROVE  HasClimb(V, Stop, base, up)
  <1> DEFINE Fits(f, T) ==
                /\ T \in SUBSET Directory /\ f \in [T -> V]
                /\ \A d \in T : /\ d \notin Stop => Parent[d] \in T
                                /\ f[d] = IF d \in Stop THEN base[d] ELSE up[<<d, f[Parent[d]]>>]
             Known(d) == \E T, f : d \in T /\ Fits(f, T)
             value == [d \in Directory |-> CHOOSE v : \E T, f : d \in T /\ Fits(f, T) /\ v = f[d]]
  <1>1. Parent \in [Directory -> Directory]
        /\ \A T \in SUBSET Directory : T # {} => \E d \in T : Parent[d] = d \/ Parent[d] \notin T
    BY DEF X!ContextsAssumption
  <1>2. ASSUME NEW T, NEW f, NEW U, NEW g, Fits(f, T), Fits(g, U), NEW d \in T \cap U
        PROVE  f[d] = g[d]
    <2> DEFINE differ == {x \in T \cap U : f[x] # g[x]}
    <2>1. ASSUME differ # {} PROVE FALSE
      <3>1. PICK m \in differ : Parent[m] = m \/ Parent[m] \notin differ
        BY <1>1, <1>2, <2>1
      <3>2. CASE m \in Stop
        BY <1>2, <3>1, <3>2
      <3>3. CASE m \notin Stop
        <4>1. Parent[m] \in T \cap U /\ Parent[m] \notin differ
          BY <1>2, <3>1, <3>3
        <4>2. f[Parent[m]] = g[Parent[m]]
          BY <4>1
        <4>3. f[m] = up[<<m, f[Parent[m]]>>] /\ g[m] = up[<<m, g[Parent[m]]>>]
          BY <1>2, <3>3
        <4>4. QED
          BY <3>1, <4>2, <4>3
      <3>4. QED
        BY <3>2, <3>3
    <2>2. QED
      BY <2>1
  <1>3. \A d \in Directory : Known(d)
    <2> DEFINE unknown == {x \in Directory : ~Known(x)}
    <2>1. ASSUME unknown # {} PROVE FALSE
      <3>1. PICK m \in unknown : Parent[m] = m \/ Parent[m] \notin unknown
        BY <1>1, <2>1
      <3>2. CASE m \in Stop
        <4>1. Fits([x \in {m} |-> base[m]], {m})
          BY <3>2
        <4>2. QED
          BY <3>1, <4>1
      <3>3. CASE m \notin Stop
        <4>1. Known(Parent[m]) /\ Parent[m] # m
          BY <1>1, <3>1, <3>3
        <4>2. PICK T, f : Parent[m] \in T /\ Fits(f, T)
          BY <4>1
        <4>3. m \notin T
          BY <3>1, <4>2
        <4> DEFINE g == [x \in T \cup {m} |-> IF x = m THEN up[<<m, f[Parent[m]]>>] ELSE f[x]]
        <4>4. up[<<m, f[Parent[m]]>>] \in V /\ m \in Directory
          BY <3>1, <4>2
        <4>5. \A x \in T : g[x] = f[x] /\ (x \notin Stop => Parent[x] \in T /\ g[Parent[x]] = f[Parent[x]])
          <5>1. \A x \in T : x # m /\ x \in T \cup {m} /\ (x \notin Stop => Parent[x] \in T)
            BY <4>2, <4>3
          <5>2. \A x \in T : g[x] = f[x]
            BY <5>1
          <5>3. QED
            BY <5>1, <5>2
        <4>6. g[m] = up[<<m, f[Parent[m]]>>] /\ g[m] \in V /\ g[Parent[m]] = f[Parent[m]]
          BY <4>1, <4>2, <4>4
        <4> HIDE DEF g
        <4>7. g \in [T \cup {m} -> V]
          BY <4>2, <4>4 DEF g
        <4>8. Fits(g, T \cup {m})
          <5>1. ASSUME NEW x \in T \cup {m}
                PROVE
                    /\ x \notin Stop => Parent[x] \in T \cup {m}
                    /\ g[x] = IF x \in Stop THEN base[x] ELSE up[<<x, g[Parent[x]]>>]
            <6>1. CASE x = m
              BY <3>3, <4>2, <4>6, <6>1
            <6>2. CASE x # m
              <7>1. f[x] = IF x \in Stop THEN base[x] ELSE up[<<x, f[Parent[x]]>>]
                BY <4>2, <6>2
              <7>2. QED
                BY <4>5, <6>2, <7>1
            <6>3. QED
              BY <6>1, <6>2
          <5>2. QED
            BY <4>2, <4>4, <4>7, <5>1
        <4>9. QED
          BY <3>1, <4>8
      <3>4. QED
        BY <3>2, <3>3
    <2>2. QED
      BY <2>1
  <1>4. ASSUME NEW T, NEW f, Fits(f, T), NEW d \in T
        PROVE  value[d] = f[d]
    <2>1. \E v : \E U, g : d \in U /\ Fits(g, U) /\ v = g[d]
      BY <1>4
    <2>2. \E U, g : d \in U /\ Fits(g, U) /\ value[d] = g[d]
      BY <2>1, <1>4
    <2>3. QED
      BY <1>2, <1>4, <2>2
  <1>5. ASSUME NEW d \in Directory
        PROVE  value[d] \in V /\ value[d] = IF d \in Stop THEN base[d] ELSE up[<<d, value[Parent[d]]>>]
    <2>1. PICK T, f : d \in T /\ Fits(f, T)
      BY <1>3
    <2>2. value[d] = f[d]
      BY <1>4, <2>1
    <2>3. d \notin Stop => Parent[d] \in T
      BY <2>1
    <2>4. d \notin Stop => value[Parent[d]] = f[Parent[d]]
      <3> HIDE DEF value, Fits
      <3>1. QED
        BY <1>4, <2>1, <2>3
    <2>5. QED
      BY <2>1, <2>2, <2>4
  <1>6. value \in [Directory -> V]
    BY <1>5
  <1>7. QED
    BY <1>5, <1>6 DEF HasClimb

LEMMA DirsAre ==
  ASSUME X!ContextsAssumption
  PROVE  /\ X!Dirs \in [Directory -> Seq(Directory) \ {<<>>}]
         /\ \A d \in Directory : X!Dirs[d] = IF d \in GitRoots \/ Parent[d] = d THEN <<d>>
                                             ELSE <<d>> \o X!Dirs[Parent[d]]
  <1> DEFINE V == Seq(Directory) \ {<<>>}
             Stop == {d \in Directory : d \in GitRoots \/ Parent[d] = d}
             base == [d \in Directory |-> <<d>>]
             up == [x \in Directory \X V |-> <<x[1]>> \o x[2]]
             e(f) == [dir \in Directory |-> IF dir \in GitRoots \/ Parent[dir] = dir THEN <<dir>> ELSE <<dir>> \o f[Parent[dir]]]
  <1>1. base \in [Directory -> V] /\ up \in [Directory \X V -> V]
    <2>1. \A d \in Directory : <<d>> \in V
      OBVIOUS
    <2>2. \A d \in Directory, s \in V : <<d>> \o s \in V
      OBVIOUS
    <2>3. QED
      BY <2>1, <2>2
  <1>8. Stop \in SUBSET Directory /\ \A d \in Directory : Parent[d] = d => d \in Stop
    OBVIOUS
  <1> HIDE DEF V, Stop, base, up
  <1>2. PICK f \in [Directory -> V] :
            \A d \in Directory : f[d] = IF d \in Stop THEN base[d] ELSE up[<<d, f[Parent[d]]>>]
    <2>1. HasClimb(V, Stop, base, up)
      BY <1>1, <1>8, ClimbsEnd
    <2>2. QED
      BY <2>1 DEF HasClimb
  <1>3. \A d \in Directory : f[d] = IF d \in GitRoots \/ Parent[d] = d THEN <<d>> ELSE <<d>> \o f[Parent[d]]
    BY <1>2 DEF X!ContextsAssumption, V, Stop, base, up
  <1>4. f = e(f)
    BY <1>2, <1>3
  <1>5. X!Dirs = CHOOSE g : g = e(g)
    BY DEF X!Dirs
  <1>6. X!Dirs = e(X!Dirs)
    BY <1>4, <1>5
  <1>7. \A d \in Directory : X!Dirs[d] = IF d \in GitRoots \/ Parent[d] = d THEN <<d>>
                                         ELSE <<d>> \o X!Dirs[Parent[d]]
    BY <1>6
  <1>9. \A d \in Directory : X!Dirs[d] \in V
    <2> DEFINE bad == {d \in Directory : X!Dirs[d] \notin V}
    <2>1. ASSUME bad # {} PROVE FALSE
      <3>1. PICK m \in bad : Parent[m] = m \/ Parent[m] \notin bad
        BY <2>1 DEF X!ContextsAssumption
      <3>2. Parent[m] \in Directory
        BY DEF X!ContextsAssumption
      <3>3. CASE m \in GitRoots \/ Parent[m] = m
        <4>1. m \in Directory /\ X!Dirs[m] \notin V
          BY <3>1
        <4>2. X!Dirs[m] = <<m>>
          BY <1>7, <3>3, <4>1
        <4>3. <<m>> \in V
          BY <4>1 DEF V
        <4>4. QED
          BY <4>1, <4>2, <4>3
      <3>4. CASE ~(m \in GitRoots \/ Parent[m] = m)
        <4>1. X!Dirs[m] = <<m>> \o X!Dirs[Parent[m]] /\ X!Dirs[Parent[m]] \in V
          BY <1>7, <3>1, <3>2, <3>4
        <4>2. X!Dirs[m] \in V
          BY <4>1 DEF V
        <4>3. QED
          BY <3>1, <4>2
      <3>5. QED
        BY <3>3, <3>4
    <2>2. QED
      BY <2>1
  <1>10. QED
    BY <1>6, <1>7, <1>9 DEF V

LEMMA AncestorsAre ==
  ASSUME X!ContextsAssumption
  PROVE  /\ X!Ancestors \in [Directory -> SUBSET Directory]
         /\ \A d \in Directory : Parent[d] = d => X!Ancestors[d] = {d}
         /\ \A d \in Directory : Parent[d] # d => X!Ancestors[d] = {d} \cup X!Ancestors[Parent[d]]
  <1> DEFINE V == SUBSET Directory
             Stop == {d \in Directory : Parent[d] = d}
             base == [d \in Directory |-> {d}]
             up == [x \in Directory \X V |-> {x[1]} \cup x[2]]
             e(f) == [d \in Directory |-> {d} \cup (IF Parent[d] = d THEN {} ELSE f[Parent[d]])]
  <1>1. base \in [Directory -> V] /\ up \in [Directory \X V -> V]
    OBVIOUS
  <1>2. Stop \in SUBSET Directory /\ \A d \in Directory : Parent[d] = d => d \in Stop
    OBVIOUS
  <1> HIDE DEF V, Stop, base, up
  <1>3. PICK f \in [Directory -> V] :
            \A d \in Directory : f[d] = IF d \in Stop THEN base[d] ELSE up[<<d, f[Parent[d]]>>]
    <2>1. HasClimb(V, Stop, base, up)
      BY <1>1, <1>2, ClimbsEnd
    <2>2. QED
      BY <2>1 DEF HasClimb
  <1>4. \A d \in Directory : f[d] = {d} \cup (IF Parent[d] = d THEN {} ELSE f[Parent[d]])
    BY <1>3 DEF X!ContextsAssumption, V, Stop, base, up
  <1>5. f = e(f)
    BY <1>3, <1>4
  <1>6. X!Ancestors = CHOOSE g : g = e(g)
    BY DEF X!Ancestors
  <1>7. X!Ancestors = e(X!Ancestors)
    BY <1>5, <1>6
  <1>8. \A d \in Directory : X!Ancestors[d] = {d} \cup (IF Parent[d] = d THEN {} ELSE X!Ancestors[Parent[d]])
    BY <1>7
  <1>9. \A d \in Directory : X!Ancestors[d] \in V
    <2> DEFINE bad == {d \in Directory : X!Ancestors[d] \notin V}
    <2>1. ASSUME bad # {} PROVE FALSE
      <3>1. PICK m \in bad : Parent[m] = m \/ Parent[m] \notin bad
        BY <2>1 DEF X!ContextsAssumption
      <3>2. m \in Directory /\ Parent[m] \in Directory /\ X!Ancestors[m] \notin V
        BY <3>1 DEF X!ContextsAssumption
      <3>3. QED
        BY <1>8, <3>1, <3>2 DEF V
    <2>2. QED
      BY <2>1
  <1>10. QED
    BY <1>7, <1>8, <1>9 DEF V

\* Going up never comes back.
LEMMA AncestorsOrder ==
  ASSUME X!ContextsAssumption
  PROVE  /\ \A d \in Directory : d \in X!Ancestors[d]
         /\ \A d \in Directory : \A a \in X!Ancestors[d] : X!Ancestors[a] \subseteq X!Ancestors[d]
         /\ \A d \in Directory : \A a \in X!Ancestors[d] : d \in X!Ancestors[a] => a = d
  <1>1. Parent \in [Directory -> Directory]
        /\ \A T \in SUBSET Directory : T # {} => \E d \in T : Parent[d] = d \/ Parent[d] \notin T
    BY DEF X!ContextsAssumption
  <1>2. /\ \A d \in Directory : X!Ancestors[d] \subseteq Directory
        /\ \A d \in Directory : Parent[d] = d => X!Ancestors[d] = {d}
        /\ \A d \in Directory : Parent[d] # d => X!Ancestors[d] = {d} \cup X!Ancestors[Parent[d]]
    BY AncestorsAre
  <1>3. \A d \in Directory : d \in X!Ancestors[d]
    BY <1>2
  <1>4. \A d \in Directory : \A a \in X!Ancestors[d] : X!Ancestors[a] \subseteq X!Ancestors[d]
    <2> DEFINE bad == {d \in Directory : \E a \in X!Ancestors[d] : ~(X!Ancestors[a] \subseteq X!Ancestors[d])}
    <2>1. ASSUME bad # {} PROVE FALSE
      <3>1. PICK m \in bad : Parent[m] = m \/ Parent[m] \notin bad
        BY <1>1, <2>1
      <3>2. PICK a \in X!Ancestors[m] : ~(X!Ancestors[a] \subseteq X!Ancestors[m])
        BY <3>1
      <3>3. m \in Directory /\ Parent[m] \in Directory /\ a # m
        BY <1>1, <3>1, <3>2
      <3>4. Parent[m] # m /\ a \in X!Ancestors[Parent[m]] /\ X!Ancestors[Parent[m]] \subseteq X!Ancestors[m]
        BY <1>2, <3>2, <3>3
      <3>5. QED
        BY <3>1, <3>2, <3>3, <3>4
    <2>2. QED
      BY <2>1
  <1>5. ASSUME NEW d \in Directory, NEW a \in X!Ancestors[d], d \in X!Ancestors[a], a # d
        PROVE  FALSE
    <2> DEFINE round == {x \in X!Ancestors[d] : d \in X!Ancestors[x]}
    <2>1. round \in SUBSET Directory /\ d \in round /\ a \in round
      BY <1>2, <1>3, <1>5
    <2>2. PICK m \in round : Parent[m] = m \/ Parent[m] \notin round
      BY <1>1, <2>1
    <2>3. PICK y \in round : y # m
      BY <1>5, <2>1
    <2>4. m \in Directory /\ Parent[m] \in Directory /\ y \in X!Ancestors[m]
      BY <1>1, <1>4, <2>1, <2>2, <2>3
    <2>5. Parent[m] # m /\ y \in X!Ancestors[Parent[m]] /\ Parent[m] \in X!Ancestors[m]
      BY <1>2, <1>3, <2>3, <2>4
    <2>6. d \in X!Ancestors[Parent[m]]
      BY <1>4, <2>3, <2>4, <2>5
    <2>7. Parent[m] \in X!Ancestors[d]
      BY <1>4, <2>2, <2>5
    <2>8. QED
      BY <2>2, <2>5, <2>6, <2>7
  <1>6. QED
    BY <1>3, <1>4, <1>5

\* The directories of a project: those up to its Git root, nearest first.
LEMMA DirsClimb ==
  ASSUME X!ContextsAssumption, NEW d \in Directory
  PROVE  /\ X!Dirs[d] \in Seq(Directory) /\ Len(X!Dirs[d]) \in Nat \ {0} /\ X!Dirs[d][1] = d
         /\ \A i \in 1 .. Len(X!Dirs[d]) : X!Dirs[d][i] \in X!Ancestors[d]
         /\ \A i, j \in 1 .. Len(X!Dirs[d]) : i <= j => X!Dirs[d][j] \in X!Ancestors[X!Dirs[d][i]]
         /\ \A i \in 1 .. Len(X!Dirs[d]) : X!Trees(X!Dirs[d][i]) = X!Trees(d)
         /\ \A a \in X!Ancestors[d] : X!Trees(a) = X!Trees(d) => \E i \in 1 .. Len(X!Dirs[d]) : X!Dirs[d][i] = a
  <1> DEFINE Stops(x) == x \in GitRoots \/ Parent[x] = x
             Steps(x) == 1 .. Len(X!Dirs[x])
             Ordered(x) ==
                /\ \A i \in Steps(x) : X!Dirs[x][i] \in X!Ancestors[x]
                /\ \A i, j \in Steps(x) : i <= j => X!Dirs[x][j] \in X!Ancestors[X!Dirs[x][i]]
                /\ \A i \in Steps(x) : X!Trees(X!Dirs[x][i]) = X!Trees(x)
                /\ \A a \in X!Ancestors[x] : X!Trees(a) = X!Trees(x) => \E i \in Steps(x) : X!Dirs[x][i] = a
  <1>1. Parent \in [Directory -> Directory]
        /\ \A T \in SUBSET Directory : T # {} => \E x \in T : Parent[x] = x \/ Parent[x] \notin T
    BY DEF X!ContextsAssumption
  <1>2. /\ \A x \in Directory : X!Ancestors[x] \subseteq Directory /\ x \in X!Ancestors[x]
        /\ \A x \in Directory : Parent[x] = x => X!Ancestors[x] = {x}
        /\ \A x \in Directory : Parent[x] # x => X!Ancestors[x] = {x} \cup X!Ancestors[Parent[x]]
    BY AncestorsAre, AncestorsOrder
  <1>3. ASSUME NEW x \in Directory
        PROVE  /\ X!Dirs[x] \in Seq(Directory) /\ Len(X!Dirs[x]) \in Nat \ {0} /\ X!Dirs[x][1] = x
               /\ Stops(x) => X!Dirs[x] = <<x>>
               /\ ~Stops(x) => /\ Len(X!Dirs[x]) = Len(X!Dirs[Parent[x]]) + 1
                               /\ \A i \in Steps(Parent[x]) : X!Dirs[x][i + 1] = X!Dirs[Parent[x]][i]
                               /\ \A i \in Steps(x) : i = 1 \/ (i - 1 \in Steps(Parent[x]) /\ X!Dirs[x][i] = X!Dirs[Parent[x]][i - 1])
    <2>1. X!Dirs[x] \in Seq(Directory) /\ Len(X!Dirs[x]) \in Nat \ {0}
      BY DirsAre
    <2>2. CASE Stops(x)
      <3>1. X!Dirs[x] = <<x>>
        BY <2>2, DirsAre
      <3>2. QED
        BY <2>1, <2>2, <3>1
    <2>3. CASE ~Stops(x)
      <3>1. X!Dirs[x] = <<x>> \o X!Dirs[Parent[x]] /\ X!Dirs[Parent[x]] \in Seq(Directory)
        BY <1>1, <2>3, DirsAre
      <3>2. QED
        BY <2>1, <2>3, <3>1
    <2>4. QED
      BY <2>2, <2>3
  <1>4. ASSUME NEW x \in Directory, ~Stops(x)
        PROVE  X!Trees(x) = X!Trees(Parent[x])
    <2>1. X!Ancestors[x] \cap GitRoots = X!Ancestors[Parent[x]] \cap GitRoots
      BY <1>2, <1>4
    <2>2. QED
      BY <2>1 DEF X!Trees
  <1>5. ASSUME NEW x \in Directory, Stops(x)
        PROVE  \A a \in X!Ancestors[x] : X!Trees(a) = X!Trees(x) => a = x
    <2>1. CASE Parent[x] = x
      BY <1>2, <2>1
    <2>2. CASE x \in GitRoots
      <3> SUFFICES ASSUME NEW a \in X!Ancestors[x], X!Trees(a) = X!Trees(x)
                   PROVE  a = x
        OBVIOUS
      <3>1. x \in X!Trees(x)
        BY <1>2, <2>2, AncestorsOrder DEF X!Trees
      <3>2. x \in X!Ancestors[a]
        BY <3>1 DEF X!Trees
      <3>3. QED
        BY <3>2, AncestorsOrder
    <2>3. QED
      BY <1>5, <2>1, <2>2
  <1>6. ASSUME NEW x \in Directory, Stops(x)
        PROVE  Ordered(x)
    <2>1. X!Dirs[x] = <<x>>
      BY <1>3, <1>6
    <2>3. Len(X!Dirs[x]) = 1 /\ X!Dirs[x][1] = x
      BY <2>1
    <2>2. QED
      BY <1>2, <1>5, <1>6, <2>3
  <1>7. ASSUME NEW x \in Directory, ~Stops(x), Ordered(Parent[x])
        PROVE  Ordered(x)
    <2> DEFINE p == Parent[x]
    <2>1. /\ p \in Directory /\ X!Ancestors[x] = {x} \cup X!Ancestors[p] /\ X!Trees(x) = X!Trees(p)
          /\ Len(X!Dirs[x]) = Len(X!Dirs[p]) + 1 /\ Len(X!Dirs[p]) \in Nat /\ X!Dirs[x][1] = x
          /\ \A i \in Steps(p) : X!Dirs[x][i + 1] = X!Dirs[p][i]
          /\ \A i \in Steps(x) : i = 1 \/ (i - 1 \in Steps(p) /\ X!Dirs[x][i] = X!Dirs[p][i - 1])
      BY <1>1, <1>2, <1>3, <1>4, <1>7
    <2>2. \A i \in Steps(x) : X!Dirs[x][i] \in X!Ancestors[x]
      BY <1>7, <2>1
    <2>3. ASSUME NEW i \in Steps(x), NEW j \in Steps(x), i <= j
          PROVE  X!Dirs[x][j] \in X!Ancestors[X!Dirs[x][i]]
      <3>1. CASE i = 1
        BY <2>1, <2>2, <3>1
      <3>2. CASE i # 1
        <4>1. i - 1 \in Steps(p) /\ X!Dirs[x][i] = X!Dirs[p][i - 1]
          BY <2>1, <3>2
        <4>2. j # 1 /\ i - 1 <= j - 1
          BY <2>1, <2>3, <3>2
        <4>3. j - 1 \in Steps(p) /\ X!Dirs[x][j] = X!Dirs[p][j - 1]
          BY <2>1, <4>2
        <4>4. QED
          BY <1>7, <4>1, <4>2, <4>3
      <3>3. QED
        BY <3>1, <3>2
    <2>4. \A i \in Steps(x) : X!Trees(X!Dirs[x][i]) = X!Trees(x)
      BY <1>7, <2>1
    <2>5. ASSUME NEW a \in X!Ancestors[x], X!Trees(a) = X!Trees(x)
          PROVE  \E i \in Steps(x) : X!Dirs[x][i] = a
      <3>1. CASE a = x
        BY <2>1, <3>1
      <3>2. CASE a \in X!Ancestors[p]
        <4>1. PICK i \in Steps(p) : X!Dirs[p][i] = a
          BY <1>7, <2>1, <2>5, <3>2
        <4>2. i + 1 \in Steps(x) /\ X!Dirs[x][i + 1] = a
          BY <2>1, <4>1
        <4>3. QED
          BY <4>2
      <3>3. QED
        BY <2>1, <2>5, <3>1, <3>2
    <2>6. QED
      BY <2>2, <2>3, <2>4, <2>5
  <1>8. \A x \in Directory : Ordered(x)
    <2> HIDE DEF Ordered
    <2> DEFINE bad == {x \in Directory : ~Ordered(x)}
    <2>1. ASSUME bad # {} PROVE FALSE
      <3>1. PICK m \in bad : Parent[m] = m \/ Parent[m] \notin bad
        BY <1>1, <2>1
      <3>2. m \in Directory /\ Parent[m] \in Directory /\ ~Ordered(m)
        BY <1>1, <3>1
      <3>3. ~Stops(m)
        BY <1>6, <3>2
      <3>4. Ordered(Parent[m])
        BY <3>1, <3>2, <3>3
      <3>5. QED
        BY <1>7, <3>2, <3>3, <3>4
    <2>2. QED
      BY <2>1
  <1>9. QED
    BY <1>3, <1>8

-----------------------------------------------------------------------------
(* The ladder *)

LEMMA HasLeast ==
  ASSUME NEW T \in SUBSET Nat, T # {}
  PROVE  X!Min(T) \in T /\ \A n \in T : X!Min(T) <= n
  <1>1. PICK m \in T : \A n \in T : ~(<<n, m>> \in OpToRel(<, Nat))
    BY NatLessThanWellFounded, WFMin
  <1>2. \A n \in T : m <= n
    <2>1. ASSUME NEW n \in T PROVE m <= n
      <3>1. ~(n < m)
        BY <1>1 DEF OpToRel
      <3>2. QED
        BY <3>1
    <2>2. QED
      BY <2>1
  <1>3. X!Min(T) = CHOOSE x \in T : \A y \in T : x =< y
    BY DEF X!Min
  <1>4. QED
    BY <1>2, <1>3

\* The first directory of a project that is in a set; where there is none, 0.
First(T, d) == X!SelectInSeq(X!Dirs[d], LAMBDA e : e \in T)

LEMMA FirstIsLeast ==
  ASSUME NEW T, NEW d
  PROVE  First(T, d) = LET I == {i \in 1 .. Len(X!Dirs[d]) : X!Dirs[d][i] \in T} IN
                       IF I # {} THEN X!Min(I) ELSE 0
  BY DEF First, X!SelectInSeq

LEMMA FirstIs ==
  ASSUME X!ContextsAssumption, NEW T, NEW d \in Directory
  PROVE  /\ First(T, d) \in 0 .. Len(X!Dirs[d])
         /\ First(T, d) = 0 => \A i \in 1 .. Len(X!Dirs[d]) : X!Dirs[d][i] \notin T
         /\ First(T, d) # 0 =>
               /\ X!Dirs[d][First(T, d)] \in T
               /\ \A i \in 1 .. Len(X!Dirs[d]) : i < First(T, d) => X!Dirs[d][i] \notin T
  <1> DEFINE n == Len(X!Dirs[d])
             I == {i \in 1 .. n : X!Dirs[d][i] \in T}
  <1>1. n \in Nat
    BY DirsClimb
  <1>2. First(T, d) = IF I # {} THEN X!Min(I) ELSE 0
    BY FirstIsLeast
  <1>3. CASE I = {}
    BY <1>1, <1>2, <1>3
  <1>4. CASE I # {}
    <2>1. I \in SUBSET Nat
      BY <1>1
    <2>2. X!Min(I) \in I /\ \A i \in I : X!Min(I) <= i
      BY <1>4, <2>1, HasLeast
    <2>3. First(T, d) = X!Min(I)
      BY <1>2, <1>4
    <2>4. First(T, d) \in 1 .. n /\ X!Dirs[d][First(T, d)] \in T
      BY <2>2, <2>3
    <2>5. ASSUME NEW i \in 1 .. n, i < First(T, d)
          PROVE  X!Dirs[d][i] \notin T
      <3>1. i \notin I
        BY <1>1, <2>2, <2>3, <2>4, <2>5
      <3>2. QED
        BY <3>1
    <2>6. QED
      BY <1>1, <2>4, <2>5
  <1>5. QED
    BY <1>3, <1>4

\* The first whose context applies.
Applying(known) == {e \in Directory : X!Applies(known, e)}
Found(known, d) == First(Applying(known), d)

LEMMA FoundIs ==
  ASSUME X!ContextsAssumption, NEW known, NEW d \in Directory
  PROVE  /\ Found(known, d) \in 0 .. Len(X!Dirs[d])
         /\ Found(known, d) = 0 => \A i \in 1 .. Len(X!Dirs[d]) : ~X!Applies(known, X!Dirs[d][i])
         /\ Found(known, d) # 0 =>
               /\ X!Applies(known, X!Dirs[d][Found(known, d)])
               /\ \A i \in 1 .. Len(X!Dirs[d]) : i < Found(known, d) => ~X!Applies(known, X!Dirs[d][i])
  <1>1. \A i \in 1 .. Len(X!Dirs[d]) : X!Dirs[d][i] \in Directory
    BY DirsClimb
  <1>2. \A i \in 1 .. Len(X!Dirs[d]) : X!Dirs[d][i] \in Applying(known) <=> X!Applies(known, X!Dirs[d][i])
    BY <1>1 DEF Applying
  <1>3. Len(X!Dirs[d]) \in Nat
    BY DirsClimb
  <1>4. QED
    BY <1>2, <1>3, FirstIs DEF Found

\* What Resolve says without --db and OVDB_DATABASE.
LEMMA ResolveIs ==
  ASSUME X!ContextsAssumption, NEW known, NEW cmd, cmd.flag = None, cmd.cwd \in Directory
  PROVE  LET i == Found(known, cmd.cwd) IN
         X!Resolve(known, cmd) =
           IF i # 0 THEN X!FromFile(known, X!Dirs[cmd.cwd][i], "project", X!Dirs[cmd.cwd][i])
           ELSE IF X!Applies(known, Global) THEN X!FromFile(known, Global, "global", None)
           ELSE IF Cardinality(known) = 1
           THEN [database |-> CHOOSE id \in known : TRUE, path |-> Root, scope |-> "only", dir |-> None]
           ELSE None
  <1> DEFINE I == {i \in 1 .. Len(X!Dirs[cmd.cwd]) : X!Applies(known, X!Dirs[cmd.cwd][i])}
             J == {i \in 1 .. Len(X!Dirs[cmd.cwd]) : X!Dirs[cmd.cwd][i] \in Applying(known)}
  <1>1. \A i \in 1 .. Len(X!Dirs[cmd.cwd]) : X!Dirs[cmd.cwd][i] \in Directory
    BY DirsClimb
  <1>2. I = J
    BY <1>1 DEF Applying
  <1>3. X!SelectInSeq(X!Dirs[cmd.cwd], LAMBDA e : X!Applies(known, e)) = IF I # {} THEN X!Min(I) ELSE 0
    BY DEF X!SelectInSeq
  <1>4. Found(known, cmd.cwd) = IF J # {} THEN X!Min(J) ELSE 0
    BY FirstIsLeast DEF Found
  <1>5. X!SelectInSeq(X!Dirs[cmd.cwd], LAMBDA e : X!Applies(known, e)) = Found(known, cmd.cwd)
    <2> HIDE DEF I, J
    <2>1. QED
      BY <1>2, <1>3, <1>4
  <1>6. QED
    BY <1>5, InstanceOfLibrary DEF X!Resolve

\* A project context applies in its own Git tree and below its directory only,
\* and the nearest one wins: the ladder's part of ContextsStayInProjects, in
\* every state (project.go:45-48).
LEMMA NearestWins ==
  ASSUME X!ContextsAssumption, NEW d \in Directory
  PROVE  LET r == X!Resolve(ids, [X!NoCommand EXCEPT !.cwd = d])
             near == {a \in X!Ancestors[d] : X!Trees(a) = X!Trees(d) /\ X!Applies(ids, a)} IN
         IF near = {} THEN r # None => r.scope # "project"
         ELSE r.scope = "project" /\ r.dir \in near /\ near \subseteq X!Ancestors[r.dir]
  <1> DEFINE cmd == [X!NoCommand EXCEPT !.cwd = d]
             r == X!Resolve(ids, cmd)
             near == {a \in X!Ancestors[d] : X!Trees(a) = X!Trees(d) /\ X!Applies(ids, a)}
             n == Len(X!Dirs[d])
             i == Found(ids, d)
  <1>1. cmd.flag = None /\ cmd.cwd = d
    BY DEF X!NoCommand
  <1>2. r = IF i # 0 THEN X!FromFile(ids, X!Dirs[d][i], "project", X!Dirs[d][i])
            ELSE IF X!Applies(ids, Global) THEN X!FromFile(ids, Global, "global", None)
            ELSE IF Cardinality(ids) = 1
            THEN [database |-> CHOOSE id \in ids : TRUE, path |-> Root, scope |-> "only", dir |-> None]
            ELSE None
    <2> HIDE DEF cmd
    <2>1. QED
      BY <1>1, ResolveIs
  <1>3. /\ n \in Nat \ {0}
        /\ \A j \in 1 .. n : X!Dirs[d][j] \in X!Ancestors[d]
        /\ \A j, k \in 1 .. n : j <= k => X!Dirs[d][k] \in X!Ancestors[X!Dirs[d][j]]
        /\ \A j \in 1 .. n : X!Trees(X!Dirs[d][j]) = X!Trees(d)
        /\ \A a \in X!Ancestors[d] : X!Trees(a) = X!Trees(d) => \E j \in 1 .. n : X!Dirs[d][j] = a
    BY DirsClimb
  <1>4. /\ i \in 0 .. n
        /\ i = 0 => \A j \in 1 .. n : ~X!Applies(ids, X!Dirs[d][j])
        /\ i # 0 => /\ X!Applies(ids, X!Dirs[d][i])
                    /\ \A j \in 1 .. n : j < i => ~X!Applies(ids, X!Dirs[d][j])
    BY FoundIs
  <1> HIDE DEF cmd, i, n
  <1>5. CASE i = 0
    <2>1. near = {}
      BY <1>3, <1>4, <1>5
    <2>2. r # None => r.scope # "project"
      BY <1>2, <1>5 DEF X!FromFile
    <2>3. QED
      BY <2>1, <2>2 DEF cmd
  <1>6. CASE i # 0
    <2>1. r.scope = "project" /\ r.dir = X!Dirs[d][i]
      BY <1>2, <1>6 DEF X!FromFile
    <2>2. i \in 1 .. n /\ X!Dirs[d][i] \in near
      BY <1>3, <1>4, <1>6
    <2>3. ASSUME NEW a \in near
          PROVE  a \in X!Ancestors[X!Dirs[d][i]]
      <3>1. PICK j \in 1 .. n : X!Dirs[d][j] = a
        BY <1>3
      <3>2. i <= j
        BY <1>3, <1>4, <1>6, <3>1
      <3>3. QED
        BY <1>3, <2>2, <3>1, <3>2
    <2>4. QED
      BY <2>1, <2>2, <2>3 DEF cmd
  <1>7. QED
    BY <1>5, <1>6

\* Contexts stay in their projects, whatever overlaps and fails.
\* ContextsStayInProjects (project.go:45-48, store.go:227-229, 288-290).
THEOREM ProjectsKeep ==
  ASSUME X!ContextsAssumption
  PROVE  X!Spec => []X!ContextsStayInProjects
  <1>1. X!ContextsAreNarrow => X!ContextsStayInProjects
    BY NearestWins DEF X!ContextsStayInProjects
  <1>2. QED
    BY <1>1, ProjectsAreNarrow, PTL

THEOREM HomeProjects == HomeSpec => []ProjectsKeepContexts
  <1>1. X!ContextsStayInProjects => ProjectsKeepContexts
    BY DEF ProjectsKeepContexts
  <1>2. X!ContextsAssumption
    BY HomeAssumption
  <1>3. QED
    BY <1>1, <1>2, HomeRunsContexts, ProjectsKeep, PTL

-----------------------------------------------------------------------------
(* What commands hold *)

CommandTypesInv ==
    /\ command \in [Client -> X!Command] /\ context \in [Client -> X!Context \cup {None}]
    /\ change \in [Client -> X!Change] /\ ran \in 0 .. MaxCommands

\* The last directory of a project is one of its directories.
LEMMA ProjectRootIs ==
  ASSUME X!ContextsAssumption, NEW d \in Directory
  PROVE  /\ X!ProjectRoot(d) \in Directory
         /\ \E i \in 1 .. Len(X!Dirs[d]) : X!Dirs[d][i] = X!ProjectRoot(d)
  <1> DEFINE n == Len(X!Dirs[d])
  <1>1. X!Dirs[d] \in Seq(Directory) /\ n \in Nat \ {0} /\ X!Dirs[d][1] = d
    BY DirsClimb
  <1>2. n \in 1 .. n /\ 1 \in 1 .. n
    BY <1>1
  <1>3. X!Last(X!Dirs[d]) = X!Dirs[d][n]
    BY DEF X!Last
  <1>4. X!ProjectRoot(d) = X!Dirs[d][n] \/ X!ProjectRoot(d) = X!Dirs[d][1]
    BY <1>1, <1>3 DEF X!ProjectRoot
  <1>5. QED
    BY <1>1, <1>2, <1>4

\* Resolve finds a database that is registered, in a place of it.
LEMMA ResolveTypes ==
  ASSUME X!ContextsAssumption, FilesTypes, NEW known \in SUBSET Id, NEW cmd \in X!Command
  PROVE  LET r == X!Resolve(known, cmd) IN
         /\ r \in X!Context \cup {None}
         /\ r # None /\ r.scope # "flag" => cmd.flag = None /\ r.database \in known
  <1> DEFINE r == X!Resolve(known, cmd)
             i == Found(known, cmd.cwd)
  <1>1. /\ cmd.cwd \in Directory /\ cmd.flag \in Id \cup {None} /\ Root \in Path
        /\ Global \in X!File /\ Directory \subseteq X!File
    BY DEF X!Command, X!File, X!ContextsAssumption
  <1>2. CASE cmd.flag # None
    <2>1. X!Registered(known, cmd.flag) # None => X!Registered(known, cmd.flag) \in Id
      BY RegisteredIs
    <2>2. r = [database |-> IF X!Registered(known, cmd.flag) # None THEN X!Registered(known, cmd.flag) ELSE cmd.flag,
               path |-> Root, scope |-> "flag", dir |-> None]
      BY <1>2 DEF X!Resolve
    <2>3. QED
      BY <1>1, <1>2, <2>1, <2>2 DEF X!Context, X!Scope
  <1>3. CASE cmd.flag = None
    <2>1. ASSUME NEW f \in X!File, NEW scope \in X!Scope, NEW dir \in Directory \cup {None}, X!Applies(known, f)
          PROVE  X!FromFile(known, f, scope, dir) \in X!Context /\ X!FromFile(known, f, scope, dir).database \in known
      <3>1. X!Registered(known, stored[f].database) \in known /\ stored[f] \in X!Stored
        BY <2>1, RegisteredIs DEF X!Applies
      <3>2. QED
        BY <3>1 DEF X!FromFile, X!Context, X!Stored
    <2>2. r = IF i # 0 THEN X!FromFile(known, X!Dirs[cmd.cwd][i], "project", X!Dirs[cmd.cwd][i])
              ELSE IF X!Applies(known, Global) THEN X!FromFile(known, Global, "global", None)
              ELSE IF Cardinality(known) = 1
              THEN [database |-> CHOOSE id \in known : TRUE, path |-> Root, scope |-> "only", dir |-> None]
              ELSE None
      BY <1>1, <1>3, ResolveIs
    <2>3. i \in 0 .. Len(X!Dirs[cmd.cwd]) /\ (i # 0 => X!Applies(known, X!Dirs[cmd.cwd][i]))
          /\ X!Dirs[cmd.cwd] \in Seq(Directory)
      BY <1>1, FoundIs, DirsClimb
    <2> HIDE DEF i
    <2>4. CASE i # 0
      <3>1. X!Dirs[cmd.cwd][i] \in Directory
        BY <2>3, <2>4
      <3>2. QED
        BY <1>1, <1>3, <2>1, <2>2, <2>3, <2>4, <3>1 DEF X!Scope
    <2>5. CASE i = 0 /\ X!Applies(known, Global)
      BY <1>1, <1>3, <2>1, <2>2, <2>5 DEF X!Scope
    <2>6. CASE i = 0 /\ ~X!Applies(known, Global) /\ Cardinality(known) = 1
      <3>1. known # {}
        BY <2>6, FS_EmptySet
      <3>2. (CHOOSE id \in known : TRUE) \in known
        BY <3>1
      <3>3. QED
        BY <1>1, <1>3, <2>2, <2>6, <3>2 DEF X!Context, X!Scope
    <2>7. CASE i = 0 /\ ~X!Applies(known, Global) /\ Cardinality(known) # 1
      BY <2>2, <2>7
    <2>8. QED
      BY <2>4, <2>5, <2>6, <2>7
  <1>4. QED
    BY <1>2, <1>3

\* What cd asks to store.
CdChange(current, cwd, target) ==
    [scope |-> IF current.scope = "global" THEN "global" ELSE "project",
     dir |-> CASE current.scope = "project" -> current.dir
               [] current.scope = "global" -> None
               [] OTHER -> X!ProjectRoot(cwd),
     database |-> current.database, path |-> target, clear |-> FALSE]

LEMMA CdResolvesIs ==
  ASSUME NEW c \in Client, X!CdResolves(c)
  PROVE  /\ pc[c] = "resolve" /\ UNCHANGED <<ids, stored, remover, ran>>
         /\ \/ X!Returns(c)
            \/ LET current == X!Resolve(listed[c], command[c]) IN
               /\ current # None /\ current.scope # "flag" /\ current.database \in ids
               /\ X!Goes(c, "put") /\ UNCHANGED <<command, listed>>
               /\ context' = [context EXCEPT ![c] = current]
               /\ \E target \in Path : change' = [change EXCEPT ![c] = CdChange(current, command[c].cwd, target)]
  BY DEF X!CdResolves, CdChange

LEMMA CommandTypesKept ==
  ASSUME X!ContextsAssumption, FilesTypes, CommandTypesInv, [X!Next]_(X!vars)
  PROVE  CommandTypesInv'
  <1>1. X!NoCommand \in X!Command /\ X!NoChange \in X!Change
    BY DEF X!NoCommand, X!Command, X!NoChange, X!Change, X!ContextsAssumption
  <1>2. CASE UNCHANGED <<command, context, change, ran>>
    BY <1>2 DEF CommandTypesInv
  <1>3. ASSUME NEW c \in Client, X!Begin(c) PROVE CommandTypesInv'
    <2>1. ran' \in 0 .. MaxCommands /\ context' = context
      BY <1>3 DEF X!Begin, X!Use, X!Clear, X!Cd, CommandTypesInv, X!ContextsAssumption
    <2>2. PICK cmd \in X!Command : command' = [command EXCEPT ![c] = cmd]
      BY <1>3 DEF X!Begin, X!Use, X!Clear, X!Cd
    <2>3. change' = change \/ \E ch \in X!Change : change' = [change EXCEPT ![c] = ch]
      <3>1. CASE X!Use(c)
        <4>1. PICK cmd2 \in X!Command, id \in Id :
                  change' = [change EXCEPT ![c] =
                      [scope |-> IF cmd2.global THEN "global" ELSE "project",
                       dir |-> IF cmd2.global THEN None ELSE X!ProjectRoot(cmd2.cwd),
                       database |-> id, path |-> Root, clear |-> FALSE]]
          BY <3>1 DEF X!Use
        <4>2. X!ProjectRoot(cmd2.cwd) \in Directory /\ Root \in Path
          BY ProjectRootIs DEF X!Command, X!ContextsAssumption
        <4>3. QED
          BY <4>1, <4>2 DEF X!Change
      <3>2. CASE X!Clear(c)
        <4>1. PICK cmd2 \in X!Command :
                  change' = [change EXCEPT ![c] =
                      [scope |-> IF cmd2.global THEN "global" ELSE "project",
                       dir |-> IF cmd2.global THEN None ELSE X!ProjectRoot(cmd2.cwd),
                       database |-> None, path |-> Root, clear |-> TRUE]]
          BY <3>2 DEF X!Clear
        <4>2. X!ProjectRoot(cmd2.cwd) \in Directory /\ Root \in Path
          BY ProjectRootIs DEF X!Command, X!ContextsAssumption
        <4>3. QED
          BY <4>1, <4>2 DEF X!Change
      <3>3. CASE X!Cd(c)
        BY <3>3 DEF X!Cd
      <3>4. QED
        BY <1>3, <3>1, <3>2, <3>3 DEF X!Begin
    <2>4. QED
      BY <2>1, <2>2, <2>3 DEF CommandTypesInv
  <1>4. ASSUME NEW c \in Client, X!Returns(c), UNCHANGED ran PROVE CommandTypesInv'
    BY <1>1, <1>4 DEF X!Returns, CommandTypesInv
  <1>5. ASSUME NEW c \in Client, X!CdResolves(c) PROVE CommandTypesInv'
    <2> DEFINE current == X!Resolve(listed[c], command[c])
    <2>1. CASE X!Returns(c)
      BY <1>4, <1>5, <2>1, CdResolvesIs
    <2>2. CASE ~X!Returns(c)
      <3>1. /\ current # None /\ context' = [context EXCEPT ![c] = current]
            /\ UNCHANGED <<command, ran>>
        BY <1>5, <2>2, CdResolvesIs
      <3>2. PICK target \in Path : change' = [change EXCEPT ![c] = CdChange(current, command[c].cwd, target)]
        BY <1>5, <2>2, CdResolvesIs
      <3>3. command[c] \in X!Command /\ listed[c] \in SUBSET Id
        BY DEF CommandTypesInv, FilesTypes
      <3>4. current \in X!Context
        BY <3>1, <3>3, ResolveTypes
      <3>5. X!ProjectRoot(command[c].cwd) \in Directory
        BY <3>3, ProjectRootIs DEF X!Command
      <3> HIDE DEF current
      <3>6. CdChange(current, command[c].cwd, target) \in X!Change
        BY <3>4, <3>5 DEF CdChange, X!Change, X!Context
      <3>7. QED
        BY <3>1, <3>2, <3>4, <3>6 DEF CommandTypesInv
    <2>3. QED
      BY <2>1, <2>2
  <1>6. ASSUME NEW c \in Client, X!Ask(c) \/ X!Put(c) \/ X!Apply(c) PROVE CommandTypesInv'
    <2>1. (X!Returns(c) /\ UNCHANGED ran) \/ UNCHANGED <<command, context, change, ran>>
      BY <1>6 DEF X!Ask, X!Put, X!Apply
    <2>2. QED
      BY <1>2, <1>4, <2>1
  <1>7. CASE X!Register \/ X!RemoveDatabase \/ X!ClearDatabase \/ X!ClearLooks \/ X!ClearRemoves
    BY <1>2, <1>7 DEF X!Register, X!RemoveDatabase, X!ClearDatabase, X!ClearLooks, X!ClearRemoves, X!clientVars
  <1>8. CASE UNCHANGED X!vars
    BY <1>2, <1>8 DEF X!vars, X!clientVars
  <1>9. QED
    BY <1>3, <1>5, <1>6, <1>7, <1>8 DEF X!Next

\* Every variable keeps its type, whatever overlaps and fails (ContextsTypeOK).
THEOREM ContextsTypes ==
  ASSUME X!ContextsAssumption
  PROVE  X!Spec => [](CommandTypesInv /\ X!ContextsTypeOK)
  <1>1. X!Init => CommandTypesInv
    BY DEF X!Init, CommandTypesInv, X!NoCommand, X!Command, X!NoChange, X!Change, X!ContextsAssumption
  <1>2. FilesTypes /\ CommandTypesInv /\ [X!Next]_(X!vars) => CommandTypesInv'
    BY CommandTypesKept
  <1>3. FilesTypes /\ CommandTypesInv => X!ContextsTypeOK
    BY DEF FilesTypes, CommandTypesInv, X!ContextsTypeOK, Removal
  <1>4. QED
    BY <1>1, <1>2, <1>3, TypesHold, PTL DEF X!Spec

-----------------------------------------------------------------------------
(* Moving inside a database *)

\* The commands of one person at a time; console sessions run next to them.
OneCommand == \A c, d \in Client \ Browser : c = d

\* A session stores the global default only.
SessionsInv == \A c \in Client : pc[c] = "apply" /\ c \in Browser => change[c].scope = "global"

\* What a cd resolved still is what its change names, and no nearer directory
\* has a context.
Nearest(c) ==
    LET dirs == X!Dirs[command[c].cwd] IN
    IF change[c].scope = "global" THEN \A i \in 1 .. Len(dirs) : stored[dirs[i]] \notin X!Stored
    ELSE \E i \in 1 .. Len(dirs) : dirs[i] = change[c].dir /\ \A j \in 1 .. Len(dirs) : j < i => stored[dirs[j]] \notin X!Stored
Moving(c) ==
    /\ c \notin Browser /\ pc[c] \in {"put", "apply"}
    /\ command[c].flag = None /\ ~change[c].clear
    /\ change[c].database = context[c].database /\ context[c].database \in ids
    /\ pc[c] = "apply" => context[c].database \in listed[c]
    /\ Nearest(c)
MovingInv ==
    /\ \A c \in Client : context[c] # None => Moving(c)
    /\ \A c \in Client : pc[c] \in {"ask", "resolve"} => c \notin Browser
    /\ \A c \in Client : pc[c] = "resolve" =>
          \A d \in Directory : stored[d] \in X!Stored => stored[d].database \in listed[c]

LadderInv == FilesTypes /\ SerialInv /\ RemovingInv /\ LeftInv /\ CommandTypesInv /\ SessionsInv

LEMMA SessionsKept ==
  ASSUME X!ContextsAssumption, FilesTypes, CommandTypesInv, SessionsInv, [X!Next]_(X!vars)
  PROVE  SessionsInv'
  <1>1. CASE UNCHANGED <<pc, change>>
    BY <1>1 DEF SessionsInv
  <1>2. ASSUME NEW c \in Client, X!Begin(c) \/ X!Ask(c) \/ X!CdResolves(c) \/ X!Put(c) \/ X!Apply(c)
        PROVE  SessionsInv'
    <2>1. pc'[c] = "apply" => X!Put(c) /\ change' = change /\ ~(change[c].scope # "global" /\ c \in Browser)
      BY <1>2 DEF FilesTypes, X!Begin, X!Use, X!Clear, X!Cd, X!Ask, X!CdResolves, X!Put, X!Apply, X!Goes, X!Returns
    <2>2. \A d \in Client : d # c => pc'[d] = pc[d] /\ change'[d] = change[d]
      BY <1>2 DEF FilesTypes, CommandTypesInv, X!Begin, X!Use, X!Clear, X!Cd, X!Ask, X!CdResolves, X!Put, X!Apply, X!Goes, X!Returns
    <2>3. QED
      BY <2>1, <2>2 DEF SessionsInv
  <1>3. CASE X!Register \/ X!RemoveDatabase \/ X!ClearDatabase \/ X!ClearLooks \/ X!ClearRemoves
    BY <1>1, <1>3 DEF X!Register, X!RemoveDatabase, X!ClearDatabase, X!ClearLooks, X!ClearRemoves, X!clientVars
  <1>4. CASE UNCHANGED X!vars
    BY <1>1, <1>4 DEF X!vars, X!clientVars
  <1>5. QED
    BY <1>2, <1>3, <1>4 DEF X!Next

\* While a command moves, another changes the global file only.
LEMMA OthersStoreGlobally ==
  ASSUME X!ContextsAssumption, OneCommand, FilesTypes, CommandTypesInv, SessionsInv,
         NEW c \in Client, c \notin Browser, NEW d \in Client, d # c,
         X!Begin(d) \/ X!Ask(d) \/ X!CdResolves(d) \/ X!Put(d) \/ X!Apply(d)
  PROVE  \A f \in Directory : stored'[f] = stored[f]
  <1>1. d \in Browser
    BY DEF OneCommand
  <1>2. CASE X!Apply(d)
    <2>1. X!FileOf(change[d]) = Global
      BY <1>1, <1>2 DEF SessionsInv, X!Apply, X!FileOf
    <2>2. stored' = stored \/ \E s : stored' = [stored EXCEPT ![Global] = s]
      BY <1>2, <2>1 DEF X!Apply
    <2>3. \A f \in Directory : f # Global /\ f \in X!File
      BY DEF X!ContextsAssumption, X!File
    <2>4. QED
      BY <2>2, <2>3 DEF FilesTypes
  <1>3. CASE ~X!Apply(d)
    BY <1>3, CommandFrames
  <1>4. QED
    BY <1>2, <1>3

\* What stays for a client when nothing of its own changes.
LEMMA MovingFrame ==
  ASSUME X!ContextsAssumption, FilesTypes, CommandTypesInv, MovingInv, NEW c \in Client,
         pc'[c] = pc[c], command'[c] = command[c], context'[c] = context[c], change'[c] = change[c],
         listed'[c] = listed[c], ids \subseteq ids',
         c \notin Browser => \A f \in Directory : stored'[f] = stored[f]
  PROVE  /\ context'[c] # None => Moving(c)'
         /\ pc'[c] \in {"ask", "resolve"} => c \notin Browser
         /\ pc'[c] = "resolve" => \A d \in Directory : stored'[d] \in X!Stored => stored'[d].database \in listed'[c]
  <1>1. ASSUME context[c] # None PROVE Moving(c)'
    <2>1. Moving(c) /\ command[c].cwd \in Directory
      BY <1>1 DEF MovingInv, CommandTypesInv, X!Command
    <2>2. X!Dirs[command[c].cwd] \in Seq(Directory)
      BY <2>1, DirsClimb
    <2>3. \A i \in 1 .. Len(X!Dirs[command[c].cwd]) :
              stored'[X!Dirs[command[c].cwd][i]] = stored[X!Dirs[command[c].cwd][i]]
      BY <2>1, <2>2 DEF Moving
    <2>4. Nearest(c)'
      BY <2>1, <2>3 DEF Moving, Nearest
    <2>5. QED
      BY <2>1, <2>4 DEF Moving
  <1>2. QED
    BY <1>1 DEF MovingInv

LEMMA CdResolvesMoves ==
  ASSUME X!ContextsAssumption, LadderInv, MovingInv, NEW c \in Client, X!CdResolves(c), ~X!Returns(c)
  PROVE  Moving(c)'
  <1> DEFINE current == X!Resolve(listed[c], command[c])
             cwd == command[c].cwd
             dirs == X!Dirs[cwd]
             i == Found(listed[c], cwd)
  <1>1. /\ pc[c] = "resolve" /\ UNCHANGED <<ids, stored>> /\ c \notin Browser
        /\ current # None /\ current.scope # "flag" /\ current.database \in ids
        /\ X!Goes(c, "put") /\ UNCHANGED <<command, listed>>
        /\ context' = [context EXCEPT ![c] = current]
        /\ \E target \in Path : change' = [change EXCEPT ![c] = CdChange(current, cwd, target)]
    BY CdResolvesIs DEF MovingInv
  <1>2. command[c] \in X!Command /\ listed[c] \in SUBSET Id /\ cwd \in Directory
    BY DEF LadderInv, FilesTypes, CommandTypesInv, X!Command
  <1>3. command[c].flag = None
    BY <1>1, <1>2, ResolveTypes DEF LadderInv
  <1>4. PICK target \in Path : change'[c] = CdChange(current, cwd, target)
    BY <1>1 DEF LadderInv, CommandTypesInv
  <1>5. pc'[c] = "put" /\ context'[c] = current
    BY <1>1 DEF X!Goes, LadderInv, FilesTypes, CommandTypesInv
  <1>6. current = IF i # 0 THEN X!FromFile(listed[c], dirs[i], "project", dirs[i])
                  ELSE IF X!Applies(listed[c], Global) THEN X!FromFile(listed[c], Global, "global", None)
                  ELSE IF Cardinality(listed[c]) = 1
                  THEN [database |-> CHOOSE id \in listed[c] : TRUE, path |-> Root, scope |-> "only", dir |-> None]
                  ELSE None
    BY <1>2, <1>3, ResolveIs
  <1>7. dirs \in Seq(Directory) /\ i \in 0 .. Len(dirs)
        /\ (i = 0 => \A j \in 1 .. Len(dirs) : ~X!Applies(listed[c], dirs[j]))
        /\ (i # 0 => \A j \in 1 .. Len(dirs) : j < i => ~X!Applies(listed[c], dirs[j]))
    BY <1>2, FoundIs, DirsClimb
  <1>8. \A d \in Directory : ~X!Applies(listed[c], d) => stored[d] \notin X!Stored
    <2> SUFFICES ASSUME NEW d \in Directory, stored[d] \in X!Stored
                 PROVE  X!Applies(listed[c], d)
      OBVIOUS
    <2>1. stored[d].database \in listed[c] /\ stored[d].database \in Id
      BY <1>1 DEF MovingInv, X!Stored
    <2>2. None \notin Id
      BY DEF X!ContextsAssumption
    <2>3. X!Registered(listed[c], stored[d].database) = stored[d].database
      BY <2>1 DEF X!Registered
    <2>4. QED
      BY <2>1, <2>2, <2>3 DEF X!Applies
  <1> HIDE DEF current, cwd, i
  <1>9. Nearest(c)'
    <2>1. CASE i # 0
      <3>1. current.scope = "project" /\ current.dir = dirs[i]
        BY <1>6, <2>1 DEF X!FromFile
      <3>2. change'[c].scope = "project" /\ change'[c].dir = dirs[i]
        BY <1>4, <3>1 DEF CdChange
      <3>3. i \in 1 .. Len(dirs) /\ \A j \in 1 .. Len(dirs) : j < i => stored[dirs[j]] \notin X!Stored
        BY <1>7, <1>8, <2>1
      <3>4. QED
        BY <1>1, <3>2, <3>3 DEF Nearest, cwd
    <2>2. CASE i = 0
      <3>1. \A j \in 1 .. Len(dirs) : stored[dirs[j]] \notin X!Stored
        BY <1>7, <1>8, <2>2
      <3>2. current.scope = "global" \/ current.scope = "only"
        BY <1>1, <1>6, <2>2 DEF X!FromFile
      <3>3. CASE current.scope = "global"
        <4>1. change'[c].scope = "global"
          BY <1>4, <3>3 DEF CdChange
        <4>2. QED
          BY <1>1, <3>1, <4>1 DEF Nearest, cwd
      <3>4. CASE current.scope = "only"
        <4>1. change'[c].scope = "project" /\ change'[c].dir = X!ProjectRoot(cwd)
          BY <1>4, <3>4 DEF CdChange
        <4>2. \E j \in 1 .. Len(dirs) : dirs[j] = X!ProjectRoot(cwd)
          BY <1>2, ProjectRootIs
        <4>3. QED
          BY <1>1, <3>1, <4>1, <4>2 DEF Nearest, cwd
      <3>5. QED
        BY <3>2, <3>3, <3>4
    <2>3. QED
      BY <2>1, <2>2
  <1>10. /\ ~change'[c].clear /\ change'[c].database = current.database
    BY <1>4 DEF CdChange
  <1>11. QED
    BY <1>1, <1>3, <1>5, <1>9, <1>10 DEF Moving

LEMMA MovingKept ==
  ASSUME X!ContextsAssumption, ~Overlap, OneCommand, LadderInv, MovingInv, [X!Next]_(X!vars)
  PROVE  MovingInv'
  <1> DEFINE KeepsMoving(c) ==
                /\ context'[c] # None => Moving(c)'
                /\ pc'[c] \in {"ask", "resolve"} => c \notin Browser
                /\ pc'[c] = "resolve" => \A d \in Directory : stored'[d] \in X!Stored => stored'[d].database \in listed'[c]
  <1>1. FilesTypes /\ SerialInv /\ RemovingInv /\ LeftInv /\ CommandTypesInv /\ SessionsInv
    BY DEF LadderInv
  <1>2. (\A c \in Client : KeepsMoving(c)) => MovingInv'
    BY DEF MovingInv
  <1>3. ASSUME UNCHANGED X!clientVars, ids \subseteq ids', UNCHANGED stored
        PROVE  MovingInv'
    <2>1. ASSUME NEW c \in Client PROVE KeepsMoving(c)
      BY <1>1, <1>3, MovingFrame DEF X!clientVars
    <2>2. QED
      BY <1>2, <2>1
  <1>4. ASSUME NEW c \in Client, X!Begin(c) \/ X!Ask(c) \/ X!CdResolves(c) \/ X!Put(c) \/ X!Apply(c)
        PROVE  MovingInv'
    <2>1. ids' = ids /\ remover' = remover
      BY <1>1, <1>4, CommandFrames
    <2>2. \A d \in Client : d # c =>
              /\ pc'[d] = pc[d] /\ command'[d] = command[d] /\ context'[d] = context[d]
              /\ change'[d] = change[d] /\ listed'[d] = listed[d]
      BY <1>1, <1>4 DEF FilesTypes, CommandTypesInv, X!Begin, X!Use, X!Clear, X!Cd, X!Ask, X!CdResolves, X!Put, X!Apply,
             X!Goes, X!Returns
    <2>3. ASSUME NEW d \in Client, d # c PROVE KeepsMoving(d)
      <3>1. d \notin Browser => \A f \in Directory : stored'[f] = stored[f]
        BY <1>1, <1>4, <2>3, OthersStoreGlobally
      <3>2. QED
        BY <1>1, <2>1, <2>2, <2>3, <3>1, MovingFrame
    <2>4. ASSUME X!Returns(c) PROVE KeepsMoving(c)
      BY <1>1, <2>4 DEF X!Returns, X!Goes, FilesTypes, CommandTypesInv
    <2>5. CASE X!Begin(c)
      <3>1. pc[c] = "idle" /\ context' = context /\ pc'[c] \in {"put", "ask"} /\ (pc'[c] = "ask" => c \notin Browser)
        BY <1>1, <2>5 DEF X!Begin, X!Use, X!Clear, X!Cd, X!Goes, FilesTypes
      <3>2. context[c] = None
        BY <3>1 DEF MovingInv, Moving
      <3>3. KeepsMoving(c)
        BY <3>1, <3>2
      <3>4. QED
        BY <1>2, <2>3, <3>3
    <2>6. CASE X!Ask(c)
      <3>1. /\ pc[c] = "ask" /\ pc'[c] = "resolve" /\ listed'[c] = ids
            /\ UNCHANGED <<ids, stored, command, context, change, remover, ran>>
        BY <1>1, <2>6 DEF X!Ask, X!Goes, FilesTypes
      <3>2. context[c] = None /\ c \notin Browser
        BY <3>1 DEF MovingInv, Moving
      <3>3. remover.step = "idle"
        BY <1>1, <3>1 DEF SerialInv
      <3>4. \A d \in Directory : stored[d] \in X!Stored => stored[d].database \in ids
        BY <1>1, <3>3 DEF LeftInv, X!File
      <3>5. KeepsMoving(c)
        BY <3>1, <3>2, <3>4
      <3>6. QED
        BY <1>2, <2>3, <3>5
    <2>7. CASE X!CdResolves(c) /\ ~X!Returns(c)
      <3>1. Moving(c)'
        BY <2>7, CdResolvesMoves
      <3>2. pc'[c] = "put"
        BY <1>1, <2>7, CdResolvesIs DEF X!Goes, FilesTypes
      <3>3. KeepsMoving(c)
        BY <3>1, <3>2
      <3>4. QED
        BY <1>2, <2>3, <3>3
    <2>8. CASE X!Put(c) /\ ~X!Returns(c)
      <3>1. /\ pc[c] = "put" /\ pc'[c] = "apply" /\ listed'[c] = ids
            /\ UNCHANGED <<ids, stored, command, context, change, remover, ran>>
        BY <1>1, <2>8 DEF X!Put, X!Goes, FilesTypes
      <3>2. context[c] # None => Moving(c)
        BY DEF MovingInv
      <3>3. Nearest(c) => Nearest(c)'
        BY <3>1 DEF Nearest
      <3>4. KeepsMoving(c)
        BY <3>1, <3>2, <3>3 DEF Moving
      <3>5. QED
        BY <1>2, <2>3, <3>4
    <2>9. CASE X!Apply(c)
      <3>1. X!Returns(c)
        BY <2>9 DEF X!Apply
      <3>2. QED
        BY <1>2, <2>3, <2>4, <3>1
    <2>10. CASE X!Returns(c)
      BY <1>2, <2>3, <2>4, <2>10
    <2>11. QED
      BY <1>4, <2>5, <2>6, <2>7, <2>8, <2>9, <2>10
  <1>5. CASE X!Register
    BY <1>3, <1>5 DEF X!Register
  <1>6. CASE X!RemoveDatabase
    <2>1. (\A c \in Client : pc[c] = "idle") /\ UNCHANGED X!clientVars
      BY <1>6 DEF X!RemoveDatabase
    <2>2. ASSUME NEW c \in Client PROVE KeepsMoving(c)
      BY <2>1 DEF X!clientVars, MovingInv, Moving
    <2>3. QED
      BY <1>2, <2>2
  <1>7. CASE X!ClearDatabase \/ X!ClearLooks \/ X!ClearRemoves
    <2>1. UNCHANGED X!clientVars /\ remover.step # "idle"
      BY <1>7 DEF X!ClearDatabase, X!ClearLooks, X!ClearRemoves
    <2>2. \A c \in Client : pc[c] = "idle"
      BY <1>1, <2>1 DEF SerialInv
    <2>3. ASSUME NEW c \in Client PROVE KeepsMoving(c)
      BY <2>1, <2>2 DEF X!clientVars, MovingInv, Moving
    <2>4. QED
      BY <1>2, <2>3
  <1>8. CASE UNCHANGED X!vars
    BY <1>3, <1>8 DEF X!vars
  <1>9. QED
    BY <1>4, <1>5, <1>6, <1>7, <1>8 DEF X!Next

\* Resolve, of the files as they are in a state.
AppliesIn(files, known, f) == files[f] \in X!Stored /\ X!Registered(known, files[f].database) # None
FromFileIn(files, known, f, scope, dir) ==
    [database |-> X!Registered(known, files[f].database), path |-> files[f].path,
     scope |-> scope, dir |-> dir]
FoundIn(files, known, d) == First({e \in Directory : AppliesIn(files, known, e)}, d)

LEMMA ResolveIsNext ==
  ASSUME X!ContextsAssumption, NEW CONSTANT cmd, cmd.flag = None, cmd.cwd \in Directory
  PROVE  LET dirs == X!Dirs[cmd.cwd]
             i == FoundIn(stored', ids', cmd.cwd) IN
         /\ i # 0 => X!Resolve(ids, cmd)' = FromFileIn(stored', ids', dirs[i], "project", dirs[i])
         /\ i = 0 /\ AppliesIn(stored', ids', Global)
              => X!Resolve(ids, cmd)' = FromFileIn(stored', ids', Global, "global", None)
  <1> DEFINE dirs == X!Dirs[cmd.cwd]
             T == {e \in Directory : AppliesIn(stored', ids', e)}
             I == {i \in 1 .. Len(dirs) : AppliesIn(stored', ids', dirs[i])}
             J == {i \in 1 .. Len(dirs) : dirs[i] \in T}
             found == IF I # {} THEN X!Min(I) ELSE 0
  <1>1. \A i \in 1 .. Len(dirs) : dirs[i] \in Directory
    BY DirsClimb
  <1>2. I = J
    BY <1>1
  <1>4. FoundIn(stored', ids', cmd.cwd) = IF J # {} THEN X!Min(J) ELSE 0
    BY FirstIsLeast DEF FoundIn
  <1>5. found = FoundIn(stored', ids', cmd.cwd)
    <2> HIDE DEF I, J
    <2>1. QED
      BY <1>2, <1>4
  <1>6. X!Resolve(ids, cmd)' =
          IF found # 0 THEN FromFileIn(stored', ids', dirs[found], "project", dirs[found])
          ELSE IF AppliesIn(stored', ids', Global) THEN FromFileIn(stored', ids', Global, "global", None)
          ELSE IF X!Cardinality(ids') = 1
          THEN [database |-> CHOOSE id \in ids' : TRUE, path |-> Root, scope |-> "only", dir |-> None]
          ELSE None
    BY DEF X!Resolve, X!SelectInSeq, X!Applies, X!FromFile, AppliesIn, FromFileIn
  <1>7. QED
    <2> HIDE DEF found
    <2>1. QED
      BY <1>5, <1>6

\* What a cd stores is what a command in the same directory finds.
LEMMA MovedTo ==
  ASSUME X!ContextsAssumption, LadderInv, MovingInv, [X!Next]_(X!vars),
         NEW c \in Client, NEW CONSTANT cmd, cmd = command[c], pc[c] = "apply", stored' # stored, pc'[c] = "idle", context[c] # None
  PROVE  LET now == X!Resolve(ids, cmd)' IN
         now # None /\ now.database = context[c].database /\ now.path = change[c].path
  <1> DEFINE ch == change[c]
             db == context[c].database
             cwd == cmd.cwd
             dirs == X!Dirs[cwd]
  <1>1. FilesTypes /\ SerialInv /\ RemovingInv /\ LeftInv /\ CommandTypesInv /\ SessionsInv
    BY DEF LadderInv
  <1>2. /\ cmd.flag = None /\ ~ch.clear /\ ch.database = db /\ db \in ids
        /\ db \in listed[c] /\ Nearest(c)
    BY DEF MovingInv, Moving
  <1>3. cmd \in X!Command /\ cwd \in Directory /\ ch.scope \in {"project", "global"} /\ ch.path \in Path
    BY <1>1 DEF CommandTypesInv, X!Command, X!Change
  <1>4. dirs \in Seq(Directory) /\ Len(dirs) \in Nat
    BY <1>3, DirsClimb
  <1>5. X!Apply(c)
    <2>1. ASSUME NEW d \in Client, d # c, X!Begin(d) \/ X!Ask(d) \/ X!CdResolves(d) \/ X!Put(d) \/ X!Apply(d)
          PROVE  pc'[c] = pc[c]
      BY <1>1, <2>1, CommandFrames
    <2>2. X!Begin(c) \/ X!Ask(c) \/ X!CdResolves(c) \/ X!Put(c) => FALSE
      BY DEF X!Begin, X!Ask, X!CdResolves, X!Put
    <2>3. X!Register \/ X!RemoveDatabase \/ X!ClearDatabase \/ X!ClearLooks \/ X!ClearRemoves => pc' = pc
      BY DEF X!Register, X!RemoveDatabase, X!ClearDatabase, X!ClearLooks, X!ClearRemoves, X!clientVars
    <2>4. UNCHANGED X!vars => pc' = pc
      BY DEF X!vars, X!clientVars
    <2>5. QED
      BY <2>1, <2>2, <2>3, <2>4 DEF X!Next
  <1>6. X!Registered(listed[c], db) = db /\ X!Registered(ids, db) = db /\ db \in Id /\ None \notin Id
    BY <1>1, <1>2 DEF X!Registered, FilesTypes, X!ContextsAssumption
  <1> DEFINE new == [database |-> db, path |-> ch.path]
             f == X!FileOf(ch)
  <1>7. ids' = ids /\ stored' = [stored EXCEPT ![f] = new]
    BY <1>2, <1>5, <1>6 DEF X!Apply
  <1>8. new \in X!Stored /\ new.database = db /\ new.path = ch.path
    BY <1>3, <1>6 DEF X!Stored
  <1>9. \A g \in X!File : stored'[g] = IF g = f THEN new ELSE stored[g]
    BY <1>1, <1>7 DEF FilesTypes
  <1>10. Global \in X!File /\ \A d \in Directory : d \in X!File /\ d # Global
    BY DEF X!ContextsAssumption, X!File
  <1>11. \A g \in X!File : AppliesIn(stored', ids', g) => stored'[g] \in X!Stored
    BY DEF AppliesIn
  <1>12. f \in X!File => /\ AppliesIn(stored', ids', f)
                         /\ \A scope \in X!Scope, dir \in Directory \cup {None} : LET r == FromFileIn(stored', ids', f, scope, dir) IN
                               r # None /\ r.database = db /\ r.path = ch.path
    <2> SUFFICES ASSUME f \in X!File
                 PROVE  /\ AppliesIn(stored', ids', f)
                        /\ \A scope \in X!Scope, dir \in Directory \cup {None} : LET r == FromFileIn(stored', ids', f, scope, dir) IN
                               r # None /\ r.database = db /\ r.path = ch.path
      OBVIOUS
    <2>1. stored'[f] = new
      BY <1>9
    <2>2. stored'[f] \in X!Stored /\ stored'[f].database = db /\ stored'[f].path = ch.path
      BY <1>8, <2>1
    <2>3. X!Registered(ids', stored'[f].database) = db
      BY <1>6, <1>7, <2>2
    <2>4. ASSUME NEW scope \in X!Scope, NEW dir \in Directory \cup {None}
          PROVE  FromFileIn(stored', ids', f, scope, dir) \in X!Context
      BY <1>3, <1>6, <2>2, <2>3, <2>4 DEF FromFileIn, X!Context
    <2>5. X!Context \cap {None} = {}
      BY DEF X!ContextsAssumption
    <2>6. AppliesIn(stored', ids', f)
      BY <1>6, <2>2, <2>3 DEF AppliesIn
    <2>7. \A scope, dir : LET r == FromFileIn(stored', ids', f, scope, dir) IN r.database = db /\ r.path = ch.path
      BY <2>2, <2>3 DEF FromFileIn
    <2>8. QED
      BY <2>4, <2>5, <2>6, <2>7
  <1> DEFINE now == X!Resolve(ids, cmd)'
             T == {e \in Directory : AppliesIn(stored', ids', e)}
             k == FoundIn(stored', ids', cwd)
  <1>13. /\ k \in 0 .. Len(dirs)
         /\ k = 0 => \A j \in 1 .. Len(dirs) : dirs[j] \notin T
         /\ k # 0 => dirs[k] \in T /\ \A j \in 1 .. Len(dirs) : j < k => dirs[j] \notin T
    BY <1>3, FirstIs DEF FoundIn
  <1>14. /\ k # 0 => now = FromFileIn(stored', ids', dirs[k], "project", dirs[k])
         /\ k = 0 /\ AppliesIn(stored', ids', Global) => now = FromFileIn(stored', ids', Global, "global", None)
    BY <1>2, <1>3, ResolveIsNext
  <1>15. {"project", "global"} \subseteq X!Scope /\ None \in Directory \cup {None}
    BY DEF X!Scope
  <1> HIDE DEF now, k, T, dirs, db, ch, new, f, cwd
  <1>16. CASE ch.scope = "global"
    <2>1. f = Global
      BY <1>16 DEF f, ch, X!FileOf
    <2>2. \A i \in 1 .. Len(dirs) : stored[dirs[i]] \notin X!Stored
      BY <1>2, <1>16 DEF Nearest, dirs, cwd, ch
    <2>3. \A i \in 1 .. Len(dirs) : dirs[i] \notin T
      <3>1. \A i \in 1 .. Len(dirs) : dirs[i] \in Directory
        BY <1>4
      <3>2. \A i \in 1 .. Len(dirs) : stored'[dirs[i]] = stored[dirs[i]]
        BY <1>9, <1>10, <2>1, <3>1
      <3>3. QED
        BY <1>10, <1>11, <2>2, <3>1, <3>2 DEF T
    <2>4. k = 0
      BY <1>4, <1>13, <2>3
    <2>5. now = FromFileIn(stored', ids', f, "global", None)
      BY <1>10, <1>12, <1>14, <2>1, <2>4
    <2>6. QED
      BY <1>10, <1>12, <1>15, <2>1, <2>5 DEF now, db, ch
  <1>17. CASE ch.scope = "project"
    <2>1. f = ch.dir
      BY <1>17 DEF f, ch, X!FileOf
    <2>2. PICK i \in 1 .. Len(dirs) : dirs[i] = ch.dir /\ \A j \in 1 .. Len(dirs) : j < i => stored[dirs[j]] \notin X!Stored
      BY <1>2, <1>17 DEF Nearest, dirs, cwd, ch
    <2>3. \A j \in 1 .. Len(dirs) : dirs[j] \in Directory
      BY <1>4
    <2>4. dirs[i] \in T /\ f \in X!File
      BY <1>10, <1>12, <2>1, <2>2, <2>3 DEF T
    <2>5. k # 0 /\ k \in 1 .. Len(dirs) /\ dirs[k] \in T /\ k <= i
      BY <1>4, <1>13, <2>2, <2>4
    <2>6. dirs[k] = f
      <3> SUFFICES ASSUME dirs[k] # f PROVE FALSE
        OBVIOUS
      <3>1. dirs[k] \in Directory /\ dirs[k] \in X!File /\ AppliesIn(stored', ids', dirs[k])
        BY <1>10, <2>5 DEF T
      <3>2. stored[dirs[k]] \in X!Stored
        BY <1>9, <1>11, <3>1
      <3>3. k < i
        BY <1>4, <2>1, <2>2, <2>5
      <3>4. QED
        BY <2>2, <2>5, <3>2, <3>3
    <2>7. now = FromFileIn(stored', ids', f, "project", f) /\ f \in Directory
      BY <1>14, <2>3, <2>5, <2>6
    <2>8. QED
      BY <1>12, <1>15, <2>4, <2>7 DEF now, db, ch
  <1>18. QED
    BY <1>3, <1>16, <1>17 DEF ch

LEMMA LadderHolds ==
  ASSUME X!ContextsAssumption, ~Overlap, ~Failing, OneCommand
  PROVE  X!Spec => [](LadderInv /\ MovingInv)
  <1>1. X!Init => LeftInv
    BY DEF X!Init, LeftInv, X!ContextsAssumption, X!Stored
  <1>2. X!Init => SessionsInv /\ MovingInv
    BY DEF X!Init, SessionsInv, MovingInv, Moving
  <1>3. FilesTypes /\ SerialInv /\ RemovingInv /\ LeftInv /\ [X!Next]_(X!vars) => LeftInv'
    BY LeftKept
  <1>4. FilesTypes /\ CommandTypesInv /\ SessionsInv /\ [X!Next]_(X!vars) => SessionsInv'
    BY SessionsKept
  <1>5. LadderInv /\ MovingInv /\ [X!Next]_(X!vars) => MovingInv'
    BY MovingKept
  <1>6. X!Spec => []CommandTypesInv
    BY ContextsTypes, PTL
  <1>7. LadderInv <=> FilesTypes /\ SerialInv /\ RemovingInv /\ LeftInv /\ CommandTypesInv /\ SessionsInv
    BY DEF LadderInv
  <1>8. QED
    BY <1>1, <1>2, <1>3, <1>4, <1>5, <1>6, <1>7, ForgetHolds, PTL DEF X!Spec

\* After cd, a command in the same directory acts on the database cd was in, in
\* the place it moved to, when one command runs at a time next to console
\* sessions and none while a database is removed.  CdMoves
\* (cli/context.go:222-243).
THEOREM CdMovesOn ==
  ASSUME X!ContextsAssumption, ~Overlap, ~Failing, OneCommand
  PROVE  X!Spec => X!CdMoves
  <1> DEFINE Moves == \A c \in Client : \A cmd \in {command[c]} :
                 pc[c] = "apply" /\ stored' # stored /\ pc'[c] = "idle" /\ context[c] # None
                 => LET now == X!Resolve(ids, cmd)' IN
                    now # None /\ now.database = context[c].database /\ now.path = change[c].path
  <1>1. LadderInv /\ MovingInv /\ [X!Next]_(X!vars) => [Moves]_(X!vars)
    <2> SUFFICES ASSUME LadderInv, MovingInv, [X!Next]_(X!vars), NEW c \in Client, NEW CONSTANT cmd \in {command[c]},
                        pc[c] = "apply", stored' # stored, pc'[c] = "idle", context[c] # None
                 PROVE  LET now == X!Resolve(ids, cmd)' IN
                        now # None /\ now.database = context[c].database /\ now.path = change[c].path
      OBVIOUS
    <2>1. cmd = command[c]
      OBVIOUS
    <2>2. QED
      BY <2>1, MovedTo
  <1>2. QED
    BY <1>1, LadderHolds, PTL DEF X!CdMoves, X!Spec

=============================================================================
