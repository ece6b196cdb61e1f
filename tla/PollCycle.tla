------------------------------ MODULE PollCycle ------------------------------
(* One device's poll cycle (src/server/poll_cycle.py, state_store.py,         *)
(* device_policy.py): detect, pace, render, publish panel.bin, record in      *)
(* history.db, persist poll_state.json. A cycle runs under poll.lock, so two  *)
(* never overlap; what a crash or a failed write leaves behind is what three  *)
(* files, written one after the other, say to the next cycle.                 *)
(*                                                                            *)
(* Settings, battery reading, location and sighting are read once per cycle   *)
(* and are free inputs here. A time stamp is kept as its age in timer periods *)
(* (POLL_INTERVAL_S): Tick adds one to every age.                             *)
EXTENDS Integers, Sequences

CONSTANTS Hexes,          \* the aircraft
          Rates,          \* vertical rates seen, of {"climb", "descend", "level", "unknown"}
          Corroborations, \* values of the sighting's corroborated flag
          None,           \* Python's None
          MinAdvance,     \* MIN_ADVANCE_INTERVAL_S, in periods
          MaxStaleness,   \* MAX_STALENESS_S, in periods
          MaxPending,     \* MAX_PENDING_FLIGHTS
          Readings,       \* battery_mv values the device may have reported
          Enabled,        \* values display_enabled may take
          Quiet,          \* whether a quiet-hours window may be open
          Located,        \* whether the device may have a usable location
          Position,       \* the device watches a position, not a runway
          MaxBack,        \* how many periods the wall clock may step back
          Crashes,        \* a cycle may die between two of its writes
          HistoryFails    \* history.db may refuse a read or a write

Flights == [hex: Hexes, rate: Rates, corroborated: Corroborations]
States == {"none", "departing", "arriving", "overhead"}
Holds == {"none", "battery_empty", "display_off", "quiet_hours"}
Rows == [hex: Hexes, state: States, corroborated: Corroborations]
Ages == (-MaxBack) .. (MaxStaleness + MinAdvance)
Entries == [flight: Flights, age: Ages]

FlightOrNone == Flights \cup {None}
Canvas == [screen: {"none", "empty", "departing", "arriving", "overhead",
                    "battery_empty", "display_off", "quiet_hours"},
           flight: Hexes \cup {None},
           prev: [hex: Hexes, state: States] \cup {None},
           fault: BOOLEAN, low: BOOLEAN]
PollState == [hold: Holds, noLocation: BOOLEAN, critical: BOOLEAN, low: BOOLEAN,
              cur: FlightOrNone, state: States, prev: FlightOrNone, prevState: States,
              pending: Seq(Entries), since: Ages, recorded: Rows \cup {None}]

ASSUME PollAssumption ==
    /\ Rates \subseteq {"climb", "descend", "level", "unknown"}
    /\ MinAdvance \in Nat \ {0} /\ MaxStaleness \in Nat /\ MaxPending \in Nat \ {0}
    /\ MaxBack \in Nat /\ Readings \subseteq Nat
    /\ Corroborations \subseteq BOOLEAN
    /\ Enabled \subseteq BOOLEAN /\ Quiet \subseteq BOOLEAN /\ Located \subseteq BOOLEAN
    /\ {Position, Crashes, HistoryFails} \subseteq BOOLEAN
    /\ FALSE \in Located => Position      \* a tracked runway needs no location
    /\ None \notin Hexes \cup Flights \cup Rows \cup Canvas

VARIABLES st,      \* poll_state.json
          panel,   \* what panel.bin shows
          fault,   \* META_SOURCE_FAULT in history.db
          row,     \* the newest row of runway_events, or None
          pc,      \* the write the running cycle makes next, "idle" between cycles
          ctx,     \* what the running cycle has decided to write
          outage,  \* history: the last live cycle found every provider down
          gap      \* history: periods since the current slot last changed aircraft

vars == <<st, panel, fault, row, pc, ctx, outage, gap>>

-----------------------------------------------------------------------------
(* The battery latches and the hold decision.                                 *)

Hysteresis(mv, active, set, clear) ==
    IF mv = 0 THEN active ELSE IF active THEN mv < clear ELSE mv <= set

Low(mv, active) == Hysteresis(mv, active, 3500, 3600)
Critical(mv, active) == Hysteresis(mv, active, 3300, 3700)

DecideHold(critical, enabled, quiet) ==
    IF critical THEN "battery_empty"
    ELSE IF ~enabled THEN "display_off"
    ELSE IF quiet THEN "quiet_hours" ELSE "none"

(* The inferred configuration holds its last value inside the deadband; in    *)
(* position mode a level aircraft is drawn as overhead.                       *)
Infer(flight, held) ==
    CASE flight.rate = "climb" -> "departing"
      [] flight.rate = "descend" -> "arriving"
      [] OTHER -> held

Display(flight, held) ==
    IF Position /\ flight.rate = "level" THEN "overhead" ELSE held

-----------------------------------------------------------------------------
(* The screens.                                                               *)

Screen(screen, flight, prev, bad, low) ==
    [screen |-> screen, flight |-> flight, prev |-> prev, fault |-> bad, low |-> low]

HoldScreen(kind, bad, low) ==
    IF kind = "battery_empty" THEN Screen(kind, None, None, FALSE, FALSE)
    ELSE Screen(kind, None, None, bad, low)

EmptyBoard(bad, low) == Screen("empty", None, None, bad, low)

Previous(s) ==
    IF s.prev = None THEN None
    ELSE [hex |-> s.prev.hex, state |-> Display(s.prev, s.prevState)]

Board(s, bad, low) ==
    IF s.cur = None \/ (s.cur # None /\ Display(s.cur, s.state) = "none")
    THEN EmptyBoard(bad, low)
    ELSE Screen(Display(s.cur, s.state), s.cur.hex, Previous(s), bad, low)

-----------------------------------------------------------------------------
(* The pacing queue.                                                          *)

Due(s) == s.since < 0 \/ s.since >= MinAdvance

\* mutant: a queued aircraft that is detected again is queued again.
Enqueue_twice(pending, flight) ==
    LET longer == Append(pending, [flight |-> flight, age |-> 0])
    IN  IF Len(longer) > MaxPending THEN Tail(longer) ELSE longer

\* mutant: detecting a queued aircraft again restarts its wait.
Enqueue_restarts(pending, flight) ==
    IF \E i \in 1..Len(pending) : pending[i].flight.hex = flight.hex
    THEN [i \in 1..Len(pending) |->
            IF pending[i].flight.hex = flight.hex
            THEN [flight |-> flight, age |-> 0] ELSE pending[i]]
    ELSE LET longer == Append(pending, [flight |-> flight, age |-> 0])
         IN  IF Len(longer) > MaxPending THEN Tail(longer) ELSE longer

Enqueue(pending, flight) ==
    IF \E i \in 1..Len(pending) : pending[i].flight.hex = flight.hex
    THEN [i \in 1..Len(pending) |->
            IF pending[i].flight.hex = flight.hex
            THEN [pending[i] EXCEPT !.flight = flight] ELSE pending[i]]
    ELSE LET longer == Append(pending, [flight |-> flight, age |-> 0])
         IN  IF Len(longer) > MaxPending THEN Tail(longer) ELSE longer

\* the position pop_fresh_pending() stops at, past the end when all are stale
FirstFresh(pending) ==
    CHOOSE i \in 1..(Len(pending) + 1) :
        /\ i <= Len(pending) => pending[i].age <= MaxStaleness
        /\ \A j \in 1..(i - 1) : pending[j].age > MaxStaleness

Bootstrap(s, sight) == sight # None /\ s.cur = None
Refreshed(s, sight) == sight # None /\ s.cur # None /\ s.cur.hex = sight.hex

\* the queue and the current flight once this cycle's sighting is filed
Filed(s, sight) ==
    IF sight = None \/ s.cur = None THEN s
    ELSE IF s.cur.hex = sight.hex THEN [s EXCEPT !.cur = sight]
    ELSE [s EXCEPT !.pending = Enqueue(s.pending, sight)]

\* mutant: the queue drains only on a cycle that detected something.
Drains_sighted(s, sight) ==
    sight # None /\ ~Bootstrap(s, sight) /\ Filed(s, sight).pending # <<>> /\ Due(s)

Drains(s, sight) == ~Bootstrap(s, sight) /\ Filed(s, sight).pending # <<>> /\ Due(s)

Promoted(s, sight) ==
    IF Bootstrap(s, sight) THEN sight
    ELSE LET q == Filed(s, sight).pending
             i == FirstFresh(q)
         IN  IF Drains(s, sight) /\ i <= Len(q) THEN q[i].flight ELSE None

\* mutant: the first aircraft after an empty frame leaves no advance time.
Advanced_unmarked(s, sight) ==
    LET f == Filed(s, sight)
        rest == IF Drains(s, sight)
                THEN SubSeq(f.pending, FirstFresh(f.pending) + 1, Len(f.pending))
                ELSE f.pending
        next == Promoted(s, sight)
    IN  IF next = None THEN [f EXCEPT !.pending = rest]
        ELSE [f EXCEPT !.pending = rest, !.cur = next,
                       !.since = IF f.cur = None THEN @ ELSE 0,
                       !.prev = IF f.cur = None THEN @ ELSE f.cur,
                       !.prevState = IF f.cur = None THEN @ ELSE f.state]

\* mutant: what is stamped is when the next advance is due.
Advanced_scheduled(s, sight) ==
    LET f == Filed(s, sight)
        rest == IF Drains(s, sight)
                THEN SubSeq(f.pending, FirstFresh(f.pending) + 1, Len(f.pending))
                ELSE f.pending
        next == Promoted(s, sight)
    IN  IF next = None THEN [f EXCEPT !.pending = rest]
        ELSE [f EXCEPT !.pending = rest, !.cur = next, !.since = -MinAdvance,
                       !.prev = IF f.cur = None THEN @ ELSE f.cur,
                       !.prevState = IF f.cur = None THEN @ ELSE f.state]

Advanced(s, sight) ==
    LET f == Filed(s, sight)
        rest == IF Drains(s, sight)
                THEN SubSeq(f.pending, FirstFresh(f.pending) + 1, Len(f.pending))
                ELSE f.pending
        next == Promoted(s, sight)
    IN  IF next = None THEN [f EXCEPT !.pending = rest]
        ELSE [f EXCEPT !.pending = rest, !.cur = next, !.since = 0,
                       !.prev = IF f.cur = None THEN @ ELSE f.cur,
                       !.prevState = IF f.cur = None THEN @ ELSE f.state]

-----------------------------------------------------------------------------
(* What a cycle decides to write: the state, a canvas or None, a runway_events *)
(* row or None, and the fault flag.                                            *)

Decision(branch, s, canvas, event, bad) ==
    [branch |-> branch, st |-> s, canvas |-> canvas, row |-> event, fault |-> bad]

\* _last_source_fault(): a failed read counts as no fault
LastFault == IF HistoryFails THEN {fault, FALSE} ELSE {fault}

\* mutant: a hold screen is drawn only when no hold was active before.
HoldCycle_once(s, kind, bad) ==
    Decision("hold", [s EXCEPT !.hold = kind],
             IF s.hold = "none" THEN HoldScreen(kind, bad, s.low) ELSE None, None, bad)

HoldCycle(s, kind, bad) ==
    LET draws == s.hold = "none" \/ ((s.hold = "battery_empty") # (kind = "battery_empty"))
    IN  Decision("hold", [s EXCEPT !.hold = kind],
                 IF draws THEN HoldScreen(kind, bad, s.low) ELSE None, None, bad)

NoLocationCycle(s, bad) ==
    Decision("no_location", [s EXCEPT !.noLocation = TRUE], EmptyBoard(bad, s.low), None, bad)

\* load_display_slots() clears both latches on the way out of a hold
Exits(s) == s.hold # "none" \/ s.noLocation
\* mutant: leaving a hold or the set-a-location screen forgets the last row.
Loaded_anew(s) ==
    [s EXCEPT !.hold = "none", !.noLocation = FALSE,
              !.recorded = IF Exits(s) THEN None ELSE @]

Loaded(s) == [s EXCEPT !.hold = "none", !.noLocation = FALSE]

\* _render_promoted(): infer, enrich and record against the current flight
Occupied(s, sight, bad) ==
    LET a == Advanced(Loaded(s), sight)
        confirmed == Infer(a.cur, s.state)
        shown == Display(a.cur, confirmed)
        event == [hex |-> a.cur.hex, state |-> shown, corroborated |-> a.cur.corroborated]
        b == [a EXCEPT !.state = confirmed]
    IN  IF shown = "none" THEN Decision("promoted", b, EmptyBoard(bad, b.low), None, bad)
        ELSE Decision("promoted", [b EXCEPT !.recorded = event], Board(b, bad, b.low),
                      IF event # b.recorded THEN event ELSE None, bad)

\* mutant: a battery icon that comes or goes does not repaint a held board.
Held_silent(s, sight, bad, was, lowChanged) ==
    LET a == Advanced(Loaded(s), sight)
        repaints == bad # was \/ Exits(s)
    IN  Decision("held", a, IF repaints THEN Board(a, bad, a.low) ELSE None, None, bad)

\* mutant: a source fault that comes or goes does not repaint a held board.
Held_faultless(s, sight, bad, was, lowChanged) ==
    LET a == Advanced(Loaded(s), sight)
        repaints == lowChanged \/ Exits(s)
    IN  Decision("held", a, IF repaints THEN Board(a, bad, a.low) ELSE None, None, bad)

\* _render_held(): repaint only when a badge changes or a hold ends
Held(s, sight, bad, was, lowChanged) ==
    LET a == Advanced(Loaded(s), sight)
        repaints == bad # was \/ lowChanged \/ Exits(s)
    IN  Decision("held", a, IF repaints THEN Board(a, bad, a.low) ELSE None, None, bad)

LiveCycle(s, sight, bad, was, lowChanged) ==
    IF Promoted(Loaded(s), sight) # None \/ Refreshed(s, sight) THEN Occupied(s, sight, bad)
    ELSE IF s.cur # None THEN Held(s, sight, bad, was, lowChanged)
    ELSE Decision("empty", Advanced(Loaded(s), sight), EmptyBoard(bad, s.low), None, bad)

-----------------------------------------------------------------------------
(* A cycle: poll.lock is taken, the files are read and the cycle decided; then *)
(* panel.bin, history.db and poll_state.json are written, in that order.       *)

Fresh == [hold |-> "none", noLocation |-> FALSE, critical |-> FALSE, low |-> FALSE,
          cur |-> None, state |-> "none", prev |-> None, prevState |-> "none",
          pending |-> <<>>, since |-> MinAdvance, recorded |-> None]

Init == /\ st = Fresh
        /\ panel = Screen("none", None, None, FALSE, FALSE)
        /\ fault = FALSE
        /\ row = None
        /\ pc = "idle"
        /\ ctx = None
        /\ outage = FALSE
        /\ gap = MinAdvance

Latched(mv) == [st EXCEPT !.critical = Critical(mv, @), !.low = Low(mv, @)]

Kind(mv, enabled, quiet) == DecideHold(Critical(mv, st.critical), enabled, quiet)

Decide(decision) ==
    /\ pc = "idle"
    /\ pc' = "publish"
    /\ ctx' = decision
    /\ UNCHANGED <<st, panel, fault, row, gap>>

StartHold == \E mv \in Readings, enabled \in Enabled, quiet \in Quiet, was \in LastFault :
    LET kind == Kind(mv, enabled, quiet) IN
    /\ kind # "none"
    /\ Decide(HoldCycle(Latched(mv), kind, was))
    /\ UNCHANGED outage

StartNoLocation == \E mv \in Readings, was \in LastFault :
    /\ TRUE \in Enabled /\ FALSE \in Quiet /\ FALSE \in Located
    /\ Kind(mv, TRUE, FALSE) = "none"
    /\ Decide(NoLocationCycle(Latched(mv), was))
    /\ UNCHANGED outage

\* a held device the fleet planned without a fetch may be live by now: no
\* provider was asked, so neither a sighting nor a fault
StartLive == \E mv \in Readings, was \in LastFault, bad \in BOOLEAN, sight \in Flights \cup {None} :
    /\ TRUE \in Enabled /\ FALSE \in Quiet /\ TRUE \in Located
    /\ Kind(mv, TRUE, FALSE) = "none"
    /\ bad => sight = None
    /\ Decide(LiveCycle(Latched(mv), sight, bad, was, Latched(mv).low # st.low))
    /\ outage' = bad

Start == StartHold \/ StartNoLocation \/ StartLive

Hex(flight) == IF flight = None THEN None ELSE flight.hex

Publish ==
    /\ pc = "publish"
    /\ pc' = "record"
    /\ panel' = IF ctx.canvas = None THEN panel ELSE ctx.canvas
    /\ UNCHANGED <<st, fault, row, ctx, outage, gap>>

Record ==
    /\ pc = "record"
    /\ pc' = "persist"
    /\ fault' = ctx.fault
    /\ row' = IF ctx.row = None THEN row ELSE ctx.row
    /\ UNCHANGED <<st, panel, ctx, outage, gap>>

\* history is an accessory: a failed transaction is logged and rolled back
RecordFails ==
    /\ HistoryFails
    /\ pc = "record"
    /\ pc' = "persist"
    /\ UNCHANGED <<st, panel, fault, row, ctx, outage, gap>>

Persist ==
    /\ pc = "persist"
    /\ pc' = "idle"
    /\ st' = ctx.st
    /\ ctx' = None
    /\ gap' = IF Hex(ctx.st.cur) # Hex(st.cur) THEN 0 ELSE gap
    /\ UNCHANGED <<panel, fault, row, outage>>

\* the process dies, or a write raises, and the cycle's memory is gone
Crash ==
    /\ Crashes
    /\ pc # "idle"
    /\ pc' = "idle"
    /\ ctx' = None
    /\ UNCHANGED <<st, panel, fault, row, outage, gap>>

Cap(age, n) == IF age >= n THEN n ELSE age
AgedEntry(entry, d) == [entry EXCEPT !.age = Cap(@ + d, MaxStaleness + 1)]
AgedQueue(q, d) == [i \in 1..Len(q) |-> AgedEntry(q[i], d)]
Aged(d) == [st EXCEPT !.since = Cap(@ + d, MinAdvance), !.pending = AgedQueue(@, d)]

Tick ==
    /\ pc = "idle"
    /\ st' = Aged(1)
    /\ gap' = Cap(gap + 1, MinAdvance)
    /\ UNCHANGED <<panel, fault, row, pc, ctx, outage>>

\* the wall clock is set back: every stored instant is nearer, or to come (an
\* age at its cap stands for every older one and may come down from it too)
StepBack == \E d \in 1..MaxBack :
    /\ pc = "idle"
    /\ \A i \in 1..Len(st.pending) : st.pending[i].age - d >= -MaxBack
    /\ st.since - d >= -MaxBack
    /\ st' = Aged(-d)
    /\ UNCHANGED <<panel, fault, row, pc, ctx, outage, gap>>

Next == \/ Start \/ Publish \/ Record \/ RecordFails \/ Persist \/ Crash
        \/ Tick \/ StepBack

\* The timer fires again and again, time passes between cycles, and although
\* cycles may die, not every one of them does.
Fairness == /\ SF_vars(Tick) /\ SF_vars(Start)
            /\ SF_vars(Publish) /\ SF_vars(Record) /\ SF_vars(Persist)

Spec == Init /\ [][Next]_vars
LiveSpec == Spec /\ Fairness

-----------------------------------------------------------------------------
(* Properties.                                                                *)

\* The files have their shape, and no cycle leaves a queue over its limit.
TypeOK ==
    /\ st \in [hold: Holds, noLocation: BOOLEAN, critical: BOOLEAN, low: BOOLEAN,
               cur: FlightOrNone, state: States, prev: FlightOrNone, prevState: States,
               pending: {st.pending}, since: Ages, recorded: Rows \cup {None}]
    /\ \A i \in 1..Len(st.pending) : st.pending[i] \in Entries
    /\ Len(st.pending) <= MaxPending
    /\ panel \in Canvas
    /\ fault \in BOOLEAN /\ outage \in BOOLEAN
    /\ row \in Rows \cup {None}
    /\ pc \in {"idle", "publish", "record", "persist"}
    /\ gap \in 0..MinAdvance

Distinct(s) ==
    /\ s.cur = None => s.prev = None /\ s.pending = <<>>
    /\ s.cur # None /\ s.prev # None => s.cur.hex # s.prev.hex
    /\ \A i \in 1..Len(s.pending) : s.pending[i].flight.hex # s.cur.hex
    /\ \A i, j \in 1..Len(s.pending) :
           s.pending[i].flight.hex = s.pending[j].flight.hex => i = j

\* advance_display_queue(): no aircraft is in two of the slots the poster is
\* built from. The current one is neither drawn again as the previous one nor
\* waiting to be promoted over itself, and none waits twice.
SlotsDistinct == Distinct(st)

\* Between cycles of a live frame panel.bin is the board of what poll_state.json
\* and history.db say: aircraft, inferred state, previous flight and both badges,
\* although most cycles draw nothing (_render_held(), load_display_slots()).
BoardIsState ==
    pc = "idle" /\ st.hold = "none" /\ ~st.noLocation /\ panel.screen # "none" =>
        panel = Board(st, fault, st.low)

\* run_hold_cycle(): once a hold cycle has published, a hold screen is on
\* panel.bin, and it is the BATTERY EMPTY one exactly when the pack is empty.
HoldIsShown ==
    pc \in {"record", "persist"} /\ ctx.branch = "hold" =>
        /\ panel.screen \in Holds \ {"none"}
        /\ (panel.screen = "battery_empty") <=> (ctx.st.hold = "battery_empty")

\* The same for a frame whose screen asking for a location is not on panel.bin.
LocatedHoldIsShown ==
    pc \in {"record", "persist"} /\ ctx.branch = "hold" /\ ~ctx.st.noLocation =>
        /\ panel.screen \in Holds \ {"none"}
        /\ (panel.screen = "battery_empty") <=> (ctx.st.hold = "battery_empty")

\* _should_record_event(): a runway_events row is a transition, never the row
\* before it over again.
RowsAreTransitions == pc = "record" /\ ctx.row # None => ctx.row # row

\* _render_held(): between cycles of a live frame the source-fault badge says
\* whether the last live cycle found every provider down.
FaultBadgeIsTrue ==
    pc = "idle" /\ st.hold = "none" /\ ~st.noLocation /\ panel.screen # "none" =>
        panel.fault = outage

\* advance_is_due(): the current slot changes from one aircraft to another no
\* sooner than MIN_ADVANCE_INTERVAL_S after its last change, whatever cycles die
\* or lose their history write and however often the sighting is refreshed.
AdvancesArePaced ==
    [][st.cur # None /\ st'.cur.hex # st.cur.hex => gap >= MinAdvance]_st

Stale(i) == st.pending[i].age > MaxStaleness
Evictable(i) == i = 1 /\ Len(st.pending) = MaxPending
Waits(i) == \E j \in 1..i :
    /\ j <= Len(st'.pending)
    /\ st'.pending[j].flight.hex = st.pending[i].flight.hex
    /\ st'.pending[j].age >= st.pending[i].age
Advances(i) ==
    /\ st'.cur.hex = st.pending[i].flight.hex
    /\ \A k \in 1..(i - 1) : Stale(k) \/ Evictable(k)

\* enqueue_pending(), pop_fresh_pending(): a queued aircraft keeps its place and
\* its first_seen until it is shown, before every fresh one behind it, unless it
\* has gone stale or is the oldest of a full queue.
QueueIsFifo ==
    [][\A i \in 1..Len(st.pending) : Waits(i) \/ Advances(i) \/ Stale(i) \/ Evictable(i)]_st

Queued(h) == \E i \in 1..Len(st.pending) : st.pending[i].flight.hex = h

\* A live frame's queue drains on quiet cycles too: whatever waits is shown or
\* dropped, it does not wait for the next sighting.
QueueDrains == \A h \in Hexes : Queued(h) ~> ~Queued(h)
=============================================================================
