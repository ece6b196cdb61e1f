--------------------------- MODULE PollCycleProofs ---------------------------
(* What PollCycle keeps for every number of aircraft, every pacing constant   *)
(* and every interleaving of cycles, crashes and clock steps.                 *)
(* Pacing and order of the queue are properties of steps: Follows relates the *)
(* state a cycle is about to save to the one that is stored.                  *)
EXTENDS PollCycle, TLAPS, SequenceTheorems, WellFoundedInduction

-----------------------------------------------------------------------------
(* The pacing queue.                                                          *)

Good(s) == s \in PollState /\ Distinct(s) /\ Len(s.pending) <= MaxPending

\* The latches say nothing about the slots.
LEMMA LatchesKeepGood ==
    ASSUME NEW s, Good(s), NEW t \in PollState,
           t.cur = s.cur, t.prev = s.prev, t.pending = s.pending
    PROVE  Good(t)
BY DEF Good, Distinct

\* enqueue_pending(): filing a sighting of an aircraft that is not on display
\* keeps the queue distinct, within its cap and clear of that display.
LEMMA EnqueueKeeps ==
    ASSUME NEW q \in Seq(Entries), NEW f \in Flights, NEW c, c # f.hex,
           Len(q) <= MaxPending,
           \A i \in 1..Len(q) : q[i].flight.hex # c,
           \A i, j \in 1..Len(q) : q[i].flight.hex = q[j].flight.hex => i = j
    PROVE  LET r == Enqueue(q, f) IN
           /\ r \in Seq(Entries) /\ Len(r) <= MaxPending
           /\ \A i \in 1..Len(r) : r[i].flight.hex # c
           /\ \A i, j \in 1..Len(r) : r[i].flight.hex = r[j].flight.hex => i = j
<1> DEFINE dom == 1..Len(q)
           new == [flight |-> f, age |-> 0]
           longer == Append(q, new)
<1>1. \A i \in dom : q[i] \in Entries
  OBVIOUS
<1>2. new \in Entries
  BY PollAssumption DEF Entries, Ages
<1>3. CASE \E i \in dom : q[i].flight.hex = f.hex
  <2> DEFINE r == [i \in dom |-> IF q[i].flight.hex = f.hex
                                 THEN [q[i] EXCEPT !.flight = f] ELSE q[i]]
  <2>1. Enqueue(q, f) = r
    BY <1>3 DEF Enqueue
  <2>2. \A i \in dom : r[i] \in Entries /\ r[i].flight.hex = q[i].flight.hex
    BY <1>1 DEF Entries
  <2>3. r \in Seq(Entries) /\ Len(r) = Len(q)
    BY <2>2
  <2> QED  BY <2>1, <2>2, <2>3
<1>4. CASE ~\E i \in dom : q[i].flight.hex = f.hex
  <2>1. /\ longer \in Seq(Entries) /\ Len(longer) = Len(q) + 1
        /\ \A i \in dom : longer[i] = q[i]
        /\ longer[Len(q) + 1] = new
    BY <1>2, AppendProperties
  <2>2. \A i \in 1..Len(longer) : longer[i].flight.hex # c
    BY <2>1
  <2>3. \A i, j \in 1..Len(longer) : longer[i].flight.hex = longer[j].flight.hex => i = j
    <3>1. \A i \in dom : longer[i].flight.hex # f.hex
      BY <1>4, <2>1
    <3>2. \A i \in 1..Len(longer) : i \in dom \/ (i = Len(q) + 1 /\ longer[i].flight.hex = f.hex)
      BY <2>1
    <3> QED  BY <2>1, <3>1, <3>2
  <2>4. CASE Len(longer) > MaxPending
    <3>1. Enqueue(q, f) = Tail(longer)
      BY <1>4, <2>4 DEF Enqueue
    <3>2. /\ Tail(longer) \in Seq(Entries) /\ Len(Tail(longer)) = Len(q)
          /\ \A i \in 1..Len(q) : Tail(longer)[i] = longer[i + 1]
      BY <2>1, HeadTailProperties
    <3> QED  BY <2>1, <2>2, <2>3, <3>1, <3>2
  <2>5. CASE ~(Len(longer) > MaxPending)
    <3>1. Enqueue(q, f) = longer
      BY <1>4, <2>5 DEF Enqueue
    <3> QED  BY <2>1, <2>2, <2>3, <2>5, <3>1, PollAssumption
  <2> QED  BY <2>4, <2>5
<1> QED  BY <1>3, <1>4

\* pop_fresh_pending() stops at an entry of the queue, or just past its end.
LEMMA FirstFreshIn ==
    ASSUME NEW q \in Seq(Entries)
    PROVE  /\ FirstFresh(q) \in 1..(Len(q) + 1)
           /\ FirstFresh(q) <= Len(q) => q[FirstFresh(q)].age <= MaxStaleness
           /\ \A j \in 1..(FirstFresh(q) - 1) : q[j].age > MaxStaleness
<1> DEFINE stops == {i \in 1..(Len(q) + 1) : i <= Len(q) => q[i].age <= MaxStaleness}
<1>1. stops \subseteq Nat /\ Len(q) + 1 \in stops
  OBVIOUS
<1>2. PICK m \in stops : \A k \in stops : ~(<<k, m>> \in OpToRel(<, Nat))
  BY <1>1, WFMin, NatLessThanWellFounded
<1>3. \A k \in stops : ~(k < m)
  BY <1>1, <1>2 DEF OpToRel
<1>4. \A j \in 1..(m - 1) : q[j].age > MaxStaleness
  <2> SUFFICES ASSUME NEW j \in 1..(m - 1), ~(q[j].age > MaxStaleness) PROVE FALSE
    OBVIOUS
  <2>1. j \in 1..Len(q) /\ j < m
    OBVIOUS
  <2>2. q[j].age \in Int
    <3>1. q[j] \in Entries
      BY <2>1
    <3> QED  BY <3>1 DEF Entries, Ages
  <2>3. j \in stops
    BY <2>1, <2>2, PollAssumption
  <2> QED  BY <1>3, <2>1, <2>3
<1>5. \E i \in 1..(Len(q) + 1) : /\ i <= Len(q) => q[i].age <= MaxStaleness
                                 /\ \A j \in 1..(i - 1) : q[j].age > MaxStaleness
  BY <1>4
<1> QED  BY <1>5 DEF FirstFresh

\* A sighting filed keeps the slots, and touches only the current aircraft's
\* record or the queue.
LEMMA FiledKeeps ==
    ASSUME NEW s, Good(s), NEW sight \in Flights \cup {None}
    PROVE  /\ Good(Filed(s, sight))
           /\ Filed(s, sight).cur = None <=> s.cur = None
           /\ Filed(s, sight).prev = s.prev /\ Filed(s, sight).state = s.state
           /\ Filed(s, sight).prevState = s.prevState /\ Filed(s, sight).low = s.low
           /\ Filed(s, sight).hold = s.hold /\ Filed(s, sight).noLocation = s.noLocation
           /\ Filed(s, sight).recorded = s.recorded
           /\ ~Refreshed(s, sight) => Filed(s, sight).cur = s.cur
<1>1. CASE sight = None \/ s.cur = None
  BY <1>1 DEF Filed, Refreshed
<1>2. CASE sight # None /\ s.cur # None /\ s.cur.hex = sight.hex
  <2>1. Filed(s, sight) = [s EXCEPT !.cur = sight]
    BY <1>2 DEF Filed
  <2>2. sight \in Flights
    BY <1>2
  <2>3. [s EXCEPT !.cur = sight] \in PollState
    BY <2>2 DEF Good, PollState, FlightOrNone
  <2> QED  BY <1>2, <2>1, <2>2, <2>3 DEF Good, Distinct, PollState, Refreshed
<1>3. CASE sight # None /\ s.cur # None /\ s.cur.hex # sight.hex
  <2> DEFINE r == Enqueue(s.pending, sight)
  <2>1. Filed(s, sight) = [s EXCEPT !.pending = r]
    BY <1>3 DEF Filed
  <2>2. /\ r \in Seq(Entries) /\ Len(r) <= MaxPending
        /\ \A i \in 1..Len(r) : r[i].flight.hex # s.cur.hex
        /\ \A i, j \in 1..Len(r) : r[i].flight.hex = r[j].flight.hex => i = j
    <3>1. s.pending \in Seq(Entries) /\ sight \in Flights
      BY <1>3 DEF Good, PollState
    <3> QED  BY <1>3, <3>1, EnqueueKeeps DEF Good, Distinct
  <2> HIDE DEF r
  <2>3. [s EXCEPT !.pending = r] \in PollState
    BY <2>2 DEF Good, PollState
  <2> QED  BY <1>3, <2>1, <2>2, <2>3 DEF Good, Distinct, PollState, Refreshed
<1> QED  BY <1>1, <1>2, <1>3

\* advance_display_queue(): the aircraft that becomes current is no longer
\* queued and is not the one it replaces.
LEMMA AdvancedKeeps ==
    ASSUME NEW s, Good(s), NEW sight \in Flights \cup {None}
    PROVE  /\ Good(Advanced(s, sight))
           /\ Promoted(s, sight) \in Flights \cup {None}
           /\ Advanced(s, sight).cur =
                 IF Promoted(s, sight) = None THEN Filed(s, sight).cur ELSE Promoted(s, sight)
           /\ Promoted(s, sight) = None =>
                 Advanced(s, sight).prev = s.prev /\ Advanced(s, sight).prevState = s.prevState
           /\ Advanced(s, sight).state = s.state /\ Advanced(s, sight).low = s.low
           /\ Advanced(s, sight).hold = s.hold /\ Advanced(s, sight).noLocation = s.noLocation
           /\ Advanced(s, sight).recorded = s.recorded
<1> DEFINE f == Filed(s, sight)
           k == FirstFresh(f.pending)
           rest == IF Drains(s, sight) THEN SubSeq(f.pending, k + 1, Len(f.pending)) ELSE f.pending
           next == Promoted(s, sight)
<1>1. /\ Good(f)
      /\ f.cur = None <=> s.cur = None
      /\ f.prev = s.prev /\ f.state = s.state /\ f.prevState = s.prevState /\ f.low = s.low
      /\ f.hold = s.hold /\ f.noLocation = s.noLocation /\ f.recorded = s.recorded
  BY FiledKeeps
<1>2. f \in PollState /\ f.pending \in Seq(Entries) /\ Len(f.pending) \in Nat
  BY <1>1 DEF Good, PollState
<1>3. k \in 1..(Len(f.pending) + 1)
  BY <1>2, FirstFreshIn
<1>4. Advanced(s, sight) =
        IF next = None THEN [f EXCEPT !.pending = rest]
        ELSE [f EXCEPT !.pending = rest, !.cur = next, !.since = 0,
                       !.prev = IF f.cur = None THEN @ ELSE f.cur,
                       !.prevState = IF f.cur = None THEN @ ELSE f.state]
  BY DEF Advanced
<1>5. next # None => \/ Bootstrap(s, sight) /\ next = sight
                     \/ /\ ~Bootstrap(s, sight) /\ Drains(s, sight)
                        /\ k \in 1..Len(f.pending) /\ next = f.pending[k].flight
  BY <1>2, <1>3 DEF Promoted
<1> HIDE DEF f, k, next
<1>6. /\ rest \in Seq(Entries) /\ Len(rest) <= Len(f.pending)
      /\ \E d \in 0..Len(f.pending) :
            /\ d = IF Drains(s, sight) THEN IF k <= Len(f.pending) THEN k ELSE k - 1 ELSE 0
            /\ \A i \in 1..Len(rest) : i + d \in 1..Len(f.pending) /\ rest[i] = f.pending[i + d]
  <2>1. CASE ~Drains(s, sight)
    BY <1>2, <2>1
  <2>2. CASE Drains(s, sight)
    <3>1. \A i \in (k + 1)..Len(f.pending) : f.pending[i] \in Entries
      BY <1>2, <1>3
    <3>2. /\ rest \in Seq(Entries)
          /\ Len(rest) = IF k + 1 <= Len(f.pending) THEN Len(f.pending) - k ELSE 0
          /\ \A i \in 1..(Len(f.pending) - k) : rest[i] = f.pending[k + i]
      BY <1>2, <1>3, <2>2, <3>1, SubSeqProperties
    <3>3. k <= Len(f.pending) \/ k - 1 = Len(f.pending)
      BY <1>2, <1>3
    <3> QED  BY <1>2, <1>3, <2>2, <3>2, <3>3
  <2> QED  BY <2>1, <2>2
<1> HIDE DEF rest
<1>10. /\ \A i \in 1..Len(rest) : rest[i].flight.hex # f.cur.hex
       /\ \A i, j \in 1..Len(rest) : rest[i].flight.hex = rest[j].flight.hex => i = j
  <2>1. /\ \A i \in 1..Len(f.pending) : f.pending[i].flight.hex # f.cur.hex
        /\ \A i, j \in 1..Len(f.pending) :
              f.pending[i].flight.hex = f.pending[j].flight.hex => i = j
    BY <1>1 DEF Good, Distinct
  <2>2. PICK d \in 0..Len(f.pending) :
          \A i \in 1..Len(rest) : i + d \in 1..Len(f.pending) /\ rest[i] = f.pending[i + d]
    BY <1>6
  <2>3. ASSUME NEW i \in 1..Len(rest), NEW j \in 1..Len(rest),
               rest[i].flight.hex = rest[j].flight.hex
        PROVE  i = j
    <3>1. i + d = j + d
      BY <2>1, <2>2, <2>3
    <3>2. i \in Int /\ j \in Int /\ d \in Int
      BY <2>2
    <3> QED  BY <3>1, <3>2
  <2> QED  BY <2>1, <2>2, <2>3
<1>7. next \in Flights \cup {None}
  <2>1. CASE next = None
    BY <2>1
  <2>2. CASE next # None /\ Bootstrap(s, sight)
    BY <1>5, <2>2
  <2>3. CASE next # None /\ ~Bootstrap(s, sight)
    <3>1. k \in 1..Len(f.pending) /\ next = f.pending[k].flight
      BY <1>5, <2>3
    <3>2. f.pending[k] \in Entries
      BY <1>2, <3>1
    <3> QED  BY <3>1, <3>2 DEF Entries
  <2> QED  BY <2>1, <2>2, <2>3
<1>8. CASE next = None
  <2> DEFINE t == [f EXCEPT !.pending = rest]
  <2>1. Advanced(s, sight) = t /\ t \in PollState
    BY <1>2, <1>4, <1>6, <1>8 DEF PollState
  <2>2. /\ t.cur = f.cur /\ t.prev = f.prev /\ t.prevState = f.prevState /\ t.state = f.state
        /\ t.low = f.low /\ t.hold = f.hold /\ t.noLocation = f.noLocation /\ t.pending = rest
        /\ t.recorded = f.recorded
    BY <1>2 DEF PollState
  <2>3. Distinct(t)
    <3>1. f.cur = None => f.prev = None /\ rest = <<>>
      <4>1. f.cur = None => f.prev = None /\ f.pending = <<>>
        BY <1>1 DEF Good, Distinct
      <4>2. f.cur = None => Len(rest) = 0
        BY <1>6, <4>1
      <4> QED  BY <1>6, <4>1, <4>2
    <3>2. f.cur # None /\ f.prev # None => f.cur.hex # f.prev.hex
      BY <1>1 DEF Good, Distinct
    <3> HIDE DEF t
    <3> QED  BY <1>10, <2>2, <3>1, <3>2 DEF Distinct
  <2>4. Len(t.pending) <= MaxPending
    BY <1>1, <1>2, <1>6, <2>2, PollAssumption DEF Good
  <2> QED  BY <1>1, <1>7, <1>8, <2>1, <2>2, <2>3, <2>4 DEF Good, f, next
<1>9. CASE next # None
  <2> DEFINE p == IF f.cur = None THEN f.prev ELSE f.cur
             ps == IF f.cur = None THEN f.prevState ELSE f.state
             t == [f EXCEPT !.pending = rest, !.cur = next, !.since = 0, !.prev = p, !.prevState = ps]
  <2>1. Advanced(s, sight) = t
    BY <1>2, <1>4, <1>9 DEF PollState
  <2>2. p \in FlightOrNone /\ ps \in States /\ 0 \in Ages
    BY <1>2, PollAssumption DEF PollState, Ages
  <2>3. t \in PollState
    BY <1>2, <1>6, <1>7, <2>2 DEF PollState, FlightOrNone
  <2>4. /\ t.cur = next /\ t.prev = p /\ t.state = f.state
        /\ t.low = f.low /\ t.hold = f.hold /\ t.noLocation = f.noLocation /\ t.pending = rest
        /\ t.recorded = f.recorded
    BY <1>2 DEF PollState
  <2>5. \A i \in 1..Len(rest) : rest[i].flight.hex # next.hex
    <3>1. CASE Bootstrap(s, sight)
      <4>1. f.pending = <<>>
        BY <1>1, <3>1 DEF Bootstrap, Good, Distinct
      <4> QED  BY <1>6, <4>1
    <3>2. CASE ~Bootstrap(s, sight)
      <4>1. Drains(s, sight) /\ k \in 1..Len(f.pending) /\ next = f.pending[k].flight
        BY <1>5, <1>9, <3>2
      <4>2. \A i \in 1..Len(rest) : i + k \in 1..Len(f.pending) /\ rest[i] = f.pending[i + k]
        BY <1>6, <4>1
      <4>3. \A i, j \in 1..Len(f.pending) : f.pending[i].flight.hex = f.pending[j].flight.hex => i = j
        BY <1>1 DEF Good, Distinct
      <4>4. \A i \in 1..Len(rest) : i + k # k
        BY <4>1
      <4> QED  BY <4>1, <4>2, <4>3, <4>4
    <3> QED  BY <3>1, <3>2
  <2>6. p # None => next.hex # p.hex
    <3>1. CASE Bootstrap(s, sight)
      <4>1. f.cur = None /\ f.prev = None
        BY <1>1, <3>1 DEF Bootstrap, Good, Distinct
      <4> QED  BY <4>1
    <3>2. CASE ~Bootstrap(s, sight)
      <4>1. k \in 1..Len(f.pending) /\ next = f.pending[k].flight
        BY <1>5, <1>9, <3>2
      <4>2. f.cur # None
        <5>1. f.pending # <<>>
          BY <4>1
        <5> QED  BY <1>1, <5>1 DEF Good, Distinct
      <4>3. f.pending[k].flight.hex # f.cur.hex
        BY <1>1, <4>1 DEF Good, Distinct
      <4> QED  BY <4>1, <4>2, <4>3
    <3> QED  BY <3>1, <3>2
  <2>7. \A i, j \in 1..Len(rest) : rest[i].flight.hex = rest[j].flight.hex => i = j
    BY <1>10
  <2>8. Distinct(t)
    BY <1>9, <2>4, <2>5, <2>6, <2>7 DEF Distinct
  <2>9. Len(t.pending) <= MaxPending
    BY <1>1, <1>2, <1>6, <2>4, PollAssumption DEF Good
  <2> HIDE DEF t, p, ps
  <2> QED  BY <1>1, <1>7, <1>9, <2>1, <2>3, <2>4, <2>8, <2>9 DEF Good, f, next
<1> QED  BY <1>8, <1>9

-----------------------------------------------------------------------------
(* The screens and what a cycle decides.                                      *)

GoodCtx(c) ==
    /\ c \in [branch: {"hold", "no_location", "promoted", "held", "empty"}, st: PollState,
              canvas: Canvas \cup {None}, row: Rows \cup {None}, fault: BOOLEAN]
    /\ Good(c.st)

LEMMA DisplayIn ==
    ASSUME NEW f, NEW h \in States
    PROVE  Display(f, h) \in States
BY DEF Display, States

LEMMA InferIn ==
    ASSUME NEW f, NEW h \in States
    PROVE  Infer(f, h) \in States
BY DEF Infer, States

LEMMA EmptyIn ==
    ASSUME NEW bad \in BOOLEAN, NEW low \in BOOLEAN
    PROVE  EmptyBoard(bad, low) \in Canvas /\ EmptyBoard(bad, low).screen = "empty"
BY DEF EmptyBoard, Screen, Canvas

LEMMA HoldScreenIn ==
    ASSUME NEW kind \in Holds \ {"none"}, NEW bad \in BOOLEAN, NEW low \in BOOLEAN
    PROVE  HoldScreen(kind, bad, low) \in Canvas /\ HoldScreen(kind, bad, low).screen = kind
BY DEF HoldScreen, Screen, Canvas, Holds

LEMMA BoardIn ==
    ASSUME NEW s \in PollState, NEW bad \in BOOLEAN, NEW low \in BOOLEAN
    PROVE  Board(s, bad, low) \in Canvas /\ Board(s, bad, low).screen # "none"
<1>1. CASE s.cur = None \/ Display(s.cur, s.state) = "none"
  BY <1>1, EmptyIn DEF Board
<1>2. CASE s.cur # None /\ Display(s.cur, s.state) # "none"
  <2>1. Previous(s) \in [hex: Hexes, state: States] \cup {None}
    <3>1. Display(s.prev, s.prevState) \in States
      BY DisplayIn DEF PollState
    <3>2. s.prev # None => s.prev.hex \in Hexes
      BY DEF PollState, FlightOrNone, Flights
    <3> QED  BY <3>1, <3>2 DEF Previous
  <2>2. s.cur.hex \in Hexes
    BY <1>2 DEF PollState, FlightOrNone, Flights
  <2>3. Display(s.cur, s.state) \in {"departing", "arriving", "overhead"}
    BY <1>2, DisplayIn DEF PollState, States
  <2> HIDE DEF Previous
  <2>4. Board(s, bad, low) = Screen(Display(s.cur, s.state), s.cur.hex, Previous(s), bad, low)
    BY <1>2 DEF Board
  <2> QED  BY <2>1, <2>2, <2>3, <2>4 DEF Screen, Canvas
<1> QED  BY <1>1, <1>2

\* A board is drawn from the two display slots and the two badges alone.
LEMMA BoardFrom ==
    ASSUME NEW s, NEW t, s.cur = t.cur, s.state = t.state, s.prev = t.prev,
           s.prevState = t.prevState, NEW bad, NEW low
    PROVE  Board(s, bad, low) = Board(t, bad, low)
BY DEF Board, Previous

LEMMA HoldCycleGood ==
    ASSUME NEW s, Good(s), NEW kind \in Holds \ {"none"}, NEW bad \in BOOLEAN
    PROVE  GoodCtx(HoldCycle(s, kind, bad))
<1> DEFINE t == [s EXCEPT !.hold = kind]
<1>1. t \in PollState /\ t.cur = s.cur /\ t.prev = s.prev /\ t.pending = s.pending
  BY DEF Good, PollState
<1>2. Good(t)
  BY <1>1, LatchesKeepGood
<1>3. HoldScreen(kind, bad, s.low) \in Canvas
  BY HoldScreenIn DEF Good, PollState
<1> QED  BY <1>1, <1>2, <1>3 DEF GoodCtx, HoldCycle, Decision

LEMMA NoLocationCycleGood ==
    ASSUME NEW s, Good(s), NEW bad \in BOOLEAN
    PROVE  GoodCtx(NoLocationCycle(s, bad))
<1> DEFINE t == [s EXCEPT !.noLocation = TRUE]
<1>1. t \in PollState /\ t.cur = s.cur /\ t.prev = s.prev /\ t.pending = s.pending
  BY DEF Good, PollState
<1>2. Good(t)
  BY <1>1, LatchesKeepGood
<1>3. EmptyBoard(bad, s.low) \in Canvas
  BY EmptyIn DEF Good, PollState
<1> QED  BY <1>1, <1>2, <1>3 DEF GoodCtx, NoLocationCycle, Decision

\* a live cycle of a frame whose battery icon was `before` when it began
LiveFrom(s, sight, bad, was, before) == LiveCycle(s, sight, bad, was, s.low # before)

\* What a live cycle decides: no hold, and on the panel the board of its state,
\* which it may leave undrawn only where nothing drawn has changed.
LiveShape(c, s, was, before) ==
    /\ c.branch # "hold" /\ c.st.hold = "none" /\ c.st.noLocation = FALSE
    /\ c.canvas # None => c.canvas = Board(c.st, c.fault, c.st.low)
    /\ c.canvas = None =>
         /\ s.cur # None /\ c.fault = was /\ s.low = before /\ ~Exits(s)
         /\ c.st.cur = s.cur /\ c.st.state = s.state /\ c.st.low = s.low
         /\ c.st.prev = s.prev /\ c.st.prevState = s.prevState
    /\ c.row = None => c.st.recorded = s.recorded
    /\ c.row # None => c.st.recorded = c.row /\ c.row # s.recorded

\* A live cycle that publishes publishes the board of the state it will persist;
\* one that does not has changed nothing the board is drawn from.
LEMMA LiveCycleGood ==
    ASSUME NEW s, Good(s), NEW sight \in Flights \cup {None}, NEW bad \in BOOLEAN,
           NEW was, NEW before, NEW c,
           c = LiveFrom(s, sight, bad, was, before)
    PROVE  GoodCtx(c) /\ LiveShape(c, s, was, before)
<1> DEFINE l == Loaded(s)
           a == Advanced(l, sight)
<1>1. /\ l \in PollState /\ l.cur = s.cur /\ l.prev = s.prev /\ l.pending = s.pending
      /\ l.state = s.state /\ l.prevState = s.prevState /\ l.low = s.low
      /\ l.hold = "none" /\ l.noLocation = FALSE /\ l.recorded = s.recorded
  BY DEF Good, PollState, Loaded, Holds
<1>2. Good(l)
  BY <1>1, LatchesKeepGood
<1>3. /\ Good(a) /\ Promoted(l, sight) \in Flights \cup {None}
      /\ a.cur = IF Promoted(l, sight) = None THEN Filed(l, sight).cur ELSE Promoted(l, sight)
      /\ Promoted(l, sight) = None => a.prev = s.prev /\ a.prevState = s.prevState
      /\ a.state = s.state /\ a.low = s.low /\ a.hold = "none" /\ a.noLocation = FALSE
      /\ a.recorded = s.recorded
  BY <1>1, <1>2, AdvancedKeeps
<1>4. /\ Filed(l, sight).cur = None <=> s.cur = None
      /\ ~Refreshed(l, sight) => Filed(l, sight).cur = s.cur
      /\ Refreshed(l, sight) <=> Refreshed(s, sight)
  BY <1>1, <1>2, FiledKeeps DEF Refreshed
<1>5. a \in PollState /\ s.low \in BOOLEAN /\ s.state \in States
  BY <1>3 DEF Good, PollState
<1> HIDE DEF l, a
<1>6. CASE Promoted(l, sight) # None \/ Refreshed(s, sight)
  <2> DEFINE confirmed == Infer(a.cur, s.state)
             shown == Display(a.cur, confirmed)
             event == [hex |-> a.cur.hex, state |-> shown, corroborated |-> a.cur.corroborated]
             b == [a EXCEPT !.state = confirmed]
             e == [b EXCEPT !.recorded = event]
  <2>1. c = IF shown = "none" THEN Decision("promoted", b, EmptyBoard(bad, b.low), None, bad)
            ELSE Decision("promoted", e, Board(b, bad, b.low),
                          IF event # b.recorded THEN event ELSE None, bad)
    BY <1>6 DEF LiveFrom, LiveCycle, Occupied, l, a
  <2>2. a.cur \in Flights /\ a.cur # None
    <3>1. Refreshed(s, sight) => s.cur # None
      BY DEF Refreshed
    <3>2. a.cur \in FlightOrNone
      BY <1>5 DEF PollState
    <3>3. a.cur # None
      BY <1>3, <1>4, <1>6, <3>1
    <3> QED  BY <3>2, <3>3 DEF FlightOrNone
  <2>3. confirmed \in States /\ shown \in States
    BY <1>5, InferIn, DisplayIn
  <2>4. event \in Rows
    BY <2>2, <2>3 DEF Flights, Rows
  <2> HIDE DEF confirmed, shown, event
  <2>5. /\ b \in PollState /\ b.cur = a.cur /\ b.prev = a.prev /\ b.pending = a.pending
        /\ b.state = confirmed /\ b.prevState = a.prevState /\ b.low = a.low
        /\ b.hold = a.hold /\ b.noLocation = a.noLocation /\ b.recorded = s.recorded
    BY <1>3, <1>5, <2>3 DEF PollState
  <2> HIDE DEF b
  <2>6. /\ e \in PollState /\ e.cur = b.cur /\ e.prev = b.prev /\ e.pending = b.pending
        /\ e.state = b.state /\ e.prevState = b.prevState /\ e.low = b.low
        /\ e.hold = b.hold /\ e.noLocation = b.noLocation /\ e.recorded = event
    BY <2>4, <2>5 DEF PollState
  <2> HIDE DEF e
  <2>7. Good(b) /\ Good(e)
    BY <1>3, <2>5, <2>6, LatchesKeepGood
  <2>8. shown = "none" => Board(b, bad, b.low) = EmptyBoard(bad, b.low)
    BY <2>5 DEF Board, shown
  <2>9. Board(b, bad, b.low) = Board(e, bad, e.low)
    BY <2>6, BoardFrom
  <2>10. Board(b, bad, b.low) \in Canvas
    BY <2>5, BoardIn DEF PollState
  <2>11. None \notin Canvas
    BY PollAssumption
  <2>12. CASE shown = "none"
    <3>1. /\ c.st = b /\ c.canvas = Board(b, bad, b.low) /\ c.canvas = Board(b, c.fault, b.low)
          /\ c.branch = "promoted" /\ c.row = None
          /\ c \in [branch: {"hold", "no_location", "promoted", "held", "empty"}, st: PollState,
                    canvas: Canvas \cup {None}, row: Rows \cup {None}, fault: BOOLEAN]
      BY <2>1, <2>5, <2>8, <2>10, <2>12 DEF Decision
    <3> QED  BY <1>3, <2>5, <2>7, <2>10, <2>11, <3>1 DEF GoodCtx, LiveShape
  <2>13. CASE shown # "none"
    <3>1. /\ c.st = e /\ c.canvas = Board(b, bad, b.low) /\ c.canvas = Board(e, c.fault, e.low)
          /\ c.branch = "promoted" /\ c.row = IF event # s.recorded THEN event ELSE None
          /\ c \in [branch: {"hold", "no_location", "promoted", "held", "empty"}, st: PollState,
                    canvas: Canvas \cup {None}, row: Rows \cup {None}, fault: BOOLEAN]
      BY <2>1, <2>4, <2>5, <2>6, <2>9, <2>10, <2>13 DEF Decision
    <3>2. event # None
      BY <2>4, PollAssumption
    <3> QED  BY <1>3, <2>5, <2>6, <2>7, <2>9, <2>10, <2>11, <3>1, <3>2 DEF GoodCtx, LiveShape
  <2> QED  BY <2>12, <2>13
<1>7. CASE Promoted(l, sight) = None /\ ~Refreshed(s, sight)
  <2>1. a.cur = s.cur
    BY <1>3, <1>4, <1>7
  <2>2. Board(a, bad, a.low) \in Canvas
    BY <1>5, BoardIn DEF PollState
  <2>3. None \notin Canvas
    BY PollAssumption
  <2>4. CASE s.cur # None
    <3> DEFINE repaints == bad # was \/ s.low # before \/ Exits(s)
    <3>1. c = Decision("held", a, IF repaints THEN Board(a, bad, a.low) ELSE None, None, bad)
      BY <1>7, <2>4 DEF LiveFrom, LiveCycle, Held, l, a
    <3>2. /\ c.st = a /\ c.row = None /\ c.canvas = (IF repaints THEN Board(a, bad, a.low) ELSE None)
          /\ c.canvas # None => c.canvas = Board(a, c.fault, a.low)
          /\ ~repaints => c.fault = was
          /\ c.branch = "held"
          /\ c \in [branch: {"hold", "no_location", "promoted", "held", "empty"}, st: PollState,
                    canvas: Canvas \cup {None}, row: Rows \cup {None}, fault: BOOLEAN]
      BY <1>5, <2>2, <2>3, <3>1 DEF Decision
    <3> QED  BY <1>3, <1>7, <2>1, <2>2, <2>3, <2>4, <3>2 DEF GoodCtx, LiveShape
  <2>5. CASE s.cur = None
    <3>1. c = Decision("empty", a, EmptyBoard(bad, s.low), None, bad)
      BY <1>7, <2>5 DEF LiveFrom, LiveCycle, l, a
    <3>2. Board(a, bad, a.low) = EmptyBoard(bad, s.low)
      BY <1>3, <2>1, <2>5 DEF Board
    <3>3. /\ c.st = a /\ c.canvas = Board(a, bad, a.low) /\ c.canvas = Board(a, c.fault, a.low)
          /\ c.branch = "empty" /\ c.row = None
          /\ c \in [branch: {"hold", "no_location", "promoted", "held", "empty"}, st: PollState,
                    canvas: Canvas \cup {None}, row: Rows \cup {None}, fault: BOOLEAN]
      BY <1>5, <2>2, <3>1, <3>2 DEF Decision
    <3> QED  BY <1>3, <2>2, <2>3, <3>3 DEF GoodCtx, LiveShape
  <2> QED  BY <2>4, <2>5
<1> QED  BY <1>6, <1>7

-----------------------------------------------------------------------------
(* The slots, through every step.                                             *)

PollInv ==
    /\ Good(st)
    /\ panel \in Canvas
    /\ fault \in BOOLEAN /\ outage \in BOOLEAN
    /\ row \in Rows \cup {None}
    /\ pc \in {"idle", "publish", "record", "persist"}
    /\ pc # "idle" => GoodCtx(ctx)
    /\ gap \in 0..MinAdvance

LEMMA HysteresisIn ==
    ASSUME NEW mv, NEW active \in BOOLEAN, NEW set, NEW clear
    PROVE  Hysteresis(mv, active, set, clear) \in BOOLEAN
<1>1. (mv < clear) \in BOOLEAN /\ (mv <= set) \in BOOLEAN
  OBVIOUS
<1> QED  BY <1>1, Zenon DEF Hysteresis

LEMMA LatchedGood ==
    ASSUME Good(st), NEW mv \in Readings
    PROVE  /\ Good(Latched(mv)) /\ Low(mv, st.low) \in BOOLEAN
           /\ Latched(mv).low = Low(mv, st.low) /\ Latched(mv).hold = st.hold
           /\ Latched(mv).noLocation = st.noLocation /\ Latched(mv).cur = st.cur
           /\ Latched(mv).state = st.state /\ Latched(mv).prev = st.prev
           /\ Latched(mv).prevState = st.prevState
<1>1. Low(mv, st.low) \in BOOLEAN /\ Critical(mv, st.critical) \in BOOLEAN
  BY HysteresisIn DEF Low, Critical, Good, PollState
<1>2. /\ Latched(mv) \in PollState
      /\ Latched(mv).cur = st.cur /\ Latched(mv).prev = st.prev
      /\ Latched(mv).pending = st.pending
      /\ Latched(mv).low = Low(mv, st.low) /\ Latched(mv).hold = st.hold
      /\ Latched(mv).noLocation = st.noLocation /\ Latched(mv).state = st.state
      /\ Latched(mv).prevState = st.prevState
  BY <1>1 DEF Latched, Good, PollState
<1> QED  BY <1>1, <1>2, LatchesKeepGood

LEMMA KindIn ==
    ASSUME NEW mv, NEW enabled, NEW quiet
    PROVE  Kind(mv, enabled, quiet) \in Holds
BY DEF Kind, DecideHold, Holds

\* Time passing, or the clock being set back, moves ages only.
LEMMA AgedGood ==
    ASSUME Good(st), NEW d \in Int, d = 1 \/ (d < 0 /\ st.since + d >= -MaxBack),
           \A i \in 1..Len(st.pending) : d = 1 \/ st.pending[i].age + d >= -MaxBack
    PROVE  /\ Good(Aged(d))
           /\ Aged(d).cur = st.cur /\ Aged(d).state = st.state /\ Aged(d).prev = st.prev
           /\ Aged(d).prevState = st.prevState /\ Aged(d).low = st.low
           /\ Aged(d).hold = st.hold /\ Aged(d).noLocation = st.noLocation
<1> DEFINE q == st.pending
           r == AgedQueue(q, d)
           t == [st EXCEPT !.since = Cap(@ + d, MinAdvance), !.pending = r]
<1>1. q \in Seq(Entries) /\ st.since \in Ages /\ st \in PollState
  BY DEF Good, PollState
<1>2. \A x \in Ages : Cap(x + d, MaxStaleness + 1) \in Int /\ Cap(x + d, MinAdvance) \in Int
  BY PollAssumption DEF Ages, Cap
<1>3. Cap(st.since + d, MinAdvance) \in Ages
  BY <1>1, PollAssumption DEF Ages, Cap
<1>4. \A i \in 1..Len(q) : AgedEntry(q[i], d) \in Entries /\ AgedEntry(q[i], d).flight = q[i].flight
  <2> SUFFICES ASSUME NEW i \in 1..Len(q)
               PROVE  AgedEntry(q[i], d) \in Entries /\ AgedEntry(q[i], d).flight = q[i].flight
    OBVIOUS
  <2>1. q[i] \in Entries
    BY <1>1
  <2>3. q[i].age \in Ages
    BY <2>1 DEF Entries
  <2>2. Cap(q[i].age + d, MaxStaleness + 1) \in Ages
    BY <2>3, PollAssumption DEF Ages, Cap
  <2> QED  BY <2>1, <2>2 DEF Entries, AgedEntry
<1>5. /\ r \in Seq(Entries) /\ Len(r) = Len(q)
      /\ \A i \in 1..Len(q) : r[i].flight = q[i].flight
  <2>1. Len(q) \in Nat
    BY <1>1
  <2>2. r = [i \in 1..Len(q) |-> AgedEntry(q[i], d)]
    BY DEF AgedQueue
  <2>3. r \in [1..Len(q) -> Entries]
    BY <1>4, <2>2
  <2>4. \A i \in 1..Len(q) : r[i] = AgedEntry(q[i], d)
    BY <2>2
  <2> HIDE DEF r
  <2>5. r \in Seq(Entries) /\ Len(r) = Len(q)
    BY <2>1, <2>3
  <2> QED  BY <1>4, <2>4, <2>5
<1> HIDE DEF r
<1>6. t \in PollState
  BY <1>1, <1>3, <1>5 DEF PollState
<1>7. /\ t.cur = st.cur /\ t.state = st.state /\ t.prev = st.prev /\ t.prevState = st.prevState
      /\ t.low = st.low /\ t.hold = st.hold /\ t.noLocation = st.noLocation /\ t.pending = r
  BY <1>1 DEF PollState
<1>8. Aged(d) = t
  BY DEF Aged, r
<1> HIDE DEF t
<1>9. Distinct(t)
  <2>1. q = <<>> => r = <<>>
    BY <1>1, <1>5
  <2> QED  BY <1>5, <1>7, <2>1 DEF Good, Distinct
<1> QED  BY <1>5, <1>6, <1>7, <1>8, <1>9 DEF Good

LEMMA InitGood == Init => PollInv
<1> SUFFICES ASSUME Init PROVE PollInv
  OBVIOUS
<1>1. MinAdvance \in Ages /\ <<>> \in Seq(Entries) /\ Len(<<>>) = 0
  BY PollAssumption DEF Ages
<1>2. Fresh \in PollState
  BY <1>1 DEF Fresh, PollState, FlightOrNone, Holds, States
<1>3. Distinct(Fresh) /\ Len(Fresh.pending) <= MaxPending
  BY <1>1, PollAssumption DEF Fresh, Distinct
<1>4. Screen("none", None, None, FALSE, FALSE) \in Canvas
  BY DEF Screen, Canvas
<1>5. Good(st) /\ panel \in Canvas
  BY <1>2, <1>3, <1>4 DEF Init, Good
<1>6. gap \in 0..MinAdvance /\ row \in Rows \cup {None} /\ pc = "idle"
  BY PollAssumption DEF Init
<1> QED  BY <1>5, <1>6 DEF Init, PollInv

LEMMA NextGood == PollInv /\ [Next]_vars => PollInv'
<1> SUFFICES ASSUME PollInv, [Next]_vars PROVE PollInv'
  OBVIOUS
<1> USE DEF PollInv
<1>0. \A was \in LastFault : was \in BOOLEAN
  BY DEF LastFault
<1>1. ASSUME NEW c, GoodCtx(c), Decide(c), outage' \in BOOLEAN PROVE PollInv'
  BY <1>1 DEF Decide
<1>2. CASE StartHold
  <2>1. PICK mv \in Readings, enabled \in Enabled, quiet \in Quiet, was \in LastFault :
          LET kind == Kind(mv, enabled, quiet) IN
          kind # "none" /\ Decide(HoldCycle(Latched(mv), kind, was)) /\ UNCHANGED outage
    BY <1>2 DEF StartHold
  <2>2. GoodCtx(HoldCycle(Latched(mv), Kind(mv, enabled, quiet), was))
    BY <1>0, <2>1, KindIn, LatchedGood, HoldCycleGood
  <2> QED  BY <1>1, <2>1, <2>2
<1>3. CASE StartNoLocation
  <2>1. PICK mv \in Readings, was \in LastFault :
          Decide(NoLocationCycle(Latched(mv), was)) /\ UNCHANGED outage
    BY <1>3 DEF StartNoLocation
  <2>2. GoodCtx(NoLocationCycle(Latched(mv), was))
    BY <1>0, LatchedGood, NoLocationCycleGood
  <2> QED  BY <1>1, <2>1, <2>2
<1>4. CASE StartLive
  <2>1. PICK mv \in Readings, was \in LastFault, bad \in BOOLEAN, sight \in Flights \cup {None} :
          /\ Decide(LiveFrom(Latched(mv), sight, bad, was, st.low))
          /\ outage' = bad
    BY <1>4 DEF StartLive, LiveFrom
  <2>2. GoodCtx(LiveFrom(Latched(mv), sight, bad, was, st.low))
    BY <1>0, LatchedGood, LiveCycleGood
  <2> QED  BY <1>1, <2>1, <2>2
<1>5. CASE Publish
  BY <1>5 DEF Publish, GoodCtx
<1>6. CASE Record
  BY <1>6 DEF Record, GoodCtx
<1>7. CASE RecordFails
  BY <1>7 DEF RecordFails
<1>8. CASE Persist
  BY <1>8, PollAssumption DEF Persist, GoodCtx
<1>9. CASE Crash
  BY <1>9 DEF Crash
<1>10. CASE Tick
  <2>1. Good(Aged(1))
    BY AgedGood
  <2> QED  BY <1>10, <2>1, PollAssumption DEF Tick, Cap
<1>11. CASE StepBack
  <2>1. PICK d \in 1..MaxBack :
          /\ \A i \in 1..Len(st.pending) : st.pending[i].age - d >= -MaxBack
          /\ st.since - d >= -MaxBack
          /\ st' = Aged(-d)
    BY <1>11 DEF StepBack
  <2>2. st.since \in Int /\ \A i \in 1..Len(st.pending) : st.pending[i].age \in Int
    <3>1. st.since \in Ages /\ \A i \in 1..Len(st.pending) : st.pending[i].age \in Ages
      <4>1. st.pending \in Seq(Entries) /\ st.since \in Ages
        BY DEF Good, PollState
      <4>2. \A i \in 1..Len(st.pending) : st.pending[i] \in Entries
        BY <4>1
      <4> QED  BY <4>1, <4>2 DEF Entries
    <3> QED  BY <3>1 DEF Ages
  <2>3. d \in Int /\ d > 0 /\ -d \in Int /\ -d < 0
    BY PollAssumption
  <2>4. st.since + (-d) >= -MaxBack
    BY <2>1, <2>2, <2>3, PollAssumption
  <2>5. \A i \in 1..Len(st.pending) : st.pending[i].age + (-d) >= -MaxBack
    BY <2>1, <2>2, <2>3, PollAssumption
  <2>6. Good(Aged(-d))
    BY <2>3, <2>4, <2>5, AgedGood
  <2> QED  BY <1>11, <2>1, <2>6 DEF StepBack
<1>12. CASE UNCHANGED vars
  BY <1>12 DEF vars
<1> QED  BY <1>2, <1>3, <1>4, <1>5, <1>6, <1>7, <1>8, <1>9, <1>10, <1>11, <1>12 DEF Next, Start

LEMMA PollInvariant == Spec => []PollInv
<1> QED  BY InitGood, NextGood, PTL DEF Spec

\* advance_display_queue(): the current, previous and queued aircraft are
\* distinct after every cycle, also across crashes and failed writes.
THEOREM SlotsStayDistinct == Spec => []SlotsDistinct
<1>1. PollInv => SlotsDistinct
  BY DEF PollInv, Good, SlotsDistinct
<1> QED  BY <1>1, PollInvariant, PTL

\* poll_state.json, panel.bin and history.db keep their shape and the queue its
\* cap MAX_PENDING_FLIGHTS.
THEOREM PollTypeCorrect == Spec => []TypeOK
<1>1. PollInv => TypeOK
  <2> SUFFICES ASSUME PollInv PROVE TypeOK
    OBVIOUS
  <2>1. st \in PollState /\ Len(st.pending) <= MaxPending
    BY DEF PollInv, Good
  <2>2. \A i \in 1..Len(st.pending) : st.pending[i] \in Entries
    BY <2>1 DEF PollState
  <2>3. st \in [hold: Holds, noLocation: BOOLEAN, critical: BOOLEAN, low: BOOLEAN,
               cur: FlightOrNone, state: States, prev: FlightOrNone, prevState: States,
               pending: {st.pending}, since: Ages, recorded: Rows \cup {None}]
    BY <2>1 DEF PollState
  <2> QED  BY <2>1, <2>2, <2>3 DEF PollInv, TypeOK
<1> QED  BY <1>1, PollInvariant, PTL

-----------------------------------------------------------------------------
(* The panel, when no cycle dies and history.db takes every write.            *)

Drawn(c, p) == IF c.canvas = None THEN p ELSE c.canvas

Agrees(s, p, bad) ==
    /\ p.screen # "none" /\ s.hold = "none" /\ ~s.noLocation => p = Board(s, bad, s.low)
    /\ p.screen = "none" => s.cur = None /\ s.hold = "none" /\ ~s.noLocation

BoardInv ==
    /\ pc = "idle" => Agrees(st, panel, fault)
    /\ pc = "publish" => Agrees(ctx.st, Drawn(ctx, panel), ctx.fault)
    /\ pc = "record" => Agrees(ctx.st, panel, ctx.fault)
    /\ pc = "persist" => Agrees(ctx.st, panel, fault)

LEMMA AgreesFrom ==
    ASSUME NEW s, NEW t, NEW p, NEW bad, Agrees(s, p, bad),
           s.cur = t.cur, s.state = t.state, s.prev = t.prev, s.prevState = t.prevState,
           s.low = t.low, s.hold = t.hold, s.noLocation = t.noLocation
    PROVE  Agrees(t, p, bad)
<1>1. Board(s, bad, s.low) = Board(t, bad, t.low)
  BY BoardFrom
<1> QED  BY <1>1 DEF Agrees

LEMMA LiveAgrees ==
    ASSUME NEW s, Good(s), NEW sight \in Flights \cup {None}, NEW bad \in BOOLEAN,
           NEW was, NEW before, NEW p, NEW c,
           c = LiveFrom(s, sight, bad, was, before),
           s.low = before => Agrees(s, p, was),
           p.screen = "none" => s.cur = None
    PROVE  Agrees(c.st, Drawn(c, p), c.fault)
<1>0. GoodCtx(c) /\ LiveShape(c, s, was, before)
  BY LiveCycleGood
<1>1. /\ c.st.hold = "none" /\ c.st.noLocation = FALSE
      /\ c.canvas # None => c.canvas = Board(c.st, c.fault, c.st.low)
      /\ c.canvas = None =>
           /\ s.cur # None /\ c.fault = was /\ s.low = before /\ ~Exits(s)
           /\ c.st.cur = s.cur /\ c.st.state = s.state /\ c.st.low = s.low
           /\ c.st.prev = s.prev /\ c.st.prevState = s.prevState
  BY <1>0 DEF LiveShape
<1>2. CASE c.canvas # None
  <2>1. c.st \in PollState /\ c.st.low \in BOOLEAN /\ c.fault \in BOOLEAN
    BY <1>0 DEF GoodCtx, Good, PollState
  <2>2. Board(c.st, c.fault, c.st.low).screen # "none"
    BY <2>1, BoardIn
  <2> QED  BY <1>1, <1>2, <2>2 DEF Agrees, Drawn
<1>3. CASE c.canvas = None
  <2>1. s.noLocation \in BOOLEAN
    BY DEF Good, PollState
  <2>2. s.hold = "none" /\ s.noLocation = FALSE
    BY <1>1, <1>3, <2>1 DEF Exits
  <2>3. Agrees(c.st, p, was)
    BY <1>1, <1>3, <2>2, AgreesFrom
  <2> QED  BY <1>1, <1>3, <2>3 DEF Drawn
<1> QED  BY <1>2, <1>3

LEMMA BoardNext ==
    ASSUME Crashes = FALSE, HistoryFails = FALSE, PollInv, BoardInv, [Next]_vars
    PROVE  BoardInv'
<1> USE DEF BoardInv
<1>1. CASE StartHold
  <2>1. PICK mv \in Readings, enabled \in Enabled, quiet \in Quiet, was \in LastFault :
          LET kind == Kind(mv, enabled, quiet) IN
          kind # "none" /\ Decide(HoldCycle(Latched(mv), kind, was))
    BY <1>1 DEF StartHold
  <2> DEFINE kind == Kind(mv, enabled, quiet)
             l == Latched(mv)
             c == HoldCycle(l, kind, was)
  <2>2. kind \in Holds \ {"none"} /\ was \in BOOLEAN
    BY <2>1, KindIn DEF LastFault, PollInv
  <2>3. l \in PollState /\ l.low \in BOOLEAN /\ l.hold = st.hold
    BY LatchedGood DEF PollInv, Good, PollState
  <2>4. HoldScreen(kind, was, l.low) \in Canvas /\ HoldScreen(kind, was, l.low).screen # "none"
    BY <2>2, <2>3, HoldScreenIn
  <2>5. pc = "idle" /\ pc' = "publish" /\ ctx' = c /\ panel' = panel
    BY <2>1 DEF Decide
  <2> HIDE DEF kind, l
  <2>6. /\ c.st.hold = kind
        /\ c.canvas = IF l.hold = "none" \/ ((l.hold = "battery_empty") # (kind = "battery_empty"))
                      THEN HoldScreen(kind, was, l.low) ELSE None
    BY <2>3 DEF HoldCycle, Decision, PollState
  <2> HIDE DEF c
  <2>7. Drawn(c, panel).screen # "none"
    <3>1. CASE c.canvas = None
      <4>1. l.hold # "none"
        BY <2>4, <2>6, <3>1, PollAssumption
      <4> QED  BY <2>3, <2>5, <3>1, <4>1 DEF Drawn, Agrees
    <3>2. CASE c.canvas # None
      BY <2>4, <2>6, <3>2 DEF Drawn
    <3> QED  BY <3>1, <3>2
  <2>8. Agrees(c.st, Drawn(c, panel), c.fault)
    BY <2>2, <2>6, <2>7 DEF Agrees
  <2> QED  BY <2>5, <2>8
<1>2. CASE StartNoLocation
  <2>1. PICK mv \in Readings, was \in LastFault : Decide(NoLocationCycle(Latched(mv), was))
    BY <1>2 DEF StartNoLocation
  <2> DEFINE l == Latched(mv)
             c == NoLocationCycle(l, was)
  <2>2. l \in PollState /\ l.low \in BOOLEAN /\ was \in BOOLEAN
    BY LatchedGood DEF PollInv, Good, PollState, LastFault
  <2>3. EmptyBoard(was, l.low).screen = "empty" /\ EmptyBoard(was, l.low) \in Canvas
    BY <2>2, EmptyIn
  <2> HIDE DEF l
  <2>4. c.canvas = EmptyBoard(was, l.low) /\ c.st.noLocation = TRUE
    BY <2>2 DEF NoLocationCycle, Decision, PollState
  <2>5. pc' = "publish" /\ ctx' = c /\ panel' = panel
    BY <2>1 DEF Decide, l
  <2> HIDE DEF c
  <2>6. Agrees(c.st, Drawn(c, panel), c.fault)
    BY <2>3, <2>4, PollAssumption DEF Agrees, Drawn
  <2> QED  BY <2>5, <2>6
<1>3. CASE StartLive
  <2>1. PICK mv \in Readings, was \in LastFault, bad \in BOOLEAN, sight \in Flights \cup {None} :
          Decide(LiveFrom(Latched(mv), sight, bad, was, st.low))
    BY <1>3 DEF StartLive, LiveFrom
  <2> DEFINE l == Latched(mv)
             c == LiveFrom(l, sight, bad, was, st.low)
  <2>2. /\ Good(l) /\ l.low = Low(mv, st.low) /\ l.hold = st.hold /\ l.noLocation = st.noLocation
        /\ l.cur = st.cur /\ l.state = st.state /\ l.prev = st.prev /\ l.prevState = st.prevState
    BY LatchedGood DEF PollInv
  <2>3. was = fault
    BY DEF LastFault
  <2>4. pc = "idle" /\ pc' = "publish" /\ ctx' = c /\ panel' = panel
    BY <2>1 DEF Decide
  <2>5. Agrees(st, panel, was)
    BY <2>3, <2>4
  <2>6. Low(mv, st.low) = st.low => Agrees(l, panel, was)
    BY <2>2, <2>5, AgreesFrom
  <2>7. panel.screen = "none" => l.cur = None
    BY <2>2, <2>5 DEF Agrees
  <2>8. was \in BOOLEAN
    BY <2>3 DEF PollInv
  <2>9. Agrees(c.st, Drawn(c, panel), c.fault)
    BY <2>2, <2>6, <2>7, <2>8, LiveAgrees
  <2> QED  BY <2>4, <2>9
<1>4. CASE Publish
  BY <1>4 DEF Publish, Drawn
<1>5. CASE Record
  BY <1>5 DEF Record
<1>6. CASE Persist
  BY <1>6 DEF Persist
<1>7. CASE Tick
  <2>1. /\ Aged(1).cur = st.cur /\ Aged(1).state = st.state /\ Aged(1).prev = st.prev
        /\ Aged(1).prevState = st.prevState /\ Aged(1).low = st.low
        /\ Aged(1).hold = st.hold /\ Aged(1).noLocation = st.noLocation
    BY AgedGood DEF PollInv
  <2>2. pc = "idle" /\ pc' = "idle" /\ st' = Aged(1) /\ panel' = panel /\ fault' = fault
    BY <1>7 DEF Tick
  <2>3. Agrees(Aged(1), panel, fault)
    BY <2>1, <2>2, AgreesFrom
  <2> QED  BY <2>2, <2>3
<1>8. CASE StepBack
  <2>1. PICK d \in 1..MaxBack : st' = Aged(-d)
    BY <1>8 DEF StepBack
  <2>2. /\ Aged(-d).cur = st.cur /\ Aged(-d).state = st.state /\ Aged(-d).prev = st.prev
        /\ Aged(-d).prevState = st.prevState /\ Aged(-d).low = st.low
        /\ Aged(-d).hold = st.hold /\ Aged(-d).noLocation = st.noLocation
    BY DEF Aged, PollInv, Good, PollState
  <2>3. pc = "idle" /\ pc' = "idle" /\ panel' = panel /\ fault' = fault
    BY <1>8 DEF StepBack
  <2>4. Agrees(Aged(-d), panel, fault)
    BY <2>2, <2>3, AgreesFrom
  <2> QED  BY <2>1, <2>3, <2>4
<1>9. CASE UNCHANGED vars
  BY <1>9 DEF vars
<1>10. ~RecordFails /\ ~Crash
  BY DEF RecordFails, Crash
<1> QED  BY <1>1, <1>2, <1>3, <1>4, <1>5, <1>6, <1>7, <1>8, <1>9, <1>10 DEF Next, Start

\* Between cycles of a live frame panel.bin is the board poll_state.json and
\* history.db describe, provided no cycle died between its writes and no history
\* write failed: neither badge, slot nor state drifts from what is persisted.
THEOREM BoardAgrees ==
    ASSUME Crashes = FALSE, HistoryFails = FALSE
    PROVE  Spec => []BoardIsState
<1>1. Init => BoardInv
  BY DEF Init, BoardInv, Agrees, Fresh, Screen
<1>2. PollInv /\ BoardInv /\ [Next]_vars => BoardInv'
  BY BoardNext
<1>3. BoardInv => BoardIsState
  BY DEF BoardInv, Agrees, BoardIsState
<1> QED  BY <1>1, <1>2, <1>3, PollInvariant, PTL DEF Spec

-----------------------------------------------------------------------------
(* The hold screens, when no cycle dies.                                      *)

HoldPanel(p, kind) ==
    /\ p.screen \in Holds \ {"none"}
    /\ (p.screen = "battery_empty") <=> (kind = "battery_empty")

HoldCtx(p) == ctx.st.noLocation = FALSE =>
    /\ ctx.branch # "hold" => ctx.st.hold = "none"
    /\ ctx.branch = "hold" => HoldPanel(p, ctx.st.hold)

HoldInv ==
    /\ pc = "idle" /\ st.noLocation = FALSE /\ st.hold # "none" => HoldPanel(panel, st.hold)
    /\ pc = "publish" => HoldCtx(Drawn(ctx, panel))
    /\ pc \in {"record", "persist"} => HoldCtx(panel)

LEMMA HoldNext ==
    ASSUME Crashes = FALSE, PollInv, HoldInv, [Next]_vars
    PROVE  HoldInv'
<1> USE DEF HoldInv
<1>1. CASE StartHold
  <2>1. PICK mv \in Readings, enabled \in Enabled, quiet \in Quiet, was \in LastFault :
          LET kind == Kind(mv, enabled, quiet) IN
          kind # "none" /\ Decide(HoldCycle(Latched(mv), kind, was))
    BY <1>1 DEF StartHold
  <2> DEFINE kind == Kind(mv, enabled, quiet)
             l == Latched(mv)
             c == HoldCycle(l, kind, was)
  <2>2. kind \in Holds \ {"none"} /\ was \in BOOLEAN
    BY <2>1, KindIn DEF LastFault, PollInv
  <2>3. l \in PollState /\ l.low \in BOOLEAN /\ l.hold = st.hold /\ l.noLocation = st.noLocation
    BY LatchedGood DEF PollInv, Good, PollState
  <2>4. HoldScreen(kind, was, l.low) \in Canvas /\ HoldScreen(kind, was, l.low).screen = kind
    BY <2>2, <2>3, HoldScreenIn DEF HoldScreen, Screen
  <2>5. pc = "idle" /\ pc' = "publish" /\ ctx' = c /\ panel' = panel /\ st' = st
    BY <2>1 DEF Decide
  <2> HIDE DEF kind, l
  <2>6. /\ c.st.hold = kind /\ c.st.noLocation = st.noLocation /\ c.branch = "hold"
        /\ c.canvas = IF l.hold = "none" \/ ((l.hold = "battery_empty") # (kind = "battery_empty"))
                      THEN HoldScreen(kind, was, l.low) ELSE None
    BY <2>3 DEF HoldCycle, Decision, PollState
  <2> HIDE DEF c
  <2>7. c.st.noLocation = FALSE => HoldPanel(Drawn(c, panel), kind)
    <3> SUFFICES ASSUME c.st.noLocation = FALSE
                 PROVE  HoldPanel(Drawn(c, panel), kind)
      OBVIOUS
    <3>1. CASE c.canvas = None
      <4>1. l.hold # "none" /\ ((l.hold = "battery_empty") <=> (kind = "battery_empty"))
        BY <2>4, <2>6, <3>1, PollAssumption
      <4>2. st.noLocation = FALSE /\ st.hold # "none"
        BY <2>3, <2>6, <4>1
      <4>3. HoldPanel(panel, st.hold)
        BY <2>5, <4>2
      <4> QED  BY <2>3, <3>1, <4>1, <4>3 DEF Drawn, HoldPanel
    <3>2. CASE c.canvas # None
      BY <2>2, <2>4, <2>6, <3>2 DEF Drawn, HoldPanel
    <3> QED  BY <3>1, <3>2
  <2> QED  BY <2>5, <2>6, <2>7 DEF HoldCtx
<1>2. CASE StartLive
  <2>1. PICK mv \in Readings, was \in LastFault, bad \in BOOLEAN, sight \in Flights \cup {None} :
          Decide(LiveFrom(Latched(mv), sight, bad, was, st.low))
    BY <1>2 DEF StartLive, LiveFrom
  <2> DEFINE c == LiveFrom(Latched(mv), sight, bad, was, st.low)
  <2>2. LiveShape(c, Latched(mv), was, st.low)
    BY LatchedGood, LiveCycleGood DEF PollInv
  <2>3. pc = "idle" /\ pc' = "publish" /\ ctx' = c /\ panel' = panel /\ st' = st
    BY <2>1 DEF Decide
  <2> HIDE DEF c
  <2> QED  BY <2>2, <2>3 DEF LiveShape, HoldCtx
<1>3. CASE Publish
  BY <1>3 DEF Publish, Drawn, HoldCtx
<1>4. CASE Record
  BY <1>4 DEF Record, HoldCtx
<1>5. CASE RecordFails
  BY <1>5 DEF RecordFails, HoldCtx
<1>6. CASE Persist
  BY <1>6 DEF Persist, HoldCtx, PollInv, GoodCtx
<1>7. CASE Tick
  BY <1>7 DEF Tick, Aged, PollInv, Good, PollState
<1>8. CASE StepBack
  BY <1>8 DEF StepBack, Aged, PollInv, Good, PollState
<1>9. CASE UNCHANGED vars
  BY <1>9 DEF vars, HoldCtx
<1>10. CASE StartNoLocation
  <2>1. PICK mv \in Readings, was \in LastFault : Decide(NoLocationCycle(Latched(mv), was))
    BY <1>10 DEF StartNoLocation
  <2>2. Latched(mv) \in PollState
    BY LatchedGood DEF PollInv, Good
  <2>3. NoLocationCycle(Latched(mv), was).st.noLocation = TRUE
    BY <2>2 DEF NoLocationCycle, Decision, PollState
  <2> QED  BY <2>1, <2>3 DEF Decide, HoldCtx, Drawn
<1>11. ~Crash
  BY DEF Crash
<1> QED  BY <1>1, <1>2, <1>3, <1>4, <1>5, <1>6, <1>7, <1>8, <1>9, <1>10, <1>11 DEF Next, Start

\* run_hold_cycle(): once a hold cycle has published, a hold screen is on
\* panel.bin, the BATTERY EMPTY one exactly for an empty pack, provided no cycle
\* died between its writes, unless the screen asking for a location came before.
THEOREM HoldsAreShown ==
    ASSUME Crashes = FALSE
    PROVE  Spec => []LocatedHoldIsShown
<1>1. Init => HoldInv
  BY DEF Init, HoldInv, Fresh
<1>2. PollInv /\ HoldInv /\ [Next]_vars => HoldInv'
  BY HoldNext
<1>3. PollInv /\ HoldInv => LocatedHoldIsShown
  BY DEF PollInv, GoodCtx, Good, PollState, HoldInv, HoldCtx, HoldPanel, LocatedHoldIsShown
<1> QED  BY <1>1, <1>2, <1>3, PollInvariant, PTL DEF Spec

-----------------------------------------------------------------------------
(* The source-fault badge, under the assumptions of BoardAgrees.              *)

FaultInv ==
    /\ pc \in {"idle", "persist"} => fault = outage
    /\ pc \in {"publish", "record"} => ctx.fault = outage

LEMMA LiveFault ==
    ASSUME NEW s, NEW sight, NEW bad, NEW was, NEW before
    PROVE  LiveFrom(s, sight, bad, was, before).fault = bad
BY DEF LiveFrom, LiveCycle, Occupied, Held, Decision

LEMMA FaultNext ==
    ASSUME Crashes = FALSE, HistoryFails = FALSE, FaultInv, [Next]_vars
    PROVE  FaultInv'
<1> USE DEF FaultInv
<1>0. \A was \in LastFault : was = fault
  BY DEF LastFault
<1>1. CASE StartHold
  BY <1>0, <1>1 DEF StartHold, Decide, HoldCycle, Decision
<1>2. CASE StartNoLocation
  BY <1>0, <1>2 DEF StartNoLocation, Decide, NoLocationCycle, Decision
<1>3. CASE StartLive
  <2>1. PICK mv \in Readings, was \in LastFault, bad \in BOOLEAN, sight \in Flights \cup {None} :
          /\ Decide(LiveFrom(Latched(mv), sight, bad, was, st.low))
          /\ outage' = bad
    BY <1>3 DEF StartLive, LiveFrom
  <2>2. LiveFrom(Latched(mv), sight, bad, was, st.low).fault = bad
    BY LiveFault
  <2> QED  BY <2>1, <2>2 DEF Decide
<1>4. CASE Publish
  BY <1>4 DEF Publish
<1>5. CASE Record
  BY <1>5 DEF Record
<1>6. CASE Persist
  BY <1>6 DEF Persist
<1>7. CASE Tick \/ StepBack
  BY <1>7 DEF Tick, StepBack
<1>8. CASE UNCHANGED vars
  BY <1>8 DEF vars
<1>9. ~RecordFails /\ ~Crash
  BY DEF RecordFails, Crash
<1> QED  BY <1>1, <1>2, <1>3, <1>4, <1>5, <1>6, <1>7, <1>8, <1>9 DEF Next, Start

\* Between cycles of a live frame the badge says whether the last live cycle
\* found every provider down, under the assumptions of BoardAgrees.
THEOREM FaultBadgeStaysTrue ==
    ASSUME Crashes = FALSE, HistoryFails = FALSE
    PROVE  Spec => []FaultBadgeIsTrue
<1>1. Init => FaultInv
  BY DEF Init, FaultInv
<1>2. FaultInv /\ [Next]_vars => FaultInv'
  BY FaultNext
<1>3. FaultInv /\ BoardIsState => FaultBadgeIsTrue
  BY DEF FaultInv, BoardIsState, FaultBadgeIsTrue, Board, EmptyBoard, Screen
<1> QED  BY <1>1, <1>2, <1>3, BoardAgrees, PTL DEF Spec

-----------------------------------------------------------------------------
(* The rows of runway_events, under the assumptions of BoardAgrees.           *)

\* what poll_state.json remembers as the last row is the newest row, or will be
\* once the running cycle has written both
RowInv ==
    /\ pc = "idle" => st.recorded = row
    /\ pc \in {"publish", "record"} =>
         /\ ctx.row = None => ctx.st.recorded = row
         /\ ctx.row # None => ctx.st.recorded = ctx.row /\ ctx.row # row
    /\ pc = "persist" => ctx.st.recorded = row

LEMMA RowNext ==
    ASSUME Crashes = FALSE, HistoryFails = FALSE, PollInv, RowInv, [Next]_vars
    PROVE  RowInv'
<1> USE DEF RowInv
<1>0. st \in PollState
  BY DEF PollInv, Good
<1>1. CASE StartHold
  <2>1. PICK mv \in Readings, enabled \in Enabled, quiet \in Quiet, was \in LastFault :
          LET kind == Kind(mv, enabled, quiet) IN Decide(HoldCycle(Latched(mv), kind, was))
    BY <1>1 DEF StartHold
  <2>2. Latched(mv) \in PollState /\ Latched(mv).recorded = st.recorded
    BY <1>0, LatchedGood DEF PollInv, Good, Latched, PollState
  <2>3. HoldCycle(Latched(mv), Kind(mv, enabled, quiet), was).row = None
    BY DEF HoldCycle, Decision
  <2>4. HoldCycle(Latched(mv), Kind(mv, enabled, quiet), was).st.recorded = st.recorded
    BY <2>2 DEF HoldCycle, Decision, PollState
  <2> QED  BY <2>1, <2>3, <2>4 DEF Decide
<1>2. CASE StartNoLocation
  <2>1. PICK mv \in Readings, was \in LastFault : Decide(NoLocationCycle(Latched(mv), was))
    BY <1>2 DEF StartNoLocation
  <2>2. Latched(mv) \in PollState /\ Latched(mv).recorded = st.recorded
    BY <1>0, LatchedGood DEF PollInv, Good, Latched, PollState
  <2>3. /\ NoLocationCycle(Latched(mv), was).row = None
        /\ NoLocationCycle(Latched(mv), was).st.recorded = st.recorded
    BY <2>2 DEF NoLocationCycle, Decision, PollState
  <2> QED  BY <2>1, <2>3 DEF Decide
<1>3. CASE StartLive
  <2>1. PICK mv \in Readings, was \in LastFault, bad \in BOOLEAN, sight \in Flights \cup {None} :
          Decide(LiveFrom(Latched(mv), sight, bad, was, st.low))
    BY <1>3 DEF StartLive, LiveFrom
  <2>2. LiveShape(LiveFrom(Latched(mv), sight, bad, was, st.low), Latched(mv), was, st.low)
    BY LatchedGood, LiveCycleGood DEF PollInv
  <2>3. Latched(mv).recorded = st.recorded
    BY <1>0 DEF Latched, PollState
  <2> QED  BY <2>1, <2>2, <2>3 DEF Decide, LiveShape
<1>4. CASE Publish
  BY <1>4 DEF Publish
<1>5. CASE Record
  BY <1>5 DEF Record
<1>6. CASE Persist
  BY <1>6 DEF Persist
<1>7. CASE Tick \/ StepBack
  BY <1>0, <1>7 DEF Tick, StepBack, Aged, PollState
<1>8. CASE UNCHANGED vars
  BY <1>8 DEF vars
<1>9. ~RecordFails /\ ~Crash
  BY DEF RecordFails, Crash
<1> QED  BY <1>1, <1>2, <1>3, <1>4, <1>5, <1>6, <1>7, <1>8, <1>9 DEF Next, Start

\* A row that _should_record_event() lets through is a transition: it differs
\* from the newest row, under the assumptions of BoardAgrees.
THEOREM RowsStayTransitions ==
    ASSUME Crashes = FALSE, HistoryFails = FALSE
    PROVE  Spec => []RowsAreTransitions
<1>1. Init => RowInv
  BY DEF Init, RowInv, Fresh
<1>2. PollInv /\ RowInv /\ [Next]_vars => RowInv'
  BY RowNext
<1>3. RowInv => RowsAreTransitions
  BY DEF RowInv, RowsAreTransitions
<1> QED  BY <1>1, <1>2, <1>3, PollInvariant, PTL DEF Spec

-----------------------------------------------------------------------------
(* Pacing and order. While a cycle runs, what it is about to persist follows  *)
(* from what poll_state.json says: no step in between moves an age.           *)

\* The current slot keeps its aircraft and its stamp, or an advance was due.
Paced(s, t) ==
    \/ Hex(t.cur) = Hex(s.cur) /\ t.since = s.since
    \/ t.since = 0 /\ (s.cur = None \/ Due(s))

TooOld(s, i) == s.pending[i].age > MaxStaleness
Displaced(s, i) == i = 1 /\ Len(s.pending) = MaxPending
StillWaits(s, t, i) == \E j \in 1..i :
    /\ j <= Len(t.pending)
    /\ t.pending[j].flight.hex = s.pending[i].flight.hex
    /\ t.pending[j].age >= s.pending[i].age
Shown(s, t, i) ==
    /\ t.cur.hex = s.pending[i].flight.hex
    /\ \A k \in 1..(i - 1) : TooOld(s, k) \/ Displaced(s, k)

\* Whatever waited waits on, or has its turn.
InOrder(s, t) ==
    \A i \in 1..Len(s.pending) :
        StillWaits(s, t, i) \/ Shown(s, t, i) \/ TooOld(s, i) \/ Displaced(s, i)

Follows(s, t) == Paced(s, t) /\ InOrder(s, t)

\* Filing a sighting moves every entry up by one place, the oldest of a full
\* queue out of it, or none at all.
Shifted(q, r, e) ==
    /\ e \in {0, 1} /\ (e = 1 => Len(q) = MaxPending)
    /\ \A i \in (e + 1)..Len(q) :
          /\ i - e \in 1..Len(r)
          /\ r[i - e].flight.hex = q[i].flight.hex /\ r[i - e].age = q[i].age

LEMMA EnqueueShifts ==
    ASSUME NEW q \in Seq(Entries), NEW f \in Flights, Len(q) <= MaxPending
    PROVE  \E e \in {0, 1} : Shifted(q, Enqueue(q, f), e)
<1> DEFINE dom == 1..Len(q)
           new == [flight |-> f, age |-> 0]
           longer == Append(q, new)
<1>1. \A i \in dom : q[i] \in Entries
  OBVIOUS
<1>2. new \in Entries
  BY PollAssumption DEF Entries, Ages
<1>3. CASE \E i \in dom : q[i].flight.hex = f.hex
  <2> DEFINE r == [i \in dom |-> IF q[i].flight.hex = f.hex
                                 THEN [q[i] EXCEPT !.flight = f] ELSE q[i]]
  <2>1. Enqueue(q, f) = r
    BY <1>3 DEF Enqueue
  <2>2. \A i \in dom : /\ r[i] \in Entries /\ r[i].flight.hex = q[i].flight.hex
                       /\ r[i].age = q[i].age
    BY <1>1 DEF Entries
  <2>3. r \in Seq(Entries) /\ Len(r) = Len(q)
    BY <2>2
  <2> HIDE DEF r
  <2>4. Shifted(q, r, 0)
    BY <2>2, <2>3 DEF Shifted
  <2> QED  BY <2>1, <2>4
<1>4. CASE ~\E i \in dom : q[i].flight.hex = f.hex
  <2>1. /\ longer \in Seq(Entries) /\ Len(longer) = Len(q) + 1
        /\ \A i \in dom : longer[i] = q[i]
    BY <1>2, AppendProperties
  <2> HIDE DEF longer
  <2>2. CASE Len(longer) > MaxPending
    <3>1. Enqueue(q, f) = Tail(longer)
      BY <1>4, <2>2 DEF Enqueue, longer
    <3>2. /\ Len(Tail(longer)) = Len(q)
          /\ \A i \in 1..Len(q) : Tail(longer)[i] = longer[i + 1]
      BY <2>1, HeadTailProperties
    <3>3. Len(q) = MaxPending
      BY <2>1, <2>2, PollAssumption
    <3>4. ASSUME NEW i \in 2..Len(q)
          PROVE  i - 1 \in 1..Len(q) /\ Tail(longer)[i - 1] = q[i]
      <4>1. i - 1 \in 1..Len(q) /\ i \in dom /\ (i - 1) + 1 = i
        OBVIOUS
      <4> QED  BY <2>1, <3>2, <4>1
    <3>5. Shifted(q, Tail(longer), 1)
      BY <3>2, <3>3, <3>4 DEF Shifted
    <3> QED  BY <3>1, <3>5
  <2>3. CASE ~(Len(longer) > MaxPending)
    <3>1. Enqueue(q, f) = longer
      BY <1>4, <2>3 DEF Enqueue, longer
    <3>2. Shifted(q, longer, 0)
      BY <2>1 DEF Shifted
    <3> QED  BY <3>1, <3>2
  <2> QED  BY <2>2, <2>3
<1> QED  BY <1>3, <1>4

LEMMA FiledFollows ==
    ASSUME NEW s, Good(s), NEW sight \in Flights \cup {None}
    PROVE  /\ Filed(s, sight).since = s.since /\ Hex(Filed(s, sight).cur) = Hex(s.cur)
           /\ \E e \in {0, 1} : Shifted(s.pending, Filed(s, sight).pending, e)
<1>1. s \in PollState /\ s.pending \in Seq(Entries) /\ Len(s.pending) <= MaxPending
  BY DEF Good, PollState
<1>2. Shifted(s.pending, s.pending, 0)
  BY <1>1 DEF Shifted
<1>3. CASE sight = None \/ s.cur = None
  BY <1>2, <1>3 DEF Filed
<1>4. CASE sight # None /\ s.cur # None /\ s.cur.hex = sight.hex
  <2>1. Filed(s, sight) = [s EXCEPT !.cur = sight]
    BY <1>4 DEF Filed
  <2>2. /\ Filed(s, sight).cur = sight /\ Filed(s, sight).pending = s.pending
        /\ Filed(s, sight).since = s.since
    BY <1>1, <2>1 DEF PollState
  <2> QED  BY <1>2, <1>4, <2>2 DEF Hex
<1>5. CASE sight # None /\ s.cur # None /\ s.cur.hex # sight.hex
  <2>1. Filed(s, sight) = [s EXCEPT !.pending = Enqueue(s.pending, sight)]
    BY <1>5 DEF Filed
  <2>2. /\ Filed(s, sight).pending = Enqueue(s.pending, sight)
        /\ Filed(s, sight).cur = s.cur /\ Filed(s, sight).since = s.since
    BY <1>1, <2>1 DEF PollState
  <2>3. sight \in Flights
    BY <1>5
  <2> QED  BY <1>1, <2>2, <2>3, EnqueueShifts
<1> QED  BY <1>3, <1>4, <1>5

\* advance_display_queue(): whether or not it advances, each entry keeps its
\* place or is passed over for a reason.
LEMMA AdvancedFollows ==
    ASSUME NEW s, Good(s), NEW sight \in Flights \cup {None}
    PROVE  Follows(s, Advanced(s, sight))
<1> DEFINE f == Filed(s, sight)
           k == FirstFresh(f.pending)
           rest == IF Drains(s, sight) THEN SubSeq(f.pending, k + 1, Len(f.pending)) ELSE f.pending
           next == Promoted(s, sight)
           a == Advanced(s, sight)
<1>1. /\ Good(f) /\ f.since = s.since /\ Hex(f.cur) = Hex(s.cur)
      /\ f \in PollState /\ f.pending \in Seq(Entries) /\ Len(f.pending) \in Nat
      /\ s.pending \in Seq(Entries)
  BY FiledKeeps, FiledFollows DEF Good, PollState
<1>2. PICK e \in {0, 1} : Shifted(s.pending, f.pending, e)
  BY FiledFollows
<1>3. /\ k \in 1..(Len(f.pending) + 1)
      /\ \A j \in 1..(k - 1) : f.pending[j].age > MaxStaleness
  BY <1>1, FirstFreshIn
<1>4. /\ a.pending = rest
      /\ next = None => a.cur = f.cur /\ a.since = f.since
      /\ next # None => a.cur = next /\ a.since = 0
  BY <1>1 DEF Advanced, PollState
<1>5. next # None => \/ Bootstrap(s, sight)
                     \/ Drains(s, sight) /\ k \in 1..Len(f.pending) /\ next = f.pending[k].flight
  BY <1>1, <1>3 DEF Promoted
<1>6. Drains(s, sight) => Due(s) /\ ~Bootstrap(s, sight)
  BY DEF Drains
<1>7. Paced(s, a)
  BY <1>1, <1>4, <1>5, <1>6 DEF Paced, Bootstrap
<1>8. Drains(s, sight) /\ k <= Len(f.pending) => next = f.pending[k].flight /\ next # None
  <2> SUFFICES ASSUME Drains(s, sight), k <= Len(f.pending)
               PROVE  next = f.pending[k].flight /\ next # None
    OBVIOUS
  <2>1. f.pending[k] \in Entries
    BY <1>1, <1>3
  <2>2. f.pending[k].flight # None
    BY <2>1, PollAssumption DEF Entries
  <2> QED  BY <1>6, <2>2 DEF Promoted
<1> HIDE DEF f, k, next, a
<1>9. ASSUME NEW i \in 1..Len(s.pending)
      PROVE  StillWaits(s, a, i) \/ Shown(s, a, i) \/ TooOld(s, i) \/ Displaced(s, i)
  <2> DEFINE j == i - e
  <2>1. CASE i = 1 /\ e = 1
    BY <1>2, <2>1 DEF Shifted, Displaced
  <2>2. CASE ~(i = 1 /\ e = 1)
    <3>1. /\ j \in 1..Len(f.pending) /\ j <= i /\ i \in Nat
          /\ f.pending[j].flight.hex = s.pending[i].flight.hex
          /\ f.pending[j].age = s.pending[i].age
      BY <1>2, <2>2 DEF Shifted
    <3>2. s.pending[i].age \in Int
      <4>1. s.pending[i] \in Entries
        BY <1>1
      <4> QED  BY <4>1 DEF Entries, Ages
    <3>3. CASE ~Drains(s, sight)
      BY <1>4, <3>1, <3>2, <3>3 DEF StillWaits
    <3>4. CASE Drains(s, sight) /\ j < k
      BY <1>3, <3>1, <3>4 DEF TooOld
    <3>5. CASE Drains(s, sight) /\ j = k
      <4>1. a.cur.hex = s.pending[i].flight.hex
        BY <1>4, <1>8, <3>1, <3>5
      <4>2. ASSUME NEW n \in 1..(i - 1)
            PROVE  TooOld(s, n) \/ Displaced(s, n)
        <5>1. CASE n = 1 /\ e = 1
          BY <1>2, <5>1 DEF Shifted, Displaced
        <5>2. CASE ~(n = 1 /\ e = 1)
          <6>1. n \in (e + 1)..Len(s.pending) /\ n - e \in 1..(k - 1)
            BY <1>2, <3>1, <3>5, <5>2
          <6>2. f.pending[n - e].age = s.pending[n].age
            BY <1>2, <6>1 DEF Shifted
          <6> QED  BY <1>3, <6>1, <6>2 DEF TooOld
        <5> QED  BY <5>1, <5>2
      <4> QED  BY <4>1, <4>2 DEF Shown
    <3>6. CASE Drains(s, sight) /\ j > k
      <4>1. k \in Nat /\ k + 1 <= Len(f.pending) /\ \A n \in (k + 1)..Len(f.pending) : f.pending[n] \in Entries
        BY <1>1, <1>3, <3>1, <3>6
      <4>2. /\ Len(rest) = Len(f.pending) - k
            /\ \A n \in 1..(Len(f.pending) - k) : rest[n] = f.pending[k + n]
        BY <1>1, <1>3, <3>6, <4>1, SubSeqProperties
      <4> HIDE DEF rest
      <4>3. j - k \in 1..Len(rest) /\ j - k \in 1..i /\ k + (j - k) = j
        BY <1>1, <1>3, <3>1, <3>6, <4>1, <4>2
      <4>4. rest[j - k] = f.pending[j]
        BY <4>2, <4>3
      <4> QED  BY <1>4, <3>1, <3>2, <4>3, <4>4 DEF StillWaits
    <3> QED  BY <1>3, <3>1, <3>3, <3>4, <3>5, <3>6
  <2> QED  BY <2>1, <2>2
<1> QED  BY <1>7, <1>9 DEF Follows, InOrder, a

\* Only the slots count: the current aircraft, its stamp and the queue.
LEMMA FollowsFrom ==
    ASSUME NEW s1, NEW s2, NEW t1, NEW t2, Follows(s1, t1),
           s2.cur = s1.cur, s2.since = s1.since, s2.pending = s1.pending,
           t2.cur = t1.cur, t2.since = t1.since, t2.pending = t1.pending
    PROVE  Follows(s2, t2)
BY DEF Follows, Paced, Due, InOrder, StillWaits, Shown, TooOld, Displaced

LEMMA FollowsSelf ==
    ASSUME NEW s, Good(s), NEW t, t.cur = s.cur, t.since = s.since, t.pending = s.pending
    PROVE  Follows(s, t)
<1>1. s.pending \in Seq(Entries)
  BY DEF Good, PollState
<1>2. ASSUME NEW i \in 1..Len(s.pending)
      PROVE  StillWaits(s, t, i)
  <2>1. s.pending[i] \in Entries
    BY <1>1
  <2>2. s.pending[i].age \in Int
    BY <2>1 DEF Entries, Ages
  <2>3. i \in 1..i /\ i <= Len(t.pending)
    BY <1>1
  <2> QED  BY <2>2, <2>3 DEF StillWaits
<1> QED  BY <1>2 DEF Follows, Paced, InOrder

\* The files as a cycle that may be live reads them: the latches of the battery
\* and of the holds may move, the slots do not.
LEMMA LatchedSlots ==
    ASSUME Good(st), NEW mv \in Readings
    PROVE  /\ Latched(mv).cur = st.cur /\ Latched(mv).since = st.since
           /\ Latched(mv).pending = st.pending
BY DEF Latched, Good, PollState

\* Whatever branch a live cycle takes, it persists the slots of
\* advance_display_queue().
LEMMA LiveSlots ==
    ASSUME NEW s, Good(s), NEW sight \in Flights \cup {None}, NEW bad,
           NEW was, NEW before, NEW c, c = LiveFrom(s, sight, bad, was, before)
    PROVE  LET a == Advanced(Loaded(s), sight) IN
           /\ Good(Loaded(s))
           /\ c.st.cur = a.cur /\ c.st.since = a.since /\ c.st.pending = a.pending
<1> DEFINE l == Loaded(s)
           a == Advanced(l, sight)
<1>1. l \in PollState /\ l.cur = s.cur /\ l.prev = s.prev /\ l.pending = s.pending
  BY DEF Good, PollState, Loaded, Holds
<1>2. Good(l)
  BY <1>1, LatchesKeepGood
<1>3. a \in PollState
  BY <1>2, AdvancedKeeps DEF Good
<1> HIDE DEF l, a
<1>4. CASE Promoted(l, sight) # None \/ Refreshed(s, sight)
  <2> DEFINE confirmed == Infer(a.cur, s.state)
             shown == Display(a.cur, confirmed)
             event == [hex |-> a.cur.hex, state |-> shown, corroborated |-> a.cur.corroborated]
             b == [a EXCEPT !.state = confirmed]
             e == [b EXCEPT !.recorded = event]
  <2>1. c = IF shown = "none" THEN Decision("promoted", b, EmptyBoard(bad, b.low), None, bad)
            ELSE Decision("promoted", e, Board(b, bad, b.low),
                          IF event # b.recorded THEN event ELSE None, bad)
    BY <1>4 DEF LiveFrom, LiveCycle, Occupied, l, a
  <2> HIDE DEF confirmed, shown, event
  <2>2. /\ b.cur = a.cur /\ b.since = a.since /\ b.pending = a.pending
        /\ e.cur = a.cur /\ e.since = a.since /\ e.pending = a.pending
    BY <1>3 DEF PollState
  <2> HIDE DEF b, e
  <2>3. c.st = b \/ c.st = e
    BY <2>1 DEF Decision
  <2> QED  BY <1>2, <2>2, <2>3 DEF l, a
<1>5. CASE Promoted(l, sight) = None /\ ~Refreshed(s, sight)
  <2>1. c.st = a
    BY <1>5 DEF LiveFrom, LiveCycle, Held, Decision, l, a
  <2> QED  BY <1>2, <2>1 DEF l, a
<1> QED  BY <1>4, <1>5

\* What a running cycle will persist follows from the file, and the file's stamp
\* of the last advance is never older than that advance.
PaceInv ==
    /\ st.since <= gap
    /\ pc # "idle" => Follows(st, ctx.st)

LEMMA StartFollows ==
    ASSUME PollInv, Start
    PROVE  Follows(st', ctx'.st) /\ st' = st /\ gap' = gap
<1>0. Good(st) /\ st \in PollState
  BY DEF PollInv, Good
<1>1. CASE StartHold
  <2>1. PICK mv \in Readings, enabled \in Enabled, quiet \in Quiet, was \in LastFault :
          LET kind == Kind(mv, enabled, quiet) IN Decide(HoldCycle(Latched(mv), kind, was))
    BY <1>1 DEF StartHold
  <2> DEFINE c == HoldCycle(Latched(mv), Kind(mv, enabled, quiet), was)
  <2>2. Latched(mv) \in PollState
    BY <1>0, LatchedGood DEF Good
  <2>3. /\ c.st.cur = Latched(mv).cur /\ c.st.since = Latched(mv).since
        /\ c.st.pending = Latched(mv).pending
    BY <2>2 DEF HoldCycle, Decision, PollState
  <2> HIDE DEF c
  <2>4. Follows(st, c.st)
    BY <1>0, <2>3, LatchedSlots, FollowsSelf
  <2> QED  BY <2>1, <2>4 DEF Decide, c
<1>2. CASE StartNoLocation
  <2>1. PICK mv \in Readings, was \in LastFault : Decide(NoLocationCycle(Latched(mv), was))
    BY <1>2 DEF StartNoLocation
  <2> DEFINE c == NoLocationCycle(Latched(mv), was)
  <2>2. Latched(mv) \in PollState
    BY <1>0, LatchedGood DEF Good
  <2>3. /\ c.st.cur = Latched(mv).cur /\ c.st.since = Latched(mv).since
        /\ c.st.pending = Latched(mv).pending
    BY <2>2 DEF NoLocationCycle, Decision, PollState
  <2> HIDE DEF c
  <2>4. Follows(st, c.st)
    BY <1>0, <2>3, LatchedSlots, FollowsSelf
  <2> QED  BY <2>1, <2>4 DEF Decide, c
<1>3. CASE StartLive
  <2>1. PICK mv \in Readings, was \in LastFault, bad \in BOOLEAN, sight \in Flights \cup {None} :
          Decide(LiveFrom(Latched(mv), sight, bad, was, st.low))
    BY <1>3 DEF StartLive, LiveFrom
  <2> DEFINE c == LiveFrom(Latched(mv), sight, bad, was, st.low)
             l == Loaded(Latched(mv))
             a == Advanced(l, sight)
  <2>2. Good(Latched(mv)) /\ Latched(mv) \in PollState
    BY <1>0, LatchedGood DEF Good
  <2>3. Good(l) /\ c.st.cur = a.cur /\ c.st.since = a.since /\ c.st.pending = a.pending
    BY <2>2, LiveSlots
  <2>4. l.cur = st.cur /\ l.since = st.since /\ l.pending = st.pending
    BY <1>0, <2>2, LatchedSlots DEF Loaded, PollState
  <2> HIDE DEF c, l
  <2>5. Follows(l, a)
    BY <2>3, AdvancedFollows
  <2> HIDE DEF a
  <2>6. Follows(st, c.st)
    BY <2>3, <2>4, <2>5, FollowsFrom
  <2> QED  BY <2>1, <2>6 DEF Decide, c
<1> QED  BY <1>1, <1>2, <1>3 DEF Start

LEMMA PaceNext == PollInv /\ PaceInv /\ [Next]_vars => PaceInv'
<1> SUFFICES ASSUME PollInv, PaceInv, [Next]_vars PROVE PaceInv'
  OBVIOUS
<1>0. /\ st \in PollState /\ st.since \in Int /\ gap \in 0..MinAdvance /\ MinAdvance \in Nat
  BY PollAssumption DEF PollInv, Good, PollState, Ages
<1>1. CASE Start
  BY <1>1, StartFollows DEF PaceInv
<1>2. CASE Publish \/ Record \/ RecordFails
  BY <1>2 DEF PaceInv, Publish, Record, RecordFails
<1>3. CASE Persist
  <2>1. Paced(st, ctx.st) /\ st' = ctx.st /\ pc' = "idle"
    BY <1>3 DEF PaceInv, Follows, Persist
  <2>2. gap' = IF Hex(ctx.st.cur) # Hex(st.cur) THEN 0 ELSE gap
    BY <1>3 DEF Persist
  <2>3. ctx.st.since <= gap'
    BY <1>0, <2>1, <2>2 DEF PaceInv, Paced
  <2> QED  BY <2>1, <2>3 DEF PaceInv
<1>4. CASE Crash
  BY <1>4 DEF PaceInv, Crash
<1>5. CASE Tick
  <2>1. st'.since = Cap(st.since + 1, MinAdvance) /\ gap' = Cap(gap + 1, MinAdvance) /\ pc' = "idle"
    BY <1>0, <1>5 DEF Tick, Aged, PollState
  <2> QED  BY <1>0, <2>1 DEF PaceInv, Cap
<1>6. CASE StepBack
  <2>1. PICK d \in 1..MaxBack : st' = Aged(-d) /\ gap' = gap /\ pc' = "idle"
    BY <1>6 DEF StepBack
  <2>2. st'.since = Cap(st.since + (-d), MinAdvance)
    BY <1>0, <2>1 DEF Aged, PollState
  <2> QED  BY <1>0, <2>1, <2>2, PollAssumption DEF PaceInv, Cap
<1>7. CASE UNCHANGED vars
  BY <1>7 DEF PaceInv, vars
<1> QED  BY <1>1, <1>2, <1>3, <1>4, <1>5, <1>6, <1>7 DEF Next

LEMMA PaceInvariant == Spec => []PaceInv
<1>1. Init => PaceInv
  BY PollAssumption DEF Init, Fresh, PaceInv
<1> QED  BY <1>1, PaceNext, PollInvariant, PTL DEF Spec

\* Outside a Persist, poll_state.json keeps its slots: only ages move.
LEMMA OthersKeepSlots ==
    ASSUME PollInv, [Next]_vars, ~Persist
    PROVE  st' = st \/ (Tick /\ st' = Aged(1)) \/ StepBack
BY DEF Next, Start, StartHold, StartNoLocation, StartLive, Decide, Publish, Record, RecordFails,
       Crash, Tick, vars

\* advance_is_due(): a slot changes aircraft no sooner than MIN_ADVANCE_INTERVAL_S
\* after its last change, whatever cycles die, for a wall clock that is not set
\* back (a stamp from the future counts as due).
THEOREM AdvancesStayPaced ==
    ASSUME MaxBack = 0
    PROVE  Spec => AdvancesArePaced
<1> DEFINE Act == st.cur # None /\ st'.cur.hex # st.cur.hex => gap >= MinAdvance
<1>1. PollInv /\ PaceInv /\ [Next]_vars => [Act]_st
  <2> SUFFICES ASSUME PollInv, PaceInv, [Next]_vars, st.cur # None, st'.cur.hex # st.cur.hex,
                      st' # st
               PROVE  gap >= MinAdvance
    OBVIOUS
  <2>0. /\ st \in PollState /\ st.since \in Int /\ st.since >= 0
        /\ gap \in Nat /\ MinAdvance \in Nat
    BY PollAssumption DEF PollInv, Good, PollState, Ages
  <2>1. ~StepBack
    BY DEF StepBack
  <2>2. ~Tick
    BY <2>0 DEF Tick, Aged, PollState
  <2>3. Persist
    BY <2>1, <2>2, OthersKeepSlots
  <2>4. Paced(st, ctx.st) /\ st' = ctx.st
    BY <2>3 DEF Persist, PaceInv, Follows
  <2>5. Hex(st'.cur) # Hex(st.cur)
    <3>1. st.cur \in Flights /\ st.cur.hex # None
      BY <2>0, PollAssumption DEF PollState, FlightOrNone, Flights
    <3> QED  BY <3>1 DEF Hex
  <2>6. Due(st)
    BY <2>4, <2>5 DEF Paced
  <2> QED  BY <2>0, <2>6 DEF Due, PaceInv
<1> QED  BY <1>1, PollInvariant, PaceInvariant, PTL DEF Spec, AdvancesArePaced

\* enqueue_pending(), pop_fresh_pending(): a queued aircraft keeps its place and
\* its first_seen until it is shown, before every fresh one behind it, unless it
\* is stale or the oldest of a full queue; for a wall clock not set back, which
\* alone makes a first_seen younger.
THEOREM QueueStaysFifo ==
    ASSUME MaxBack = 0
    PROVE  Spec => QueueIsFifo
<1> DEFINE Act == \A i \in 1..Len(st.pending) :
                      Waits(i) \/ Advances(i) \/ Stale(i) \/ Evictable(i)
<1>1. PollInv /\ PaceInv /\ [Next]_vars => [Act]_st
  <2> SUFFICES ASSUME PollInv, PaceInv, [Next]_vars, st' # st, NEW i \in 1..Len(st.pending)
               PROVE  Waits(i) \/ Advances(i) \/ Stale(i) \/ Evictable(i)
    OBVIOUS
  <2>0. st \in PollState /\ st.pending \in Seq(Entries)
    BY DEF PollInv, Good, PollState
  <2>1. ~StepBack
    BY DEF StepBack
  <2>2. CASE Tick
    <3>1. st'.pending = [j \in 1..Len(st.pending) |-> AgedEntry(st.pending[j], 1)]
      BY <2>0, <2>2 DEF Tick, Aged, AgedQueue, PollState
    <3>2. st.pending[i] \in Entries
      BY <2>0
    <3>3. /\ st'.pending[i].flight = st.pending[i].flight
          /\ st'.pending[i].age = Cap(st.pending[i].age + 1, MaxStaleness + 1)
      BY <3>1, <3>2 DEF AgedEntry, Entries
    <3>4. st.pending[i].age \in Int
      BY <3>2 DEF Entries, Ages
    <3>5. i \in 1..i /\ i <= Len(st'.pending)
      BY <2>0, <3>1
    <3>6. CASE st.pending[i].age > MaxStaleness
      BY <3>6 DEF Stale
    <3>7. CASE ~(st.pending[i].age > MaxStaleness)
      <4>1. st'.pending[i].age >= st.pending[i].age
        BY <3>3, <3>4, <3>7, PollAssumption DEF Cap
      <4> QED  BY <3>3, <3>5, <4>1 DEF Waits
    <3> QED  BY <3>6, <3>7
  <2>3. CASE Persist
    <3>1. InOrder(st, ctx.st) /\ st' = ctx.st
      BY <2>3 DEF Persist, PaceInv, Follows
    <3> QED  BY <3>1 DEF InOrder, StillWaits, Shown, TooOld, Displaced,
                        Waits, Advances, Stale, Evictable
  <2> QED  BY <2>1, <2>2, <2>3, OthersKeepSlots
<1> QED  BY <1>1, PollInvariant, PaceInvariant, PTL DEF Spec, QueueIsFifo
=============================================================================
