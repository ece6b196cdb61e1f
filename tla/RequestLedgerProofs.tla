------------------------- MODULE RequestLedgerProofs -------------------------
(* The request budget, for any number of processes and providers, any spacing *)
(* and pause, and any pattern of deaths, failed writes and backward steps of  *)
(* the clock.                                                                 *)
EXTENDS RequestLedger, TLAPS, FiniteSetTheorems, SequenceTheorems, WellFoundedInduction

-----------------------------------------------------------------------------
(* Types, as far as the arguments below need them.                            *)

Rests == [Providers -> Remaining \cup {None}]

Shape ==
    /\ lock \in Clients \cup {Nobody}
    /\ at \in [Clients -> Outcomes \cup {"lock", "sleep", "http"}]
    /\ ask \in [Clients -> Asks \cup {None}]
    /\ left \in [Clients -> Nat]
    /\ last \in Ages \cup {None}
    /\ pause \in Rests
    /\ gap \in 0..Spacing
    /\ quiet \in [Providers -> 0..Pause]
    /\ denied \in [Providers -> 0..Pause \cup {None}]

(* Whoever sleeps holds the lock, on a slot it was allowed to take.           *)
Sleepers ==
    \A c \in Clients :
        /\ at[c] \in {"lock", "sleep", "http"} => ask[c] \in Asks
        /\ at[c] \in {"sleep", "http"} => ask[c].op = "acquire"
        /\ at[c] = "sleep" => lock = c /\ mem \in Rests

(* The spacing is still ahead of whoever holds the lock, or already past.     *)
Spaced ==
    /\ gap < Spacing => last # None /\ last <= gap
    /\ \A c \in Clients : at[c] = "sleep" => left[c] + gap >= Spacing

(* A pause recorded is a pause remembered, in the file and by its reader.     *)
Kept(rest) == \A p \in Providers : quiet[p] < Pause => rest[p] # None /\ rest[p] >= Pause - quiet[p]
Quieted ==
    /\ Kept(pause)
    /\ \A c \in Clients : at[c] = "sleep" => Kept(mem) /\ quiet[ask[c].on] >= Pause

(* Once a provider has been refused, its pause runs out.                      *)
Ends(rest) == \A p \in Providers : denied[p] # None => rest[p] # None /\ rest[p] <= Pause - denied[p]
Ending ==
    /\ Ends(pause)
    /\ \A c \in Clients : at[c] = "sleep" => Ends(mem)

LedgerInv == Shape /\ Sleepers /\ Spaced /\ Quieted /\ Ending

-----------------------------------------------------------------------------
(* The readings of the document.                                              *)

LEMMA DrawnIn ==
    ASSUME NEW rest \in Rests
    PROVE  Drawn(rest) \in Rests
BY LedgerAssumption DEF Drawn, Rests, Remaining

LEMMA DrawnKept ==
    ASSUME NEW rest \in Rests, Kept(rest), quiet \in [Providers -> 0..Pause]
    PROVE  Kept(Drawn(rest))
BY LedgerAssumption DEF Drawn, Rests, Remaining, Kept

LEMMA DrawnEnds ==
    ASSUME NEW rest \in Rests, Ends(rest), denied \in [Providers -> 0..Pause \cup {None}]
    PROVE  Ends(Drawn(rest))
BY LedgerAssumption DEF Drawn, Rests, Remaining, Ends

LEMMA SaneIn ==
    ASSUME last \in Ages \cup {None}, gap \in 0..Spacing, gap < Spacing => last # None /\ last <= gap
    PROVE  /\ Sane(last) \in Ages \cup {None}
           /\ gap < Spacing => Sane(last) # None /\ Sane(last) <= gap
           /\ Wait(last) \in Nat
           /\ Wait(last) + gap >= Spacing
<1>1. CASE last = None
  BY <1>1, LedgerAssumption DEF Sane, Wait
<1>2. CASE last # None
  <2>1. last \in Int /\ Sane(last) = IF last < 0 THEN 0 ELSE last
    BY <1>2 DEF Ages, Sane
  <2> QED  BY <1>2, <2>1, LedgerAssumption DEF Wait, Ages
<1> QED  BY <1>1, <1>2

\* acquire(): what the reader finds not paused has been quiet for a pause.
LEMMA QuietIfFree ==
    ASSUME pause \in Rests, Kept(pause), quiet \in [Providers -> 0..Pause],
           NEW p \in Providers, ~Paused(Drawn(pause), p)
    PROVE  quiet[p] >= Pause
BY LedgerAssumption DEF Paused, Drawn, Rests, Remaining, Kept

LEMMA NobodySleeps ==
    ASSUME Sleepers, lock = Nobody
    PROVE  \A c \in Clients : at[c] # "sleep"
BY LedgerAssumption DEF Sleepers

-----------------------------------------------------------------------------
(* The steps.                                                                 *)

LEMMA LedgerInitGood == LedgerInit => LedgerInv
<1> SUFFICES ASSUME LedgerInit PROVE LedgerInv
  OBVIOUS
<1>1. Shape
  BY LedgerAssumption DEF LedgerInit, Shape, Outcomes, Rests
<1>2. Sleepers /\ Spaced /\ Ending
  BY LedgerAssumption DEF LedgerInit, Sleepers, Spaced, Ending, Ends
<1>3. Quieted
  BY LedgerAssumption DEF LedgerInit, Quieted, Kept
<1> QED  BY <1>1, <1>2, <1>3 DEF LedgerInv

LEMMA TickGood ==
    ASSUME LedgerInv, LedgerTick
    PROVE  LedgerInv'
<1> USE LedgerAssumption
<1>1. \A rest \in Rests : [p \in Providers |-> Less(rest[p])] \in Rests
  BY DEF Rests, Remaining, Less
<1>2. Shape'
  <2>1. left' \in [Clients -> Nat]
    BY DEF LedgerInv, Shape, LedgerTick
  <2>2. last' \in Ages \cup {None} /\ gap' \in 0..Spacing
    BY DEF LedgerInv, Shape, LedgerTick, Later, UpTo, Ages
  <2>3. pause' \in Rests
    BY <1>1 DEF LedgerInv, Shape, LedgerTick
  <2>4. quiet' \in [Providers -> 0..Pause]
    BY DEF LedgerInv, Shape, LedgerTick, UpTo
  <2>5. denied' \in [Providers -> 0..Pause \cup {None}]
    BY DEF LedgerInv, Shape, LedgerTick, UpTo, Later
  <2> QED  BY <2>1, <2>2, <2>3, <2>4, <2>5 DEF LedgerInv, Shape, LedgerTick
<1>3. Sleepers'
  <2>1. \A c \in Clients : at[c] = "sleep" => mem' \in Rests
    <3>1. mem \in Rests /\ lock # Nobody => mem' \in Rests
      BY <1>1 DEF LedgerTick
    <3> QED  BY <3>1 DEF LedgerInv, Sleepers
  <2> QED  BY <2>1 DEF LedgerInv, Sleepers, LedgerTick
<1>4. Spaced'
  BY DEF LedgerInv, Shape, Spaced, LedgerTick, UpTo, Later, Ages
<1>5. ASSUME NEW rest \in Rests, Kept(rest)
      PROVE  \A p \in Providers : quiet'[p] < Pause =>
                 Less(rest[p]) # None /\ Less(rest[p]) >= Pause - quiet'[p]
  <2> TAKE p \in Providers
  <2>1. quiet'[p] = UpTo(quiet[p] + 1, Pause) /\ quiet[p] \in 0..Pause
    BY DEF LedgerInv, Shape, LedgerTick
  <2>2. rest[p] \in Remaining \cup {None}
    BY DEF Rests
  <2>3. quiet[p] < Pause => rest[p] # None /\ rest[p] >= Pause - quiet[p]
    BY <1>5 DEF Kept
  <2> QED  BY <2>1, <2>2, <2>3 DEF UpTo, Less, Remaining
<1>6. ASSUME NEW rest \in Rests, Ends(rest)
      PROVE  \A p \in Providers : denied'[p] # None =>
                 Less(rest[p]) # None /\ Less(rest[p]) <= Pause - denied'[p]
  <2> TAKE p \in Providers
  <2>1. denied'[p] = Later(denied[p], Pause) /\ denied[p] \in 0..Pause \cup {None}
    BY DEF LedgerInv, Shape, LedgerTick
  <2>2. rest[p] \in Remaining \cup {None}
    BY DEF Rests
  <2>3. denied[p] # None => rest[p] # None /\ rest[p] <= Pause - denied[p]
    BY <1>6 DEF Ends
  <2> QED  BY <2>1, <2>2, <2>3 DEF Later, UpTo, Less, Remaining
<1>7. Kept(pause)' /\ Ends(pause)'
  <2>1. pause \in Rests /\ Kept(pause) /\ Ends(pause)
    BY DEF LedgerInv, Shape, Quieted, Ending
  <2>2. pause' = [p \in Providers |-> Less(pause[p])]
    BY DEF LedgerTick
  <2> QED  BY <1>5, <1>6, <2>1, <2>2 DEF Kept, Ends
<1>8. ASSUME NEW c \in Clients, at'[c] = "sleep"
      PROVE  Kept(mem)' /\ Ends(mem)' /\ quiet'[ask'[c].on] >= Pause
  <2>1. /\ at[c] = "sleep" /\ mem \in Rests /\ Kept(mem) /\ Ends(mem) /\ quiet[ask[c].on] >= Pause
        /\ ask' = ask /\ ask[c] \in Asks /\ ask[c].op = "acquire"
    BY <1>8 DEF LedgerInv, Sleepers, Quieted, Ending, LedgerTick
  <2>2. mem' = [p \in Providers |-> Less(mem[p])]
    BY <2>1 DEF LedgerInv, Sleepers, LedgerTick
  <2>3. Kept(mem)' /\ Ends(mem)'
    BY <1>5, <1>6, <2>1, <2>2 DEF Kept, Ends
  <2>4. ask[c].on \in Providers
    BY <2>1 DEF Asks
  <2> QED  BY <2>1, <2>3, <2>4 DEF LedgerInv, Shape, LedgerTick, UpTo
<1> QED  BY <1>2, <1>3, <1>4, <1>7, <1>8 DEF LedgerInv, Quieted, Ending

LEMMA StepBackGood ==
    ASSUME LedgerInv, StepBack
    PROVE  LedgerInv'
<1> USE LedgerAssumption
<1>1. PICK d \in 1..MaxBack :
        /\ last # None => last - d >= -MaxBack
        /\ \A p \in Providers :
              /\ pause[p] # None => pause[p] + d <= Pause + MaxBack
              /\ lock # Nobody /\ mem[p] # None => mem[p] + d <= Pause + MaxBack
        /\ last' = Put(last, -d)
        /\ pause' = [p \in Providers |-> Put(pause[p], d)]
        /\ mem' = IF lock = Nobody THEN mem ELSE [p \in Providers |-> Put(mem[p], d)]
        /\ denied' = [p \in Providers |-> None]
        /\ UNCHANGED <<lock, at, ask, left, waited, gap, quiet>>
  BY DEF StepBack
<1>2. Ends(pause)' /\ Ends(mem)'
  BY <1>1 DEF Ends
<1>3. last' \in Ages \cup {None} /\ pause' \in Rests
  BY <1>1 DEF LedgerInv, Shape, Put, Ages, Rests, Remaining
<1>4. Shape'
  BY <1>1, <1>3 DEF LedgerInv, Shape
<1>5. Kept(pause)'
  <2> SUFFICES ASSUME NEW p \in Providers, quiet[p] < Pause
               PROVE  Put(pause[p], d) # None /\ Put(pause[p], d) >= Pause - quiet[p]
    BY <1>1 DEF Kept
  <2>1. pause[p] \in Remaining \cup {None} /\ quiet[p] \in 0..Pause
    BY DEF LedgerInv, Shape, Rests
  <2>2. pause[p] # None /\ pause[p] >= Pause - quiet[p]
    BY DEF LedgerInv, Quieted, Kept
  <2> QED  BY <1>1, <2>1, <2>2 DEF Put, Remaining
<1>6. ASSUME NEW c \in Clients, at[c] = "sleep"
      PROVE  mem' \in Rests /\ Kept(mem)'
  <2>1. lock = c /\ mem \in Rests /\ Kept(mem)
    BY <1>6 DEF LedgerInv, Sleepers, Quieted
  <2>2. mem' = [p \in Providers |-> Put(mem[p], d)]
    BY <1>1, <2>1
  <2>3. ASSUME NEW p \in Providers
        PROVE  /\ Put(mem[p], d) \in Remaining \cup {None}
               /\ quiet[p] < Pause => Put(mem[p], d) # None /\ Put(mem[p], d) >= Pause - quiet[p]
    <3>1. mem[p] \in Remaining \cup {None} /\ quiet[p] \in 0..Pause
      BY <2>1 DEF LedgerInv, Shape, Rests
    <3>2. quiet[p] < Pause => mem[p] # None /\ mem[p] >= Pause - quiet[p]
      BY <2>1 DEF Kept
    <3>3. mem[p] # None => mem[p] + d <= Pause + MaxBack
      BY <1>1, <2>1
    <3> QED  BY <1>1, <3>1, <3>2, <3>3 DEF Put, Remaining
  <2> QED  BY <1>1, <2>2, <2>3 DEF Rests, Kept
<1>7. Sleepers' /\ Quieted' /\ Ending'
  BY <1>1, <1>2, <1>5, <1>6 DEF LedgerInv, Sleepers, Quieted, Ending
<1>8. Spaced'
  BY <1>1 DEF LedgerInv, Shape, Spaced, Put, Ages
<1> QED  BY <1>4, <1>7, <1>8 DEF LedgerInv

LEMMA ClientGood ==
    ASSUME LedgerInv, NEW c \in Clients, LedgerStep(c)
    PROVE  LedgerInv'
<1> USE LedgerAssumption
<1>0. /\ at \in [Clients -> Outcomes \cup {"lock", "sleep", "http"}]
      /\ ask \in [Clients -> Asks \cup {None}] /\ left \in [Clients -> Nat]
  BY DEF LedgerInv, Shape
\* steps that change neither the file nor the histories, and put nobody to sleep
<1>1. ASSUME UNCHANGED <<last, pause, gap, quiet, denied>>,
             at' \in [Clients -> Outcomes \cup {"lock", "sleep", "http"}],
             ask' \in [Clients -> Asks \cup {None}], left' \in [Clients -> Nat],
             lock' \in Clients \cup {Nobody},
             \A b \in Clients :
                 /\ at'[b] \in {"lock", "sleep", "http"} => ask'[b] \in Asks
                 /\ at'[b] \in {"sleep", "http"} => ask'[b].op = "acquire"
                 /\ at'[b] = "sleep" => /\ at[b] = "sleep" /\ ask'[b] = ask[b] /\ left'[b] = left[b]
                                        /\ lock' = lock /\ mem' = mem
      PROVE  LedgerInv'
  BY <1>1 DEF LedgerInv, Shape, Sleepers, Spaced, Quieted, Kept, Ending, Ends
<1>2. CASE \E r \in Asks : Ask(c, r)
  BY <1>0, <1>1, <1>2 DEF Ask, stored, Outcomes, LedgerInv, Shape, Sleepers
<1>3. CASE Answer(c) \/ Leave(c)
  BY <1>0, <1>1, <1>3 DEF Answer, Leave, stored, Outcomes, LedgerInv, Shape, Sleepers
<1>4. CASE Fail(c)
  <2>1. ask[c] \in Asks /\ ask[c].op = "acquire"
    BY <1>4 DEF Fail, LedgerInv, Sleepers
  <2>2. [ask[c] EXCEPT !.op = "report"] \in Asks
    BY <2>1 DEF Asks
  <2>3. ask' = [ask EXCEPT ![c] = [ask[c] EXCEPT !.op = "report"]]
    BY <1>4 DEF Fail
  <2> QED  BY <1>0, <1>1, <1>4, <2>2, <2>3 DEF Fail, stored, LedgerInv, Shape, Sleepers
<1>5. CASE GiveUp(c)
  BY <1>0, <1>1, <1>5 DEF GiveUp, Without, stored, Outcomes, LedgerInv, Shape, Sleepers
<1>6. CASE WriteFails(c)
  <2>1. Without(ask[c].op) \in Outcomes
    BY DEF Without, Outcomes
  <2>2. \A b \in Clients : b # c => at[b] # "sleep"
    BY <1>6, NobodySleeps DEF WriteFails, LedgerInv, Sleepers
  <2> HIDE DEF Without
  <2> QED  BY <1>0, <1>1, <1>6, <2>1, <2>2 DEF WriteFails, stored, Outcomes, LedgerInv, Shape, Sleepers
<1>7. CASE Die(c)
  BY <1>0, <1>1, <1>7 DEF Die, stored, Outcomes, LedgerInv, Shape, Sleepers
\* what every operation finds in the file
<1>13. /\ pause \in Rests /\ Kept(pause) /\ Ends(pause)
       /\ quiet \in [Providers -> 0..Pause] /\ denied \in [Providers -> 0..Pause \cup {None}]
       /\ last \in Ages \cup {None} /\ gap \in 0..Spacing
       /\ gap < Spacing => last # None /\ last <= gap
  BY DEF LedgerInv, Shape, Quieted, Ending, Spaced
<1>14. Drawn(pause) \in Rests /\ Kept(Drawn(pause)) /\ Ends(Drawn(pause))
  BY <1>13, DrawnIn, DrawnKept, DrawnEnds
<1>15. /\ Sane(last) \in Ages \cup {None} /\ Wait(last) \in Nat /\ Wait(last) + gap >= Spacing
       /\ gap < Spacing => Sane(last) # None /\ Sane(last) <= gap
  BY <1>13, SaneIn
<1>16. lock = Nobody => \A b \in Clients : at[b] # "sleep"
  BY NobodySleeps DEF LedgerInv
<1>17. at[c] = "lock" => ask[c] \in Asks /\ (ask[c].op \in {"acquire", "report"} => ask[c].on \in Providers)
  BY DEF LedgerInv, Sleepers, Asks
<1>8. CASE Refuse(c)
  <2>1. /\ at[c] = "lock" /\ lock = Nobody /\ ask[c].on \in Providers
        /\ at' = [at EXCEPT ![c] = "refused"]
        /\ denied' = [denied EXCEPT ![ask[c].on] = IF @ = None THEN 0 ELSE @]
        /\ last' \in {last, Sane(last)} /\ pause' = Drawn(pause)
        /\ UNCHANGED <<lock, ask, left, mem, gap, quiet>>
    BY <1>8, <1>17 DEF Refuse, Locks
  <2>2. denied' \in [Providers -> 0..Pause \cup {None}]
    BY <1>13, <2>1
  <2>3. Shape'
    BY <1>0, <1>13, <1>14, <1>15, <2>1, <2>2 DEF LedgerInv, Shape, Outcomes
  <2>4. \A b \in Clients : at'[b] # "sleep" /\ (at'[b] \in {"lock", "http"} => at'[b] = at[b])
    BY <1>0, <1>16, <2>1
  <2>5. Sleepers'
    BY <2>1, <2>4 DEF LedgerInv, Sleepers
  <2>6. Kept(pause)'
    BY <1>14, <2>1 DEF Kept
  <2>7. Ends(pause)'
    <3> SUFFICES ASSUME NEW p \in Providers, denied'[p] # None
                 PROVE  Drawn(pause)[p] # None /\ Drawn(pause)[p] <= Pause - denied'[p]
      BY <2>1 DEF Ends
    <3>1. CASE denied[p] # None
      <4>1. denied'[p] = denied[p]
        BY <1>13, <2>1, <3>1
      <4> QED  BY <1>14, <3>1, <4>1 DEF Ends
    <3>2. CASE denied[p] = None
      <4>1. p = ask[c].on /\ denied'[p] = 0
        BY <1>13, <2>1, <3>2
      <4>2. Paused(Drawn(pause), p)
        BY <1>8, <4>1 DEF Refuse
      <4>3. pause[p] \in Remaining \cup {None}
        BY <1>13 DEF Rests
      <4> QED  BY <4>1, <4>2, <4>3 DEF Paused, Drawn, Remaining
    <3> QED  BY <3>1, <3>2
  <2> QED  BY <1>13, <1>15, <2>1, <2>3, <2>4, <2>5, <2>6, <2>7
           DEF LedgerInv, Spaced, Quieted, Ending
<1>9. CASE Reserve(c)
  <2>1. /\ at[c] = "lock" /\ lock = Nobody /\ ask[c].op = "acquire"
        /\ ask[c] \in Asks /\ ask[c].on \in Providers
        /\ lock' = c /\ at' = [at EXCEPT ![c] = "sleep"]
        /\ left' = [left EXCEPT ![c] = Wait(last)] /\ mem' = Drawn(pause)
        /\ UNCHANGED <<ask, last, pause, gap, quiet, denied>>
    BY <1>9, <1>17 DEF Reserve, Locks, stored
  <2>2. \A b \in Clients : /\ at'[b] = "sleep" => b = c
                           /\ b # c => at'[b] = at[b]
    BY <1>0, <1>16, <2>1
  <2>3. left' \in [Clients -> Nat] /\ left'[c] = Wait(last)
    BY <1>0, <1>15, <2>1
  <2>4. Shape'
    BY <1>0, <1>13, <2>1, <2>3 DEF Shape
  <2>5. Sleepers'
    BY <1>14, <2>1, <2>2 DEF LedgerInv, Sleepers
  <2>6. Spaced'
    BY <1>13, <1>15, <2>1, <2>2, <2>3 DEF Spaced
  <2>7. quiet[ask[c].on] >= Pause
    BY <1>9, <1>13, <2>1, QuietIfFree DEF Reserve
  <2>8. Quieted' /\ Ending'
    BY <1>13, <1>14, <2>1, <2>2, <2>7 DEF Quieted, Ending, Kept, Ends
  <2> QED  BY <2>4, <2>5, <2>6, <2>8 DEF LedgerInv
<1>10. CASE Stamp(c)
  <2>1. PICK n \in Latencies : left' = [left EXCEPT ![c] = n]
    BY <1>10 DEF Stamp
  <2>2. /\ at[c] = "sleep" /\ lock = c /\ mem \in Rests /\ Kept(mem) /\ Ends(mem)
        /\ ask[c] \in Asks /\ ask[c].op = "acquire"
    BY <1>10 DEF Stamp, LedgerInv, Sleepers, Quieted, Ending
  <2>3. /\ lock' = Nobody /\ at' = [at EXCEPT ![c] = "http"] /\ last' = 0 /\ pause' = mem /\ gap' = 0
        /\ denied' = [denied EXCEPT ![ask[c].on] = None]
        /\ UNCHANGED <<ask, quiet>>
    BY <1>10 DEF Stamp
  <2>4. \A b \in Clients : at'[b] # "sleep" /\ (b # c => at'[b] = at[b])
    BY <1>0, <2>2, <2>3 DEF LedgerInv, Sleepers
  <2>5. denied' \in [Providers -> 0..Pause \cup {None}]
    BY <1>13, <2>3
  <2>6. 0 \in Ages /\ 0 \in 0..Spacing
    BY DEF Ages
  <2>7. Shape'
    BY <1>0, <1>13, <2>1, <2>2, <2>3, <2>5, <2>6 DEF Shape
  <2>8. Sleepers'
    BY <2>2, <2>3, <2>4 DEF LedgerInv, Sleepers
  <2>9. Spaced'
    BY <2>3, <2>4 DEF Spaced
  <2>10. Kept(pause)' /\ Ends(pause)'
    BY <1>13, <2>2, <2>3 DEF Kept, Ends
  <2> QED  BY <2>4, <2>7, <2>8, <2>9, <2>10 DEF LedgerInv, Quieted, Ending
<1>11. CASE ReportFailure(c)
  <2>1. /\ at[c] = "lock" /\ lock = Nobody /\ ask[c].on \in Providers
        /\ at' = [at EXCEPT ![c] = "failed"] /\ last' = Sane(last)
        /\ pause' = [Drawn(pause) EXCEPT ![ask[c].on] = Pause]
        /\ quiet' = [quiet EXCEPT ![ask[c].on] = 0]
        /\ denied' = [denied EXCEPT ![ask[c].on] = None]
        /\ UNCHANGED <<lock, ask, left, mem, gap>>
    BY <1>11, <1>17 DEF ReportFailure, Locks
  <2>2. \A b \in Clients : at'[b] # "sleep" /\ (at'[b] \in {"lock", "http"} => at'[b] = at[b])
    BY <1>0, <1>16, <2>1
  <2>3. Pause \in Remaining /\ 0 \in 0..Pause
    BY DEF Remaining
  <2>4. /\ pause' \in Rests /\ quiet' \in [Providers -> 0..Pause]
        /\ denied' \in [Providers -> 0..Pause \cup {None}]
    BY <1>13, <1>14, <2>1, <2>3 DEF Rests
  <2>5. Shape'
    BY <1>0, <1>13, <1>15, <2>1, <2>4 DEF LedgerInv, Shape, Outcomes
  <2>6. Sleepers'
    BY <2>1, <2>2 DEF LedgerInv, Sleepers
  <2>7. Kept(pause)' /\ Ends(pause)'
    BY <1>13, <1>14, <2>1 DEF Kept, Ends, Rests
  <2> QED  BY <1>15, <2>1, <2>2, <2>5, <2>6, <2>7 DEF LedgerInv, Spaced, Quieted, Ending
<1>12. CASE MarkZoneServed(c)
  <2>1. /\ at[c] = "lock" /\ lock = Nobody
        /\ at' = [at EXCEPT ![c] = "done"] /\ last' = Sane(last) /\ pause' = Drawn(pause)
        /\ UNCHANGED <<lock, ask, left, mem, gap, quiet, denied>>
    BY <1>12 DEF MarkZoneServed, Locks
  <2>2. \A b \in Clients : at'[b] # "sleep" /\ (at'[b] \in {"lock", "http"} => at'[b] = at[b])
    BY <1>0, <1>16, <2>1
  <2>3. Shape'
    BY <1>0, <1>13, <1>14, <1>15, <2>1 DEF LedgerInv, Shape, Outcomes
  <2>4. Sleepers'
    BY <2>1, <2>2 DEF LedgerInv, Sleepers
  <2>5. Kept(pause)' /\ Ends(pause)'
    BY <1>14, <2>1 DEF Kept, Ends
  <2> QED  BY <1>15, <2>1, <2>2, <2>3, <2>4, <2>5 DEF LedgerInv, Spaced, Quieted, Ending
<1> QED  BY <1>2, <1>3, <1>4, <1>5, <1>6, <1>7, <1>8, <1>9, <1>10, <1>11, <1>12 DEF LedgerStep

LEMMA LedgerNextGood == LedgerInv /\ [LedgerNext]_ledgerVars => LedgerInv'
<1> SUFFICES ASSUME LedgerInv, [LedgerNext]_ledgerVars PROVE LedgerInv'
  OBVIOUS
<1>1. CASE LedgerTick
  BY <1>1, TickGood
<1>2. CASE StepBack
  BY <1>2, StepBackGood
<1>3. CASE \E c \in Clients : LedgerStep(c)
  BY <1>3, ClientGood
<1>4. CASE UNCHANGED ledgerVars
  BY <1>4 DEF ledgerVars, stored, LedgerInv, Shape, Sleepers, Spaced, Quieted, Kept, Ending, Ends
<1> QED  BY <1>1, <1>2, <1>3, <1>4 DEF LedgerNext

LEMMA LedgerInvariant == LedgerSpec => []LedgerInv
<1> QED  BY LedgerInitGood, LedgerNextGood, PTL DEF LedgerSpec

-----------------------------------------------------------------------------
(* What a grant and a refusal mean.                                           *)

LEMMA GrantGood ==
    ASSUME LedgerInv, [LedgerNext]_ledgerVars, NEW c \in Clients, Granted(c)
    PROVE  gap >= Spacing /\ quiet[ask[c].on] >= Pause
<1>1. left[c] = 0
  <2>1. at \in [Clients -> Outcomes \cup {"lock", "sleep", "http"}]
    BY DEF LedgerInv, Shape
  <2>2. ~LedgerTick /\ ~StepBack /\ ~UNCHANGED ledgerVars
    BY DEF Granted, LedgerTick, StepBack, ledgerVars
  <2>3. PICK b \in Clients : LedgerStep(b)
    BY <2>2 DEF LedgerNext
  <2>4. at[b] = "sleep" /\ at'[b] = "http" => left[b] = 0
    BY <2>1, <2>3 DEF LedgerStep, Ask, Refuse, Reserve, Stamp, Answer, Fail, ReportFailure,
                      MarkZoneServed, GiveUp, WriteFails, Die, Leave, Rest, Locks, Without, Outcomes
  <2>5. b = c
    BY <2>1, <2>3 DEF Granted, LedgerStep, Ask, Refuse, Reserve, Stamp, Answer, Fail, ReportFailure,
                      MarkZoneServed, GiveUp, WriteFails, Die, Leave
  <2> QED  BY <2>4, <2>5 DEF Granted
<1>2. left[c] + gap >= Spacing /\ quiet[ask[c].on] >= Pause /\ gap \in 0..Spacing
  BY DEF Granted, LedgerInv, Shape, Spaced, Quieted
<1> QED  BY <1>1, <1>2, LedgerAssumption

LEMMA RefusalGood ==
    ASSUME LedgerInv, [LedgerNext]_ledgerVars, NEW c \in Clients, at[c] = "lock", at'[c] = "refused"
    PROVE  denied[ask[c].on] = None \/ denied[ask[c].on] < Pause
<1> USE LedgerAssumption
<1>1. at \in [Clients -> Outcomes \cup {"lock", "sleep", "http"}]
  BY DEF LedgerInv, Shape
<1>2. ~LedgerTick /\ ~StepBack /\ ~UNCHANGED ledgerVars
  BY DEF LedgerTick, StepBack, ledgerVars
<1>3. PICK b \in Clients : LedgerStep(b)
  BY <1>2 DEF LedgerNext
<1>4. b = c
  BY <1>1, <1>3 DEF LedgerStep, Ask, Refuse, Reserve, Stamp, Answer, Fail, ReportFailure,
                    MarkZoneServed, GiveUp, WriteFails, Die, Leave
<1>5. Refuse(c)
  BY <1>1, <1>3, <1>4 DEF LedgerStep, Ask, Reserve, Stamp, Answer, Fail, ReportFailure,
                    MarkZoneServed, GiveUp, WriteFails, Die, Leave, Rest, Locks, Without, Outcomes
<1> DEFINE p == ask[c].on
<1>6. p \in Providers /\ Paused(Drawn(pause), p)
  BY <1>5 DEF Refuse, Locks, LedgerInv, Sleepers, Asks
<1>7. /\ pause[p] \in Remaining \cup {None} /\ denied[p] \in 0..Pause \cup {None}
      /\ denied[p] # None => pause[p] # None /\ pause[p] <= Pause - denied[p]
  BY <1>6 DEF LedgerInv, Shape, Rests, Ending, Ends
<1> QED  BY <1>6, <1>7 DEF Paused, Drawn, Remaining

\* acquire(): two slots are MIN_SPACING_S apart, in real time, for every set of
\* processes, also when the clock is set back, writes fail and processes die.
THEOREM SlotsAreSpaced == LedgerSpec => RequestsSpaced
<1>1. LedgerInv /\ [LedgerNext]_ledgerVars => [\A c \in Clients : Granted(c) => gap >= Spacing]_at
  BY GrantGood
<1> QED  BY <1>1, LedgerInvariant, PTL DEF LedgerSpec, RequestsSpaced

\* report_failure(): a provider whose failure was recorded gets no request from
\* any process for PROVIDER_PAUSE_S.
THEOREM PausesHold == LedgerSpec => PauseHonoured
<1>1. LedgerInv /\ [LedgerNext]_ledgerVars =>
        [\A c \in Clients : Granted(c) => quiet[ask[c].on] >= Pause]_at
  BY GrantGood
<1> QED  BY <1>1, LedgerInvariant, PTL DEF LedgerSpec, PauseHonoured

\* _sanitise_providers() with the write-back of acquire(): no provider is refused
\* for longer than PROVIDER_PAUSE_S, however far the clock was set back.
THEOREM PausesRunOut == LedgerSpec => PauseEnds
<1>1. LedgerInv /\ [LedgerNext]_ledgerVars =>
        [\A c \in Clients : at[c] = "lock" /\ at'[c] = "refused" =>
             denied[ask[c].on] = None \/ denied[ask[c].on] < Pause]_at
  BY RefusalGood
<1> QED  BY <1>1, LedgerInvariant, PTL DEF LedgerSpec, PauseEnds

-----------------------------------------------------------------------------
(* Filter, as the provers can use it: its recursion is over the places of a   *)
(* sequence, and what it computes is proved of the least place it would be    *)
(* wrong at.                                                                  *)

\* Every set of numbers has a least one.
LEMMA Least ==
    ASSUME NEW S \in SUBSET Nat, S # {}
    PROVE  \E m \in S : \A k \in S : m <= k
<1>1. PICK m \in S : \A k \in S : ~(<<k, m>> \in OpToRel(<, Nat))
  BY WFMin, NatLessThanWellFounded
<1>2. \A k \in S : k \in Nat /\ m \in Nat /\ ~(k < m)
  BY <1>1 DEF OpToRel
<1> QED  BY <1>2

\* The recursion behind Filter, up to n.
Filters(f, s, S, n) ==
    f = [i \in 0..n |-> IF i = 0 THEN <<>>
                        ELSE IF s[i] \in S THEN Append(f[i - 1], s[i]) ELSE f[i - 1]]

\* Every sequence has such a function: the least n without one would not be.
LEMMA FilterExists ==
    ASSUME NEW s, NEW S, NEW n \in Nat
    PROVE  \E f : Filters(f, s, S, n)
<1> DEFINE Lacking == {k \in Nat : ~\E f : Filters(f, s, S, k)}
<1> SUFFICES ASSUME Lacking # {} PROVE FALSE
  OBVIOUS
<1>1. PICK m \in Lacking : \A k \in Lacking : m <= k
  <2>1. Lacking \subseteq Nat
    OBVIOUS
  <2> HIDE DEF Lacking
  <2> QED  BY <2>1, Least
<1>2. m # 0
  <2> DEFINE f == [i \in 0..0 |-> <<>>]
  <2>1. Filters(f, s, S, 0)
    BY DEF Filters
  <2> QED  BY <1>1, <2>1
<1>3. m - 1 \in Nat /\ m - 1 \notin Lacking
  BY <1>1, <1>2
<1>4. PICK g : Filters(g, s, S, m - 1)
  BY <1>3
<1> DEFINE h == [i \in 0..m |-> IF i = m
                                THEN IF s[m] \in S THEN Append(g[m - 1], s[m]) ELSE g[m - 1]
                                ELSE g[i]]
<1>5. \A i \in 0..(m - 1) : h[i] = g[i]
  BY <1>1
<1>6. \A i \in 0..m : h[i] = IF i = 0 THEN <<>>
                             ELSE IF s[i] \in S THEN Append(h[i - 1], s[i]) ELSE h[i - 1]
  <2> TAKE i \in 0..m
  <2>1. CASE i = m
    BY <1>2, <1>3, <1>5, <2>1
  <2>2. CASE i # m
    <3>1. i \in 0..(m - 1) /\ (i # 0 => i - 1 \in 0..(m - 1))
      BY <1>3, <2>2
    <3>2. g[i] = IF i = 0 THEN <<>>
                 ELSE IF s[i] \in S THEN Append(g[i - 1], s[i]) ELSE g[i - 1]
      BY <1>4, <3>1 DEF Filters
    <3> HIDE DEF h
    <3> QED  BY <1>5, <3>1, <3>2
  <2> QED  BY <2>1, <2>2
<1>7. Filters(h, s, S, m)
  <2>1. h = [i \in 0..m |-> h[i]]
    OBVIOUS
  <2> HIDE DEF h
  <2> QED  BY <1>6, <2>1 DEF Filters
<1> QED  BY <1>1, <1>7

Picked(s, S, n) == {i \in 1..n : s[i] \in S}
Has(s, x) == \E j \in 1..Len(s) : s[j] = x

\* Filter(s, S) has a place for each place of s that holds a member of S.
LEMMA FilterIs ==
    ASSUME NEW T, NEW s \in Seq(T), NEW S
    PROVE  /\ Filter(s, S) \in Seq(T \cap S)
           /\ Len(Filter(s, S)) = Cardinality(Picked(s, S, Len(s)))
           /\ \A i \in Picked(s, S, Len(s)) : Has(Filter(s, S), s[i])
<1> DEFINE f == CHOOSE f : Filters(f, s, S, Len(s))
           Right(n) == /\ f[n] \in Seq(T \cap S)
                       /\ Len(f[n]) = Cardinality(Picked(s, S, n))
                       /\ \A i \in Picked(s, S, n) : Has(f[n], s[i])
           Wrong == {n \in Nat : n <= Len(s) /\ ~Right(n)}
<1>1. Len(s) \in Nat /\ \A i \in 1..Len(s) : s[i] \in T
  OBVIOUS
<1>2. Filters(f, s, S, Len(s))
  BY <1>1, FilterExists
<1>3. Filter(s, S) = f[Len(s)]
  BY DEF Filter, Filters
<1> HIDE DEF f
<1>4. \A i \in 0..Len(s) : f[i] = IF i = 0 THEN <<>>
                                 ELSE IF s[i] \in S THEN Append(f[i - 1], s[i]) ELSE f[i - 1]
  BY <1>2 DEF Filters
<1>5. /\ f[0] = <<>>
      /\ \A i \in 1..Len(s) : f[i] = IF s[i] \in S THEN Append(f[i - 1], s[i]) ELSE f[i - 1]
  <2>1. 0 \in 0..Len(s) /\ \A i \in 1..Len(s) : i \in 0..Len(s) /\ i # 0
    BY <1>1
  <2> QED  BY <1>4, <2>1
<1>6. Right(0)
  <2>1. Picked(s, S, 0) = {}
    BY DEF Picked
  <2>2. <<>> \in Seq(T \cap S) /\ Len(<<>>) = 0
    BY EmptySeq
  <2>3. Cardinality({}) = 0
    BY FS_EmptySet
  <2> QED  BY <1>5, <2>1, <2>2, <2>3
<1>7. ASSUME NEW n \in 1..Len(s), Right(n - 1)
      PROVE  Right(n)
  <2> DEFINE p == f[n - 1]
             P == Picked(s, S, n - 1)
  <2>0. /\ p \in Seq(T \cap S) /\ Len(p) = Cardinality(P)
        /\ \A i \in P : Has(p, s[i])
    BY <1>7
  <2>1. IsFiniteSet(P) /\ n \notin P /\ n \in Nat
    <3>1. P \subseteq 1..(n - 1) /\ n \in Nat /\ n - 1 \in Int /\ n \notin 1..(n - 1)
      BY DEF Picked
    <3>2. IsFiniteSet(1..(n - 1))
      BY <3>1, FS_Interval
    <3> HIDE DEF P
    <3> QED  BY <3>1, <3>2, FS_Subset
  <2>2. CASE s[n] \in S
    <3>1. Picked(s, S, n) = P \cup {n}
      BY <2>2 DEF Picked
    <3>2. f[n] = Append(p, s[n])
      BY <1>5, <2>2
    <3>3. /\ f[n] \in Seq(T \cap S) /\ Len(f[n]) = Len(p) + 1
          /\ \A j \in 1..Len(p) : f[n][j] = p[j]
          /\ f[n][Len(p) + 1] = s[n]
      BY <1>1, <2>0, <2>2, <3>2, AppendProperties
    <3>4. Cardinality(P \cup {n}) = Cardinality(P) + 1
      BY <2>1, FS_AddElement
    <3> HIDE DEF p, P
    <3>6. ASSUME NEW i \in P \cup {n}
          PROVE  Has(f[n], s[i])
      <4>1. CASE i = n
        BY <2>0, <3>3, <4>1 DEF Has
      <4>2. CASE i # n
        <5>1. PICK j \in 1..Len(p) : p[j] = s[i]
          BY <2>0, <4>2 DEF Has
        <5>2. j \in 1..Len(f[n]) /\ f[n][j] = s[i]
          BY <2>0, <3>3, <5>1
        <5> QED  BY <5>2 DEF Has
      <4> QED  BY <4>1, <4>2
    <3> QED  BY <2>0, <3>1, <3>3, <3>4, <3>6
  <2>3. CASE s[n] \notin S
    <3>1. Picked(s, S, n) = P
      BY <2>1, <2>3 DEF Picked
    <3>2. f[n] = p
      BY <1>5, <2>3
    <3> QED  BY <2>0, <3>1, <3>2
  <2> QED  BY <2>2, <2>3
<1>8. Right(Len(s))
  <2> SUFFICES ASSUME Wrong # {} PROVE FALSE
    <3>1. Len(s) \in Wrong \/ Right(Len(s))
      <4> HIDE DEF Right
      <4> QED  BY <1>1
    <3> HIDE DEF Right, Wrong
    <3> QED  BY <3>1
  <2>1. PICK m \in Wrong : \A k \in Wrong : m <= k
    <3>1. Wrong \subseteq Nat
      OBVIOUS
    <3> HIDE DEF Wrong
    <3> QED  BY <3>1, Least
  <2>2. m \in Nat /\ m <= Len(s) /\ ~Right(m)
    BY <2>1
  <2>3. m \in 1..Len(s) /\ m - 1 \in Nat /\ m - 1 <= Len(s)
    <3> HIDE DEF Right
    <3> QED  BY <1>1, <1>6, <2>2
  <2>4. m - 1 \notin Wrong
    <3> HIDE DEF Wrong
    <3> QED  BY <2>1, <2>3
  <2>5. Right(m - 1)
    <3> HIDE DEF Right
    <3> QED  BY <2>3, <2>4
  <2> HIDE DEF Right
  <2> QED  BY <1>7, <2>2, <2>3, <2>5
<1> QED  BY <1>3, <1>8

-----------------------------------------------------------------------------
(* The rest of the types: the zones served, the waits, and what the holder of *)
(* the lock remembers.                                                        *)

Typed ==
    /\ waited \in [Clients -> 0..LockWait]
    /\ served \in Seq(Stamps) /\ Len(served) <= MaxZones
    /\ mem \in Rests \cup {None}
    /\ lock # Nobody => at[lock] = "sleep"

\* mark_zone_served(): the newest MAX_ZONE_ENTRIES stamps are kept.
LEMMA MarkedIn ==
    ASSUME served \in Seq(Stamps), NEW z \in Zones
    PROVE  Marked(z) \in Seq(Stamps) /\ Len(Marked(z)) <= MaxZones
<1> DEFINE others == {e \in Stamps : e.zone # z}
           early == Filter(served, {e \in others : e.age >= 0})
           late == Filter(served, {e \in others : e.age < 0})
           now == <<[zone |-> z, age |-> 0]>>
           all == early \o now \o late
<1>1. early \in Seq(Stamps) /\ late \in Seq(Stamps)
  <2>1. \A S : Filter(served, S) \in Seq(Stamps)
    <3> SUFFICES ASSUME NEW S PROVE Filter(served, S) \in Seq(Stamps)
      OBVIOUS
    <3>1. Filter(served, S) \in Seq(Stamps \cap S)
      BY FilterIs
    <3> QED  BY <3>1, SeqMonotonic
  <2> QED  BY <2>1
<1>2. now \in Seq(Stamps)
  BY LedgerAssumption DEF Stamps
<1> HIDE DEF early, late, now
<1>3. all \in Seq(Stamps) /\ Len(all) \in Nat
  <2>1. early \o now \in Seq(Stamps)
    BY <1>1, <1>2, ConcatProperties
  <2> QED  BY <1>1, <2>1, ConcatProperties, LenProperties
<1>4. Marked(z) = Newest(all)
  BY DEF Marked, early, late, now
<1> HIDE DEF all
<1>5. CASE Len(all) <= MaxZones
  BY <1>3, <1>4, <1>5 DEF Newest
<1>6. CASE ~(Len(all) <= MaxZones)
  <2> DEFINE m == Len(all) - MaxZones + 1
  <2>1. m \in 1..(Len(all) + 1) /\ Len(all) \in Int /\ MaxZones \in Nat
    BY <1>3, <1>6, LedgerAssumption
  <2>2. \A i \in m..Len(all) : all[i] \in Stamps
    BY <1>3, <2>1
  <2>3. Marked(z) = SubSeq(all, m, Len(all))
    BY <1>4, <1>6 DEF Newest
  <2> HIDE DEF m
  <2>4. /\ SubSeq(all, m, Len(all)) \in Seq(Stamps)
        /\ Len(SubSeq(all, m, Len(all))) = IF m <= Len(all) THEN Len(all) - m + 1 ELSE 0
    BY <2>1, <2>2, SubSeqProperties
  <2> QED  BY <2>1, <2>3, <2>4 DEF m
<1> QED  BY <1>5, <1>6

LEMMA OlderIn ==
    ASSUME served \in Seq(Stamps), NEW d \in Int,
           d = 1 \/ \A i \in 1..Len(served) : d < 0 /\ served[i].age + d >= -MaxBack
    PROVE  Older(served, d) \in Seq(Stamps) /\ Len(Older(served, d)) = Len(served)
<1> DEFINE r == [i \in 1..Len(served) |-> [served[i] EXCEPT !.age = UpTo(@ + d, MaxBack)]]
<1>1. Len(served) \in Nat /\ Older(served, d) = r
  BY DEF Older
<1>2. ASSUME NEW i \in 1..Len(served)
      PROVE  [served[i] EXCEPT !.age = UpTo(@ + d, MaxBack)] \in Stamps
  <2>1. served[i] \in Stamps
    OBVIOUS
  <2>2. served[i].age \in (-MaxBack)..MaxBack
    BY <2>1 DEF Stamps
  <2>3. UpTo(served[i].age + d, MaxBack) \in (-MaxBack)..MaxBack
    BY <2>2, LedgerAssumption DEF UpTo
  <2> QED  BY <2>1, <2>3 DEF Stamps
<1>3. r \in [1..Len(served) -> Stamps]
  BY <1>2
<1> HIDE DEF r
<1>4. r \in Seq(Stamps) /\ Len(r) = Len(served)
  BY <1>1, <1>3
<1> QED  BY <1>1, <1>4

LEMMA TypedNext ==
    ASSUME LedgerInv, Typed, [LedgerNext]_ledgerVars
    PROVE  Typed'
<1> USE LedgerAssumption
<1>0. /\ at \in [Clients -> Outcomes \cup {"lock", "sleep", "http"}]
      /\ waited \in [Clients -> 0..LockWait] /\ served \in Seq(Stamps) /\ Len(served) <= MaxZones
      /\ mem \in Rests \cup {None} /\ (lock # Nobody => lock \in Clients /\ at[lock] = "sleep")
      /\ pause \in Rests /\ Len(served) \in Nat
      /\ \A c \in Clients : at[c] = "sleep" => lock = c /\ mem \in Rests
  BY DEF Typed, LedgerInv, Shape, Sleepers
<1>1. CASE LedgerTick
  <2>1. waited' \in [Clients -> 0..LockWait]
    BY <1>0, <1>1 DEF LedgerTick, UpTo
  <2>2. served' = Older(served, 1) /\ lock' = lock /\ at' = at
    BY <1>1 DEF LedgerTick
  <2>3. served' \in Seq(Stamps) /\ Len(served') = Len(served)
    BY <1>0, <2>2, OlderIn
  <2>4. mem' \in Rests \cup {None}
    <3>1. lock # Nobody => mem \in Rests
      BY <1>0
    <3>2. mem \in Rests => [p \in Providers |-> Less(mem[p])] \in Rests
      BY DEF Rests, Remaining, Less
    <3> QED  BY <1>0, <1>1, <3>1, <3>2 DEF LedgerTick
  <2> QED  BY <1>0, <2>1, <2>2, <2>3, <2>4 DEF Typed
<1>2. CASE StepBack
  <2>1. PICK d \in 1..MaxBack :
          /\ lock # Nobody => \A p \in Providers : mem[p] # None => mem[p] + d <= Pause + MaxBack
          /\ \A i \in 1..Len(served) : served[i].age - d >= -MaxBack
          /\ served' = Older(served, -d)
          /\ mem' = IF lock = Nobody THEN mem ELSE [p \in Providers |-> Put(mem[p], d)]
          /\ UNCHANGED <<lock, at, waited>>
    BY <1>2 DEF StepBack
  <2>2. -d \in Int /\ \A i \in 1..Len(served) : -d < 0 /\ served[i].age + (-d) >= -MaxBack
    <3> SUFFICES ASSUME NEW i \in 1..Len(served) PROVE served[i].age + (-d) >= -MaxBack
      OBVIOUS
    <3>1. served[i] \in Stamps
      BY <1>0
    <3>2. served[i].age \in Int
      BY <3>1 DEF Stamps
    <3> QED  BY <2>1, <3>2
  <2>3. served' \in Seq(Stamps) /\ Len(served') = Len(served)
    BY <1>0, <2>1, <2>2, OlderIn
  <2>4. mem' \in Rests \cup {None}
    <3>1. CASE lock = Nobody
      BY <1>0, <2>1, <3>1
    <3>2. CASE lock # Nobody
      <4>1. mem \in Rests
        BY <1>0, <3>2
      <4>2. ASSUME NEW p \in Providers PROVE Put(mem[p], d) \in Remaining \cup {None}
        <5>1. mem[p] \in Remaining \cup {None}
          BY <4>1 DEF Rests
        <5> QED  BY <2>1, <3>2, <5>1 DEF Put, Remaining
      <4> QED  BY <2>1, <3>2, <4>2 DEF Rests
    <3> QED  BY <3>1, <3>2
  <2> QED  BY <1>0, <2>1, <2>3, <2>4 DEF Typed
<1>3. ASSUME NEW c \in Clients, LedgerStep(c)
      PROVE  Typed'
  <2>1. CASE (\E r \in Asks : Ask(c, r)) \/ Fail(c)
    BY <1>0, <2>1 DEF Ask, Fail, Rest, Outcomes, stored, Typed
  <2>2. CASE Refuse(c) \/ Answer(c) \/ ReportFailure(c) \/ GiveUp(c) \/ Leave(c)
    BY <1>0, <2>2 DEF Refuse, Answer, ReportFailure, GiveUp, Leave, Locks, Rest, Outcomes,
                      stored, Typed
  <2>3. CASE Reserve(c)
    BY <1>0, <2>3, DrawnIn DEF Reserve, Locks, stored, Typed
  <2>4. CASE Stamp(c)
    BY <1>0, <2>4 DEF Stamp, Typed
  <2>5. CASE MarkZoneServed(c)
    <3>1. at[c] = "lock" /\ ask[c].op = "mark" /\ ask[c] \in Asks
      BY <2>5 DEF MarkZoneServed, Locks, LedgerInv, Sleepers
    <3>2. ask[c].on \in Zones
      BY <3>1 DEF Asks
    <3>3. served' \in Seq(Stamps) /\ Len(served') <= MaxZones
      BY <1>0, <2>5, <3>2, MarkedIn DEF MarkZoneServed
    <3> QED  BY <1>0, <2>5, <3>3 DEF MarkZoneServed, Locks, Typed
  <2>6. CASE WriteFails(c) \/ Die(c)
    BY <1>0, <2>6 DEF WriteFails, Die, Rest, stored, Typed
  <2> QED  BY <1>3, <2>1, <2>2, <2>3, <2>4, <2>5, <2>6 DEF LedgerStep
<1>4. CASE UNCHANGED ledgerVars
  BY <1>4 DEF ledgerVars, stored, Typed
<1> QED  BY <1>1, <1>2, <1>3, <1>4 DEF LedgerNext

LEMMA TypedInvariant == LedgerSpec => []Typed
<1>1. LedgerInit => Typed
  BY LedgerAssumption, EmptySeq DEF LedgerInit, Typed
<1> QED  BY <1>1, TypedNext, LedgerInvariant, PTL DEF LedgerSpec

\* The document and its readers keep their shape: the stamps of the zones stay
\* within MAX_ZONE_ENTRIES and in range, a wait within LOCK_WAIT_S, and only the
\* holder of the lock remembers the pauses it read.
THEOREM LedgerTypeCorrect == LedgerSpec => []LedgerTypeOK
<1>1. LedgerInv /\ Typed => LedgerTypeOK
  BY DEF LedgerInv, Shape, Typed, Rests, LedgerTypeOK
<1> QED  BY <1>1, LedgerInvariant, TypedInvariant, PTL
=============================================================================
