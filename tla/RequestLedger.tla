---------------------------- MODULE RequestLedger ----------------------------
(* The ADS-B request budget every process shares                              *)
(* (src/server/request_budget.py): one JSON file with the time of the last    *)
(* request, a paused-until time per provider and the zones by the time they   *)
(* were last served, read and replaced under one flock. A client that takes a *)
(* slot sleeps out the spacing with the lock held, and sends its request once *)
(* it has let the lock go.                                                    *)
(*                                                                            *)
(* Instants are kept relative to the clock, in ticks: last is the age of the  *)
(* last request, pause[p] what remains of p's pause. Tick advances the clock  *)
(* and real time together; StepBack sets the clock back and real time not. An *)
(* age at its cap stands for every older one.                                 *)
EXTENDS Integers, Sequences

CONSTANTS Clients,    \* the processes that fetch zones
          Providers,
          Zones,      \* zone keys, in their order
          Spacing,    \* MIN_SPACING_S, in ticks
          Pause,      \* PROVIDER_PAUSE_S
          LockWait,   \* LOCK_WAIT_S
          MaxZones,   \* MAX_ZONE_ENTRIES
          Latencies,  \* how long a request may take
          MaxBack,    \* how far the clock may be set back in one step
          None,       \* an absent value
          Nobody      \* the lock is free

ASSUME LedgerAssumption ==
    /\ Zones \subseteq Nat
    /\ Spacing \in Nat /\ Pause \in Nat /\ LockWait \in Nat /\ MaxBack \in Nat
    /\ MaxZones \in Nat /\ Latencies \subseteq Nat
    /\ None \notin Int /\ Nobody \notin Clients

VARIABLES lock,    \* who holds the ledger's flock
          at,      \* where each client stands, the outcome of its last operation at rest
          ask,     \* the operation it is about
          left,    \* ticks left of its sleep or of its request
          waited,  \* ticks it has waited for the lock
          last,    \* last_request_at
          pause,   \* providers.*.pause_until
          served,  \* zones with the age of their stamp, oldest first
          mem,     \* the pauses as the holder of the lock read them
          gap,     \* history: real time since the last slot was granted
          quiet,   \* history: real time since each provider's last recorded failure
          denied   \* history: real time since each provider was first refused

stored == <<last, pause, served>>
ledgerVars == <<lock, at, ask, left, waited, last, pause, served, mem, gap, quiet, denied>>

Outcomes == {"none", "refused", "unavailable", "answered", "failed", "done"}
Asks == [op: {"acquire", "report"}, on: Providers] \cup [op: {"mark"}, on: Zones]
Rest(c) == at[c] \in Outcomes

Remaining == (-MaxBack) .. (Pause + MaxBack)
Ages == (-MaxBack) .. (Spacing + MaxBack)
Stamps == [zone: Zones, age: (-MaxBack) .. MaxBack]

LedgerInit ==
    /\ lock = Nobody
    /\ at = [c \in Clients |-> "none"]
    /\ ask = [c \in Clients |-> None]
    /\ left = [c \in Clients |-> 0]
    /\ waited = [c \in Clients |-> 0]
    /\ last = None
    /\ pause = [p \in Providers |-> None]
    /\ served = <<>>
    /\ mem = None
    /\ gap = Spacing
    /\ quiet = [p \in Providers |-> Pause]
    /\ denied = [p \in Providers |-> None]

-----------------------------------------------------------------------------
(* parse_ledger(): instants from the future are drawn in.                     *)

Sane(age) == IF age # None /\ age < 0 THEN 0 ELSE age

Paused(rest, p) == rest[p] # None /\ rest[p] > 0

Drawn(rest) == [p \in Providers |-> IF rest[p] # None /\ rest[p] > Pause THEN Pause ELSE rest[p]]

Capped == Drawn(pause) # pause

\* mutant: the wait is counted from a last request that may lie ahead.
Wait_ahead(age) == IF age = None \/ age < 0 \/ age >= Spacing THEN 0 ELSE Spacing - age

Wait(age) == IF age = None \/ Sane(age) >= Spacing THEN 0 ELSE Spacing - Sane(age)

-----------------------------------------------------------------------------
(* The operations.                                                            *)

Ask(c, r) ==
    /\ Rest(c)
    /\ at' = [at EXCEPT ![c] = "lock"]
    /\ ask' = [ask EXCEPT ![c] = r]
    /\ waited' = [waited EXCEPT ![c] = 0]
    /\ UNCHANGED <<lock, left, stored, mem, gap, quiet, denied>>

Locks(c, op) == at[c] = "lock" /\ ask[c].op = op /\ lock = Nobody

\* mutant: a refusal writes nothing, so the cap is made anew at every read.
Refuse_unwritten(c) ==
    /\ Locks(c, "acquire")
    /\ Paused(Drawn(pause), ask[c].on)
    /\ at' = [at EXCEPT ![c] = "refused"]
    /\ denied' = [denied EXCEPT ![ask[c].on] = IF @ = None THEN 0 ELSE @]
    /\ UNCHANGED <<lock, ask, left, waited, stored, mem, gap, quiet>>

\* acquire() of a paused provider: the capped document is written back, so that
\* the cap is not made anew at every read
Refuse(c) ==
    /\ Locks(c, "acquire")
    /\ Paused(Drawn(pause), ask[c].on)
    /\ at' = [at EXCEPT ![c] = "refused"]
    /\ denied' = [denied EXCEPT ![ask[c].on] = IF @ = None THEN 0 ELSE @]
    /\ last' = IF Capped THEN Sane(last) ELSE last
    /\ pause' = Drawn(pause)
    /\ UNCHANGED <<lock, ask, left, waited, served, mem, gap, quiet>>

\* mutant: the spacing is slept out after the lock is let go.
Reserve_unlocked(c) ==
    /\ Locks(c, "acquire")
    /\ ~Paused(Drawn(pause), ask[c].on)
    /\ at' = [at EXCEPT ![c] = "sleep"]
    /\ left' = [left EXCEPT ![c] = Wait(last)]
    /\ mem' = Drawn(pause)
    /\ UNCHANGED <<lock, ask, waited, stored, gap, quiet, denied>>

\* acquire(), up to the end of the sleep
Reserve(c) ==
    /\ Locks(c, "acquire")
    /\ ~Paused(Drawn(pause), ask[c].on)
    /\ lock' = c
    /\ at' = [at EXCEPT ![c] = "sleep"]
    /\ left' = [left EXCEPT ![c] = Wait(last)]
    /\ mem' = Drawn(pause)
    /\ UNCHANGED <<ask, waited, stored, gap, quiet, denied>>

\* mutant: the document written has only the time of the request.
Stamp_forgets(c) ==
    /\ at[c] = "sleep" /\ left[c] = 0
    /\ lock' = Nobody
    /\ at' = [at EXCEPT ![c] = "http"]
    /\ \E n \in Latencies : left' = [left EXCEPT ![c] = n]
    /\ last' = 0
    /\ pause' = [p \in Providers |-> None]
    /\ mem' = None
    /\ gap' = 0
    /\ denied' = [denied EXCEPT ![ask[c].on] = None]
    /\ UNCHANGED <<ask, waited, served, quiet>>

\* acquire() stamps the slot, lets the lock go, and the request is sent
Stamp(c) ==
    /\ at[c] = "sleep" /\ left[c] = 0
    /\ lock' = Nobody
    /\ at' = [at EXCEPT ![c] = "http"]
    /\ \E n \in Latencies : left' = [left EXCEPT ![c] = n]
    /\ last' = 0
    /\ pause' = mem
    /\ mem' = None
    /\ gap' = 0
    /\ denied' = [denied EXCEPT ![ask[c].on] = None]
    /\ UNCHANGED <<ask, waited, served, quiet>>

Answer(c) ==
    /\ at[c] = "http" /\ left[c] = 0
    /\ at' = [at EXCEPT ![c] = "answered"]
    /\ UNCHANGED <<lock, ask, left, waited, stored, mem, gap, quiet, denied>>

\* _query_one(): whatever the provider call raises is reported
Fail(c) ==
    /\ at[c] = "http" /\ left[c] = 0
    /\ at' = [at EXCEPT ![c] = "lock"]
    /\ ask' = [ask EXCEPT ![c].op = "report"]
    /\ waited' = [waited EXCEPT ![c] = 0]
    /\ UNCHANGED <<lock, left, stored, mem, gap, quiet, denied>>

ReportFailure(c) ==
    /\ Locks(c, "report")
    /\ at' = [at EXCEPT ![c] = "failed"]
    /\ last' = Sane(last)
    /\ pause' = [Drawn(pause) EXCEPT ![ask[c].on] = Pause]
    /\ quiet' = [quiet EXCEPT ![ask[c].on] = 0]
    /\ denied' = [denied EXCEPT ![ask[c].on] = None]
    /\ UNCHANGED <<lock, ask, left, waited, served, mem, gap>>

\* what s has of S, in its order
Filter(s, S) ==
    LET f[i \in 0..Len(s)] ==
            IF i = 0 THEN <<>> ELSE IF s[i] \in S THEN Append(f[i - 1], s[i]) ELSE f[i - 1]
    IN  f[Len(s)]

Newest(stamps) ==
    IF Len(stamps) <= MaxZones THEN stamps
    ELSE SubSeq(stamps, Len(stamps) - MaxZones + 1, Len(stamps))

\* a stamp of now sorts before those the clock, set back, has yet to reach
Marked(z) ==
    LET others == {e \in Stamps : e.zone # z}
    IN  Newest(Filter(served, {e \in others : e.age >= 0}) \o <<[zone |-> z, age |-> 0]>>
               \o Filter(served, {e \in others : e.age < 0}))

MarkZoneServed(c) ==
    /\ Locks(c, "mark")
    /\ at' = [at EXCEPT ![c] = "done"]
    /\ last' = Sane(last)
    /\ pause' = Drawn(pause)
    /\ served' = Marked(ask[c].on)
    /\ UNCHANGED <<lock, ask, left, waited, mem, gap, quiet, denied>>

\* what a client goes on with when it gets no lock or no write: BudgetUnavailable
\* is an unusable slot for acquire() and swallowed by the two others
Without(op) == CASE op = "acquire" -> "unavailable" [] op = "report" -> "failed" [] OTHER -> "done"

\* exclusive_lock() has retried for LOCK_WAIT_S
GiveUp(c) ==
    /\ at[c] = "lock" /\ lock # Nobody /\ waited[c] >= LockWait
    /\ at' = [at EXCEPT ![c] = Without(ask[c].op)]
    /\ UNCHANGED <<lock, ask, left, waited, stored, mem, gap, quiet, denied>>

\* _write() meets an OSError
WriteFails(c) ==
    /\ \/ /\ at[c] = "lock" /\ lock = Nobody
          /\ ask[c].op = "acquire" => Capped /\ Paused(Drawn(pause), ask[c].on)
       \/ at[c] = "sleep" /\ left[c] = 0
    /\ at' = [at EXCEPT ![c] = Without(ask[c].op)]
    /\ lock' = Nobody
    /\ mem' = None
    /\ UNCHANGED <<ask, left, waited, stored, gap, quiet, denied>>

\* the process dies, and the kernel lets its flock go
Die(c) ==
    /\ ~Rest(c)
    /\ at' = [at EXCEPT ![c] = "none"]
    /\ ask' = [ask EXCEPT ![c] = None]
    /\ left' = [left EXCEPT ![c] = 0]
    /\ lock' = IF lock = c THEN Nobody ELSE lock
    /\ mem' = IF lock = c THEN None ELSE mem
    /\ UNCHANGED <<waited, stored, gap, quiet, denied>>

\* the process has ended
Leave(c) ==
    /\ Rest(c) /\ at[c] # "none"
    /\ at' = [at EXCEPT ![c] = "none"]
    /\ ask' = [ask EXCEPT ![c] = None]
    /\ UNCHANGED <<lock, left, waited, stored, mem, gap, quiet, denied>>

-----------------------------------------------------------------------------
(* Time.                                                                      *)

UpTo(n, cap) == IF n > cap THEN cap ELSE n
Less(rest) == IF rest = None \/ rest = -MaxBack THEN rest ELSE rest - 1
Later(age, cap) == IF age = None THEN None ELSE UpTo(age + 1, cap)
Older(stamps, d) == [i \in 1..Len(stamps) |-> [stamps[i] EXCEPT !.age = UpTo(@ + d, MaxBack)]]

LedgerTick ==
    /\ left' = [c \in Clients |-> IF left[c] = 0 THEN 0 ELSE left[c] - 1]
    /\ waited' = [c \in Clients |-> IF at[c] = "lock" THEN UpTo(waited[c] + 1, LockWait) ELSE 0]
    /\ last' = Later(last, Spacing + MaxBack)
    /\ pause' = [p \in Providers |-> Less(pause[p])]
    /\ mem' = IF lock = Nobody THEN mem ELSE [p \in Providers |-> Less(mem[p])]
    /\ gap' = UpTo(gap + 1, Spacing)
    /\ quiet' = [p \in Providers |-> UpTo(quiet[p] + 1, Pause)]
    /\ denied' = [p \in Providers |-> Later(denied[p], Pause)]
    /\ served' = Older(served, 1)
    /\ UNCHANGED <<lock, at, ask>>

Put(rest, d) == IF rest = None THEN None ELSE rest + d

\* the clock is set back: the last request is nearer, the pauses end later
StepBack == \E d \in 1..MaxBack :
    /\ last # None => last - d >= -MaxBack
    /\ \A p \in Providers :
          /\ pause[p] # None => pause[p] + d <= Pause + MaxBack
          /\ lock # Nobody /\ mem[p] # None => mem[p] + d <= Pause + MaxBack
    /\ \A i \in 1..Len(served) : served[i].age - d >= -MaxBack
    /\ served' = Older(served, -d)
    /\ last' = Put(last, -d)
    /\ pause' = [p \in Providers |-> Put(pause[p], d)]
    /\ mem' = IF lock = Nobody THEN mem ELSE [p \in Providers |-> Put(mem[p], d)]
    /\ denied' = [p \in Providers |-> None]
    /\ UNCHANGED <<lock, at, ask, left, waited, gap, quiet>>

LedgerStep(c) ==
    \/ \E r \in Asks : Ask(c, r)
    \/ Refuse(c) \/ Reserve(c) \/ Stamp(c) \/ Answer(c) \/ Fail(c) \/ ReportFailure(c)
    \/ MarkZoneServed(c) \/ GiveUp(c) \/ WriteFails(c) \/ Die(c) \/ Leave(c)

LedgerNext == LedgerTick \/ StepBack \/ \E c \in Clients : LedgerStep(c)

LedgerSpec == LedgerInit /\ [][LedgerNext]_ledgerVars

-----------------------------------------------------------------------------
(* Properties.                                                                *)

LedgerTypeOK ==
    /\ lock \in Clients \cup {Nobody}
    /\ at \in [Clients -> Outcomes \cup {"lock", "sleep", "http"}]
    /\ ask \in [Clients -> Asks \cup {None}]
    /\ left \in [Clients -> Nat]
    /\ waited \in [Clients -> 0..LockWait]
    /\ last \in Ages \cup {None}
    /\ pause \in [Providers -> Remaining \cup {None}]
    /\ served \in Seq(Stamps) /\ Len(served) <= MaxZones
    /\ mem \in [Providers -> Remaining \cup {None}] \cup {None}
    /\ gap \in 0..Spacing
    /\ quiet \in [Providers -> 0..Pause]
    /\ denied \in [Providers -> 0..Pause \cup {None}]

Granted(c) == at[c] = "sleep" /\ at'[c] = "http"

\* acquire(): whatever processes take slots, and wherever they die, fail to
\* write or have the clock set back, two slots are MIN_SPACING_S apart.
RequestsSpaced == [][\A c \in Clients : Granted(c) => gap >= Spacing]_at

\* report_failure(): no process gets a slot for a provider within
\* PROVIDER_PAUSE_S of a failure recorded by any.
PauseHonoured == [][\A c \in Clients : Granted(c) => quiet[ask[c].on] >= Pause]_at

\* _sanitise_providers(): a pause ends. However far the clock was set back, a
\* provider is refused for less than PROVIDER_PAUSE_S from the first refusal.
PauseEnds ==
    [][\A c \in Clients : at[c] = "lock" /\ at'[c] = "refused" =>
           denied[ask[c].on] = None \/ denied[ask[c].on] < Pause]_at
=============================================================================
