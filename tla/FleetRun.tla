------------------------------ MODULE FleetRun -------------------------------
(* The fleet's cycle (src/server/fleet_cycle.py, fleet_zones.py,              *)
(* zone_fetch.py): every period one process plans the devices into zones,     *)
(* fetches each zone once through the request ledger, oldest served first,    *)
(* and runs the cycles of its devices, until a deadline after which no zone   *)
(* and no device starts but those of the live frame. Its requests are those   *)
(* of a client of RequestLedger, beside cycles run by hand.                   *)
(*                                                                            *)
(* Time: whatever is not a wait takes less than a tick. A wait is a sleep or  *)
(* a request, a busy lock, a device's cycle, or the pause until the timer.    *)
EXTENDS RequestLedger, FiniteSets

CONSTANTS Fleet,          \* the client that is the fleet's process
          ProviderOrder,  \* DEFAULT_PROVIDER_ORDER
          Devices,        \* the rows of devices, in their order
          Live,           \* the live frame
          ZoneOf,         \* the zone each device polls
          MayHold,        \* devices a hold decision may keep out of their zone
          Deadline,       \* FLEET_START_DEADLINE_S
          Period,         \* OnUnitActiveSec
          CycleTimes,     \* how long a device's cycle may take
          PollWait,       \* POLL_LOCK_WAIT_S, how long a cycle waits for its device
          FailingZones,   \* zones whose requests may fail every time
          MaxUpsets       \* bound: failures, failing zones, clock steps and cycles by hand

ASSUME FleetAssumption ==
    /\ Fleet \in Clients /\ Live \in Devices /\ Devices \subseteq Nat /\ IsFiniteSet(Devices)
    /\ ZoneOf \in [Devices -> Zones] /\ MayHold \subseteq Devices
    /\ ProviderOrder \in Seq(Providers)
    /\ Deadline \in Nat /\ Period \in Nat /\ MaxUpsets \in Nat
    /\ FailingZones \subseteq Zones /\ IsFiniteSet(FailingZones)
    /\ CycleTimes \subseteq Nat /\ PollWait \in Nat

VARIABLES phase,    \* what the run does next
          elapsed,  \* ticks since it started, up to Period
          busy,     \* ticks left of the cycle it runs
          planned,  \* devices planned into zones
          queue,    \* zones to serve
          held,     \* held devices to serve
          zone,     \* the zone being served
          names,    \* providers it has yet to ask
          results,  \* some provider has answered for it
          todo,     \* devices of the zone to run
          ran,      \* one of them ran
          recent,   \* each zone's devices by the age of their poll_state.json, oldest first
          failing,  \* the zones whose requests do fail every time
          shown,    \* history: the zone of the last cycle that ran, and with an answer or not
          upsets    \* how often something has gone wrong

runVars == <<phase, elapsed, busy, planned, queue, held, zone, names, results, todo, ran,
             recent, failing, shown, upsets>>
vars == <<ledgerVars, runVars>>

\* a set of numbers in their order
Sorted(S) ==
    CHOOSE s \in [1..Cardinality(S) -> S] : \A i, j \in DOMAIN s : i < j => s[i] < s[j]

DevicesOf(z) == {d \in Devices : ZoneOf[d] = z}

Init ==
    /\ LedgerInit
    /\ phase = "idle" /\ elapsed = Period /\ busy = 0
    /\ planned = {} /\ queue = <<>> /\ held = <<>>
    /\ zone = None /\ names = <<>> /\ results = FALSE
    /\ todo = <<>> /\ ran = FALSE
    /\ recent = [z \in Zones |-> Sorted(DevicesOf(z))]
    /\ failing \in SUBSET FailingZones
    /\ shown = [zone |-> None, answered |-> FALSE]
    /\ upsets = Cardinality(failing) /\ upsets <= MaxUpsets

Upset == upsets < MaxUpsets /\ upsets' = upsets + 1

-----------------------------------------------------------------------------
(* The order of things.                                                       *)

LiveZone(z, devices) == Live \in devices /\ ZoneOf[Live] = z


\* order_zones(): the live frame's zone, then those never served, then the rest
\* by age
OrderZones(devices) ==
    LET zones == {ZoneOf[d] : d \in devices}
        never == {z \in zones : \A i \in 1..Len(served) : served[i].zone # z}
        aged == Sorted(never) \o [i \in 1..Len(served) |-> served[i].zone]
    IN  Filter(aged, {z \in zones : LiveZone(z, devices)})
        \o Filter(aged, {z \in zones : ~LiveZone(z, devices)})

\* the live frame, then the others by the mtime of poll_state.json
OrderDevices(z) == Filter(recent[z], planned \cap {Live}) \o Filter(recent[z], planned \ {Live})

Expired == elapsed >= Deadline

\* poll_state.json is written, which makes it the newest
Renewed(d) == [recent EXCEPT ![ZoneOf[d]] = Append(Filter(@, Devices \ {d}), d)]

\* persist_poll_state_if_changed(): a cycle that changed nothing writes nothing
Persisted(d) == recent' \in {recent, Renewed(d)}

-----------------------------------------------------------------------------
(* The run.                                                                   *)

Ready(p) == phase = p /\ busy = 0 /\ Rest(Fleet)

\* run_device() of a held device, whose hold may be the same as before, and which
\* another process may have
RunHeld(d) ==
    \/ Persisted(d) /\ busy' \in CycleTimes
    \/ busy' = PollWait /\ UNCHANGED recent

\* the timer fires: plan_zones(), and the live frame first if it is held
StartRun ==
    /\ Ready("idle") /\ elapsed >= Period
    /\ \E hold \in SUBSET MayHold :
          /\ planned' = Devices \ hold
          /\ queue' = OrderZones(Devices \ hold)
          /\ held' = Sorted(hold \ {Live})
          /\ IF Live \in hold THEN RunHeld(Live) ELSE busy' = 0 /\ UNCHANGED recent
    /\ phase' = "zones"
    /\ elapsed' = 0
    /\ UNCHANGED <<ledgerVars, zone, names, results, todo, ran, failing, shown, upsets>>

DeferZone ==
    /\ Ready("zones") /\ queue # <<>>
    /\ Expired /\ ~LiveZone(Head(queue), planned)
    /\ queue' = Tail(queue)
    /\ UNCHANGED <<ledgerVars, phase, elapsed, busy, planned, held, zone, names, results, todo,
                   ran, recent, failing, shown, upsets>>

FetchZone ==
    /\ Ready("zones") /\ queue # <<>>
    /\ ~Expired \/ LiveZone(Head(queue), planned)
    /\ phase' = "fetch"
    /\ queue' = Tail(queue)
    /\ zone' = Head(queue)
    /\ names' = ProviderOrder
    /\ results' = FALSE
    /\ todo' = OrderDevices(Head(queue))
    /\ ran' = FALSE
    /\ UNCHANGED <<ledgerVars, elapsed, busy, planned, held, recent, failing, shown,
                   upsets>>

\* fetch_zone(): past the deadline a provider counts as failed
SkipProvider ==
    /\ Ready("fetch") /\ names # <<>> /\ Expired
    /\ names' = Tail(names)
    /\ UNCHANGED <<ledgerVars, phase, elapsed, busy, planned, queue, held, zone, results, todo,
                   ran, recent, failing, shown, upsets>>

AskProvider ==
    /\ Ready("fetch") /\ names # <<>> /\ ~Expired
    /\ Ask(Fleet, [op |-> "acquire", on |-> Head(names)])
    /\ phase' = "query"
    /\ UNCHANGED <<elapsed, busy, planned, queue, held, zone, names, results, todo, ran, recent,
                   failing, shown, upsets>>

TakeAnswer ==
    /\ Ready("query")
    /\ phase' = "fetch"
    /\ names' = Tail(names)
    /\ results' = (results \/ at[Fleet] = "answered")
    /\ UNCHANGED <<ledgerVars, elapsed, busy, planned, queue, held, zone, todo, ran, recent,
                   failing, shown, upsets>>

Fetched == names = <<>>

DeferDevice ==
    /\ Ready("fetch") /\ Fetched /\ todo # <<>>
    /\ Expired /\ Head(todo) # Live
    /\ todo' = Tail(todo)
    /\ UNCHANGED <<ledgerVars, phase, elapsed, busy, planned, queue, held, zone, names, results,
                   ran, recent, failing, shown, upsets>>

\* run_device(): the cycle comes to its end, or fails before it
RunDevice ==
    /\ Ready("fetch") /\ Fetched /\ todo # <<>>
    /\ ~Expired \/ Head(todo) = Live
    /\ todo' = Tail(todo)
    /\ ran' = TRUE
    /\ busy' \in CycleTimes
    /\ \/ /\ Persisted(Head(todo))
          /\ shown' = [zone |-> zone, answered |-> results]
          /\ UNCHANGED upsets
       \/ Upset /\ UNCHANGED <<recent, shown>>
    /\ UNCHANGED <<ledgerVars, phase, elapsed, planned, queue, held, zone, names, results,
                   failing>>

\* StaleZone or PollBusy: its zone has changed, or another process has the device
\* for longer than run_once() waits
DeviceIsBusy ==
    /\ Ready("fetch") /\ Fetched /\ todo # <<>>
    /\ ~Expired \/ Head(todo) = Live
    /\ Upset
    /\ todo' = Tail(todo)
    /\ busy' \in {0, PollWait}
    /\ UNCHANGED <<ledgerVars, phase, elapsed, planned, queue, held, zone, names, results, ran,
                   recent, failing, shown>>

MarkServed ==
    /\ Ready("fetch") /\ Fetched /\ todo = <<>>
    /\ results /\ ran
    /\ Ask(Fleet, [op |-> "mark", on |-> zone])
    /\ phase' = "zones"
    /\ UNCHANGED <<elapsed, busy, planned, queue, held, zone, names, results, todo, ran, recent,
                   failing, shown, upsets>>

NotServed ==
    /\ Ready("fetch") /\ Fetched /\ todo = <<>>
    /\ ~(results /\ ran)
    /\ phase' = "zones"
    /\ UNCHANGED <<ledgerVars, elapsed, busy, planned, queue, held, zone, names, results, todo,
                   ran, recent, failing, shown, upsets>>

\* serve_held(), once every zone is done with
ServeHeld ==
    /\ Ready("zones") /\ queue = <<>> /\ held # <<>>
    /\ held' = Tail(held)
    /\ IF Expired THEN UNCHANGED <<busy, recent>>
       ELSE RunHeld(Head(held))
    /\ UNCHANGED <<ledgerVars, phase, elapsed, planned, queue, zone, names, results, todo, ran,
                   failing, shown, upsets>>

Finished ==
    /\ phase' = "idle"
    /\ planned' = {} /\ queue' = <<>> /\ held' = <<>>
    /\ zone' = None /\ names' = <<>> /\ results' = FALSE
    /\ todo' = <<>> /\ ran' = FALSE
    /\ busy' = 0
    /\ UNCHANGED <<elapsed, recent, failing, shown>>

EndRun ==
    /\ Ready("zones") /\ queue = <<>> /\ held = <<>>
    /\ Finished
    /\ IF at[Fleet] = "none" THEN UNCHANGED ledgerVars ELSE Leave(Fleet)
    /\ UNCHANGED upsets

\* the process dies, or is stopped
RunDies ==
    /\ phase # "idle"
    /\ Upset
    /\ Finished
    /\ IF at[Fleet] = "none" THEN UNCHANGED ledgerVars ELSE Leave(Fleet) \/ Die(Fleet)

-----------------------------------------------------------------------------
(* The ledger beneath it.                                                     *)

FleetRequest ==
    /\ \/ Refuse(Fleet) \/ Reserve(Fleet) \/ Stamp(Fleet) \/ ReportFailure(Fleet)
       \/ MarkZoneServed(Fleet) \/ GiveUp(Fleet)
       \/ zone \notin failing /\ Answer(Fleet)
    /\ UNCHANGED runVars

RequestFails ==
    /\ Fail(Fleet)
    /\ IF zone \in failing THEN UNCHANGED upsets ELSE Upset
    /\ UNCHANGED <<phase, elapsed, busy, planned, queue, held, zone, names, results, todo, ran,
                   recent, failing, shown>>

Others == Clients \ {Fleet}

OtherRequest == \E c \in Others :
    /\ \/ Refuse(c) \/ Reserve(c) \/ Stamp(c) \/ Answer(c) \/ Fail(c) \/ ReportFailure(c) \/ GiveUp(c)
       \/ Leave(c)
    /\ UNCHANGED runVars

Disturbance ==
    /\ \/ \E c \in Others, p \in Providers : Ask(c, [op |-> "acquire", on |-> p])
       \/ \E c \in Others : Die(c)
       \/ \E c \in Clients : WriteFails(c)
       \/ StepBack
    /\ Upset
    /\ UNCHANGED <<phase, elapsed, busy, planned, queue, held, zone, names, results, todo, ran,
                   recent, failing, shown>>

Waits(c) ==
    \/ at[c] \in {"sleep", "http"} /\ left[c] > 0
    \/ at[c] = "lock" /\ lock # Nobody /\ waited[c] < LockWait
FleetWaits == Waits(Fleet) \/ busy > 0 \/ (phase = "idle" /\ elapsed < Period)
OthersWait == \A c \in Others : at[c] = "none" \/ Waits(c)

Tick ==
    /\ FleetWaits /\ OthersWait
    /\ LedgerTick
    /\ elapsed' = UpTo(elapsed + 1, Period)
    /\ busy' = IF busy = 0 THEN 0 ELSE busy - 1
    /\ UNCHANGED <<phase, planned, queue, held, zone, names, results, todo, ran, recent, failing,
                   shown, upsets>>

Next ==
    \/ StartRun \/ DeferZone \/ FetchZone \/ SkipProvider \/ AskProvider \/ TakeAnswer
    \/ DeferDevice \/ RunDevice \/ DeviceIsBusy \/ MarkServed \/ NotServed \/ ServeHeld \/ EndRun
    \/ RunDies \/ FleetRequest \/ RequestFails \/ OtherRequest \/ Disturbance \/ Tick

Spec == Init /\ [][Next]_vars

\* The processes are not stopped for good while they have something to do.
LiveSpec == Spec /\ WF_vars(Next)

-----------------------------------------------------------------------------
(* Properties.                                                                *)

TypeOK ==
    /\ LedgerTypeOK
    /\ phase \in {"idle", "zones", "fetch", "query"}
    /\ elapsed \in 0..Period /\ busy \in Nat /\ upsets \in 0..MaxUpsets
    /\ planned \subseteq Devices
    /\ \A i \in 1..Len(queue) : queue[i] \in Zones
    /\ \A i \in 1..Len(held) : held[i] \in Devices
    /\ zone \in Zones \cup {None} /\ {results, ran} \subseteq BOOLEAN
    /\ \A i \in 1..Len(todo) : todo[i] \in Devices
    /\ DOMAIN recent = Zones
    /\ \A z \in Zones : /\ Len(recent[z]) = Cardinality(DevicesOf(z))
                       /\ {recent[z][i] : i \in 1..Len(recent[z])} = DevicesOf(z)
    /\ failing \subseteq FailingZones
    /\ shown \in [zone : Zones \cup {None}, answered : BOOLEAN]

=============================================================================
