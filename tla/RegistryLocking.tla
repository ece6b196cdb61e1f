-------------------------- MODULE RegistryLocking --------------------------
(***************************************************************************)
(* The registry as its processes work on it: request threads of byos, the   *)
(* companion, the poll loop and the deploy import each read the two         *)
(* documents, decide, and replace at most one of them, under registry_lock, *)
(* an flock waited for at most REGISTRY_LOCK_TIMEOUT_S.  Any of them may    *)
(* die or fail to write anywhere.  Each such sequence is one step of        *)
(* FirmwareRegistry.                                                        *)
(*                                                                         *)
(* byos takes _device_report_lock inside registry_lock and nowhere else,    *)
(* so that it is never contended; it is not modelled.                       *)
(***************************************************************************)
EXTENDS FirmwareRegistry

CONSTANTS
    Pollers,     \* request threads of byos
    Companions,  \* request threads of the companion
    Loops,       \* the poll loop
    Imports,     \* the deploy import
    Nobody       \* the lock is free

Procs == Pollers \cup Companions \cup Loops \cup Imports

ASSUME NobodyAssumption == Nobody \notin Procs

VARIABLES
    lock,   \* who holds registry_lock
    at,     \* where each process stands
    job,    \* what it is doing
    seen    \* the documents as it read them

lockVars == <<lock, at, job, seen>>

NoJob == [op |-> "none"]
Jobs == [op : {"publish"}, v : Versions, kind : Kinds]
        \cup [op : {"schedule"}, v : Versions, running : Reported]
        \cup {[op |-> "cancel"], [op |-> "reconcile"]}
        \cup [op : {"poll"}, d : Devices, f : Reported, r : Results, low : BOOLEAN]

JobsOf(p) ==
    {j \in Jobs :
        \/ p \in Pollers /\ j.op = "poll"
        \/ p \in Companions /\ j.op = "cancel"
        \* the running version is read from the report before the lock is asked for
        \/ p \in Companions /\ j.op = "schedule" /\ \E d \in Devices : j.running = fw[d]
        \/ p \in Loops /\ j.op = "reconcile"
        \/ p \in Imports /\ j.op = "publish"}

Nothing == [releases |-> [v \in Versions |-> "absent"], schedule |-> NoSchedule,
            reconciled |-> 0, outcome |-> NoOutcome, nextSeq |-> 0,
            fw |-> [d \in Devices |-> NoVersion], events |-> {}]

\* The operations over the documents as p read them.
As(p) == INSTANCE FirmwareRegistry WITH
            releases <- seen[p].releases, schedule <- seen[p].schedule,
            reconciled <- seen[p].reconciled, outcome <- seen[p].outcome,
            nextSeq <- seen[p].nextSeq, fw <- seen[p].fw, events <- seen[p].events

Init ==
    /\ RegInit
    /\ lock = Nobody
    /\ at = [p \in Procs |-> "idle"]
    /\ job = [p \in Procs |-> NoJob]
    /\ seen = [p \in Procs |-> Nothing]
-----------------------------------------------------------------------------
\* mutant: the registry is read before the lock is asked for, and the lock
\* only covers the report.
ReadRegistry_early(p) ==
    /\ at[p] \in {"waiting", "held"}
    /\ seen' = [seen EXCEPT ![p].releases = releases, ![p].schedule = schedule,
                            ![p].reconciled = reconciled, ![p].outcome = outcome]
    /\ at' = [at EXCEPT ![p] = "reading"]
    /\ UNCHANGED <<regVars, lock, job>>

Begin(p) ==
    /\ at[p] = "idle"
    /\ \E j \in JobsOf(p) : job' = [job EXCEPT ![p] = j]
    /\ at' = [at EXCEPT ![p] = "waiting"]
    /\ UNCHANGED <<regVars, lock, seen>>

\* mutant: a shared lock.
Acquire_shared(p) ==
    /\ at[p] = "waiting"
    /\ lock' = p
    /\ at' = [at EXCEPT ![p] = "held"]
    /\ UNCHANGED <<regVars, job, seen>>

Acquire(p) ==
    /\ at[p] = "waiting" /\ lock = Nobody
    /\ lock' = p
    /\ at' = [at EXCEPT ![p] = "held"]
    /\ UNCHANGED <<regVars, job, seen>>

Stop(p) ==
    /\ at' = [at EXCEPT ![p] = "idle"]
    /\ job' = [job EXCEPT ![p] = NoJob]
    /\ seen' = [seen EXCEPT ![p] = Nothing]

\* mutant: a busy lock is asked for again, without a time limit.
GiveUp_never(p) ==
    /\ at[p] = "waiting" /\ lock # Nobody
    /\ UNCHANGED <<regVars, lockVars>>

\* LockBusy: the operation gives up, byos answers without an offer.
GiveUp(p) ==
    /\ at[p] = "waiting" /\ lock # Nobody
    /\ Stop(p)
    /\ UNCHANGED <<regVars, lock>>

\* The finally of exclusive_lock, or the kernel when the process dies.
Release(p) == lock' = IF lock = p THEN Nobody ELSE lock

\* load_registry, or _load_registry_for_write.
ReadRegistry(p) ==
    /\ at[p] = "held"
    /\ seen' = [seen EXCEPT ![p].releases = releases, ![p].schedule = schedule,
                            ![p].reconciled = reconciled, ![p].outcome = outcome]
    /\ at' = [at EXCEPT ![p] = "reading"]
    /\ UNCHANGED <<regVars, lock, job>>

\* load_device_report, which a publish does without.
ReadReport(p) ==
    /\ at[p] = "reading"
    /\ seen' = [seen EXCEPT ![p].nextSeq = nextSeq, ![p].fw = fw, ![p].events = events]
    /\ at' = [at EXCEPT ![p] = "decided"]
    /\ UNCHANGED <<regVars, lock, job>>

Written(p) ==
    /\ at' = [at EXCEPT ![p] = "written"]
    /\ UNCHANGED <<lock, job, seen>>

\* Whether the job, given what it read, has something to write.
Writes(p) ==
    LET j == job[p] IN
    CASE j.op = "publish" ->
           /\ seen[p].releases[j.v] = "absent"
           /\ j.kind = "ci" => \A w \in Versions : seen[p].releases[w] = "ci" => w < j.v
      [] j.op = "schedule" ->
           /\ issued < MaxSchedules
           /\ seen[p].releases[j.v] # "absent" /\ j.v >= Floor /\ j.v # j.running
           /\ ~(seen[p].schedule.state = "scheduled" /\ As(p)!Acknowledged)
      [] j.op = "cancel" -> seen[p].schedule # NoSchedule /\ ~As(p)!Acknowledged
      [] j.op = "reconcile" -> As(p)!Unreconciled(seen[p].events) # {}
      [] j.op = "poll" -> As(p)!HighestSeq + 2 <= MaxSeq /\ tally < MaxSeq

\* The registry as the job writes it.
NewRegistry(p) ==
    LET j == job[p] IN
    CASE j.op = "publish" -> [seen[p] EXCEPT !.releases[j.v] = j.kind]
      [] j.op = "schedule" ->
           [seen[p] EXCEPT !.schedule = [id |-> issued + 1, version |-> j.v,
                                         state |-> "scheduled", attempts |-> 0]]
      [] j.op = "cancel" -> [seen[p] EXCEPT !.schedule = NoSchedule]
      [] j.op = "reconcile" ->
           [seen[p] EXCEPT !.schedule = As(p)!ReconciledSchedule,
                           !.outcome = As(p)!ReconciledOutcome,
                           !.reconciled = As(p)!Latest(seen[p].events).seq]

\* _save_registry: the document is replaced by the one the job made of what
\* it read.
WriteRegistry(p) ==
    /\ at[p] = "decided" /\ job[p].op # "poll" /\ Writes(p)
    /\ releases' = NewRegistry(p).releases
    /\ schedule' = NewRegistry(p).schedule
    /\ reconciled' = NewRegistry(p).reconciled
    /\ outcome' = NewRegistry(p).outcome
    /\ issued' = IF job[p].op = "schedule" THEN issued + 1 ELSE issued
    /\ tally' = IF schedule'.id = schedule.id THEN tally ELSE 0
    /\ lost' = IF schedule'.id = schedule.id THEN lost ELSE 0
    /\ UNCHANGED report
    /\ Written(p)

\* _write_device_report, then the answer with its offer.
WriteReport(p) ==
    /\ at[p] = "decided" /\ job[p].op = "poll" /\ Writes(p)
    /\ LET j == job[p]
           offer == As(p)!Offered(j.d, As(p)!Running(j.d, j.f), j.low, As(p)!Said(j.d, j.r))
           doc == As(p)!Polled(j.d, j.f, j.r, offer)
       IN  /\ nextSeq' = doc.nextSeq /\ fw' = doc.fw /\ events' = doc.events
           /\ tally' = tally + Cardinality(Failures(As(p)!Said(j.d, j.r)) \ Failures(events))
           /\ lost' = lost + Cardinality(Unreconciled(Failures(As(p)!Said(j.d, j.r))) \ events')
    /\ UNCHANGED <<registry, issued>>
    /\ Written(p)

\* Nothing to write, or a refusal.
WriteNothing(p) ==
    /\ at[p] = "decided" /\ ~Writes(p)
    /\ UNCHANGED regVars
    /\ Written(p)

End(p) ==
    /\ at[p] = "written"
    /\ Release(p) /\ Stop(p)
    /\ UNCHANGED regVars

\* An OSError on the way, or the death of the process.
Fail(p) ==
    /\ at[p] # "idle"
    /\ Release(p) /\ Stop(p)
    /\ UNCHANGED regVars

Step(p) ==
    \/ Acquire(p) \/ GiveUp(p) \/ ReadRegistry(p) \/ ReadReport(p)
    \/ WriteRegistry(p) \/ WriteReport(p) \/ WriteNothing(p) \/ End(p)

Next == \E p \in Procs : Begin(p) \/ Step(p) \/ Fail(p)

vars == <<regVars, lockVars>>

Spec == Init /\ [][Next]_vars

(* Every process that runs takes its next step; a lock waited for is        *)
(* retried until it is had or the time is up.                               *)
LiveSpec == Spec /\ \A p \in Procs : WF_vars(Step(p))
-----------------------------------------------------------------------------
(* Whoever has read a document and not yet let go of the lock read what the *)
(* document still says, until it replaces it itself.                        *)
SeenIsCurrent ==
    \A p \in Procs :
        /\ at[p] \in {"reading", "decided"} =>
             /\ seen[p].schedule = schedule /\ seen[p].releases = releases
             /\ seen[p].reconciled = reconciled /\ seen[p].outcome = outcome
        /\ at[p] = "decided" =>
             seen[p].nextSeq = nextSeq /\ seen[p].fw = fw /\ seen[p].events = events

(* Every operation ends, with the lock or without it.                       *)
EveryJobEnds == \A p \in Procs : at[p] # "idle" ~> at[p] = "idle"
=============================================================================
