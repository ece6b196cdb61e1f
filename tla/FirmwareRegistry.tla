-------------------------- MODULE FirmwareRegistry --------------------------
(***************************************************************************)
(* The firmware registry of one hardware type: registry.json (releases and  *)
(* the one scheduled update) and device_report.json (what the devices said  *)
(* and were offered), with every operation that writes one of them taken as *)
(* one atomic step.  RegistryLocking shows that the locks make them so, and *)
(* OtaUpdate puts a device behind the polls.                                *)
(*                                                                         *)
(* A version stands for its build number.  The fail-* result tokens, which  *)
(* the server treats alike, are one token "fail".                           *)
(***************************************************************************)
EXTENDS Integers, FiniteSets

CONSTANTS
    Versions,           \* versions that may be published, as build numbers
    Floor,              \* FLOOR_VERSION
    Devices,
    MaxAttempts,        \* MAX_ATTEMPTS
    Keep,               \* _DEVICE_REPORT_EVENTS_KEEP
    ReportMayBeLost,    \* device_report.json may be unreadable or restored
    Kinds,              \* what is published, of "ci" and "bench"
    ReportTokens,       \* bound: the result tokens devices report
    MaxSeq,             \* bound: event numbers, failures of a schedule
    MaxSchedules        \* bound: schedules ever made

ASSUME VersionsAssumption == Versions \subseteq Nat \ {0} /\ Floor \in Nat
ASSUME LimitsAssumption ==
    /\ MaxAttempts \in Nat \ {0}
    /\ Keep \in Nat \ {0}
    /\ MaxSeq \in Nat /\ MaxSchedules \in Nat
    /\ ReportMayBeLost \in BOOLEAN
    /\ Kinds \subseteq {"ci", "bench"}

VARIABLES
    releases,    \* of each version "absent", "ci" or "bench"
    schedule,    \* the scheduled update
    reconciled,  \* reconciled_seq
    outcome,     \* last_outcome
    nextSeq,     \* next_seq of the device report
    fw,          \* fw_version of each device
    events,      \* the events of all devices
    issued,      \* history: schedules made so far; a schedule id is its rank
    tally,       \* history: counted failures recorded for the schedule
    lost         \* history: those of them lost before they were reconciled

registry == <<releases, schedule, reconciled, outcome>>
report == <<nextSeq, fw, events>>
history == <<issued, tally, lost>>
regVars == <<registry, report, history>>

NoVersion == 0
NoSchedule == [id |-> 0, version |-> NoVersion, state |-> "none", attempts |-> 0]
NoOutcome == [kind |-> "none", version |-> NoVersion]
NoResult == [token |-> "none", version |-> NoVersion]

Counted == {"rollback", "fail"}                        \* COUNTED_FAILURES
Tokens == Counted \cup {"trial", "installed", "deferred-battery"}
ASSUME TokensAssumption == ReportTokens \subseteq Tokens
Results == [token : ReportTokens, version : Versions] \cup {NoResult}
Reported == Versions \cup {NoVersion}
Event == [dev : Devices, seq : Nat, kind : {"result", "offered"}, id : Nat,
          token : Tokens \cup {"none"}, version : Reported]
-----------------------------------------------------------------------------
RegInit ==
    /\ releases = [v \in Versions |-> "absent"]
    /\ schedule = NoSchedule /\ reconciled = 0 /\ outcome = NoOutcome
    /\ nextSeq = 0 /\ fw = [d \in Devices |-> NoVersion] /\ events = {}
    /\ issued = 0 /\ tally = 0 /\ lost = 0

(* publish_release: a new version, above every published one unless it is   *)
(* for the bench.                                                           *)
Publish(v, kind) ==
    /\ releases[v] = "absent"
    /\ kind = "ci" => \A w \in Versions : releases[w] = "ci" => w < v
    /\ releases' = [releases EXCEPT ![v] = kind]
    /\ UNCHANGED <<schedule, reconciled, outcome, report, history>>

ForSchedule(id) == {e \in events : e.id = id}

\* mutant: any offer is revocable.
Acknowledged_results ==
    \E e \in ForSchedule(schedule.id) :
        /\ \A f \in ForSchedule(schedule.id) : f.seq <= e.seq
        /\ e.kind = "result" /\ e.token # "deferred-battery"

(* acknowledged(): the newest event of the schedule, on any device, says    *)
(* that a device has started on it.                                         *)
Acknowledged ==
    \E e \in ForSchedule(schedule.id) :
        /\ \A f \in ForSchedule(schedule.id) : f.seq <= e.seq
        /\ e.kind = "offered" \/ e.token # "deferred-battery"

(* schedule_release: `running' is what the companion read before it took    *)
(* the lock.                                                                *)
Schedule(v, running) ==
    /\ issued < MaxSchedules
    /\ releases[v] # "absent" /\ v >= Floor /\ v # running
    /\ ~(schedule.state = "scheduled" /\ Acknowledged)
    /\ schedule' = [id |-> issued + 1, version |-> v, state |-> "scheduled", attempts |-> 0]
    /\ issued' = issued + 1 /\ tally' = 0 /\ lost' = 0
    /\ UNCHANGED <<releases, reconciled, outcome, report>>

(* cancel_schedule.                                                         *)
Cancel ==
    /\ schedule # NoSchedule /\ ~Acknowledged
    /\ schedule' = NoSchedule
    /\ tally' = 0 /\ lost' = 0
    /\ UNCHANGED <<releases, reconciled, outcome, report, issued>>
-----------------------------------------------------------------------------
(* A device polls: byos records what it reports and decides on an offer.    *)

Failures(evs) ==
    {e \in evs : /\ schedule # NoSchedule /\ e.id = schedule.id
                 /\ e.kind = "result" /\ e.token \in Counted}
Unreconciled(evs) == {e \in evs : e.seq > reconciled}

\* mutant: only what is reconciled counts, a burst of polls overtakes it.
Offered_late(d, f, low, evs) ==
    /\ ~low
    /\ schedule.state = "scheduled"
    /\ schedule.version # f
    /\ schedule.version >= Floor
    /\ f = NoVersion \/ f >= Floor
    /\ schedule.attempts < MaxAttempts
    /\ releases[schedule.version] # "absent"

(* compute_offer, for device d that runs f.                                 *)
Offered(d, f, low, evs) ==
    /\ ~low
    /\ schedule.state = "scheduled"
    /\ schedule.version # f
    /\ schedule.version >= Floor
    /\ f = NoVersion \/ f >= Floor
    /\ schedule.attempts
         + Cardinality({e \in Unreconciled(Failures(evs)) : e.dev = d}) < MaxAttempts
    /\ releases[schedule.version] # "absent"

\* mutant: the floor is not put under the event numbers.
HighestSeq_unfloored == nextSeq

(* _next_event_seq: a report that was lost starts above what is reconciled. *)
HighestSeq ==
    CHOOSE n \in {nextSeq, reconciled} \cup {e.seq : e \in events} :
        \A m \in {nextSeq, reconciled} \cup {e.seq : e \in events} : m <= n

(* entry["events"][-_DEVICE_REPORT_EVENTS_KEEP:]                            *)
Newest(d, evs) ==
    {e \in evs : e.dev = d
       => Cardinality({f \in evs : f.dev = d /\ f.seq > e.seq}) < Keep}

\* The result a poll reports, attributed to the schedule of its version only.
ResultEvent(d, r) ==
    [dev |-> d, seq |-> HighestSeq + 1, kind |-> "result",
     id |-> IF schedule # NoSchedule /\ r.version = schedule.version
              THEN schedule.id ELSE 0,
     token |-> r.token, version |-> r.version]

OfferEvent(d, n) ==
    [dev |-> d, seq |-> n, kind |-> "offered", id |-> schedule.id,
     token |-> "none", version |-> schedule.version]

\* The version a device is known to run once it has reported f.
Running(d, f) == IF f = NoVersion THEN fw[d] ELSE f

\* The events with what the request says, and with the offer it is answered.
Said(d, r) == events \cup IF r = NoResult THEN {} ELSE {ResultEvent(d, r)}
LastSaid(r) == HighestSeq + IF r = NoResult THEN 0 ELSE 1
Told(d, r, offer) ==
    Said(d, r) \cup IF offer THEN {OfferEvent(d, LastSaid(r) + 1)} ELSE {}

\* The report document as it is written back.
Polled(d, f, r, offer) ==
    [nextSeq |-> IF f = NoVersion /\ r = NoResult /\ ~offer
                   THEN nextSeq
                   ELSE LastSaid(r) + IF offer THEN 1 ELSE 0,
     fw |-> [fw EXCEPT ![d] = Running(d, f)],
     events |-> Newest(d, Told(d, r, offer))]

(* _record_device_report_and_offer: f and r are the version and the result  *)
(* the request carries, low the battery flag; offer says whether one was    *)
(* made.                                                                    *)
Poll(d, f, r, low, offer) ==
    /\ HighestSeq + 2 <= MaxSeq /\ tally < MaxSeq
    /\ offer = Offered(d, Running(d, f), low, Said(d, r))
    /\ nextSeq' = Polled(d, f, r, offer).nextSeq
    /\ fw' = Polled(d, f, r, offer).fw
    /\ events' = Polled(d, f, r, offer).events
    /\ tally' = tally + Cardinality(Failures(Said(d, r)) \ Failures(events))
    /\ lost' = lost + Cardinality(Unreconciled(Failures(Said(d, r))) \ events')
    /\ UNCHANGED <<registry, issued>>

(* The report cannot be read, or came back from a backup without its        *)
(* entries: load_device_report() answers the empty document.                *)
LoseReport ==
    /\ ReportMayBeLost
    /\ nextSeq' = 0 /\ fw' = [d \in Devices |-> NoVersion] /\ events' = {}
    /\ lost' = lost + Cardinality(Unreconciled(Failures(events)))
    /\ UNCHANGED <<registry, issued, tally>>
-----------------------------------------------------------------------------
(* reconcile: the unreconciled results of the schedule, up to the one that  *)
(* says it is installed, move its attempts; that one ends it.  What an      *)
(* event says for the view depends on where it stands among them.           *)

Pending == {e \in Unreconciled(events) : e.kind = "result"}
Own == {e \in Pending : schedule # NoSchedule /\ e.id = schedule.id}
Installs == {e \in Own : e.token = "installed"}
Current(e) == e \in Own /\ ~\E f \in Installs : f.seq < e.seq
AttemptsBy(e) ==
    schedule.attempts + Cardinality({f \in Own : f.token \in Counted /\ f.seq <= e.seq})

Verdict(e) ==
    CASE e.token = "installed" -> "installed"
      [] Current(e) /\ e.token \in Counted /\ AttemptsBy(e) >= MaxAttempts -> "failed"
      [] e.token = "rollback" /\ ~(Current(e) /\ AttemptsBy(e) >= MaxAttempts) -> "rollback"
      [] OTHER -> "none"

Telling == {e \in Pending : Verdict(e) # "none"}
Latest(evs) == CHOOSE e \in evs : \A f \in evs : f.seq <= e.seq

\* mutant: an installed schedule keeps its id and version.
ReconciledSchedule_marked ==
    IF schedule = NoSchedule THEN NoSchedule
    ELSE IF Installs # {} THEN [schedule EXCEPT !.state = "none"]
    ELSE [schedule EXCEPT
            !.attempts = @ + Cardinality({e \in Own : e.token \in Counted})]

ReconciledSchedule ==
    LET n == schedule.attempts + Cardinality({e \in Own : e.token \in Counted})
    IN  IF schedule = NoSchedule \/ Installs # {}
          THEN NoSchedule
          ELSE [schedule EXCEPT
                  !.attempts = n,
                  !.state = IF n > schedule.attempts /\ n >= MaxAttempts
                              THEN "failed" ELSE @]

ReconciledOutcome ==
    IF Telling = {} THEN outcome
    ELSE [kind |-> Verdict(Latest(Telling)), version |-> Latest(Telling).version]

(* apply_reconcile, as the poll loop calls it once per cycle.               *)
Reconcile ==
    /\ Unreconciled(events) # {}
    /\ reconciled' = Latest(events).seq
    /\ schedule' = ReconciledSchedule
    /\ outcome' = ReconciledOutcome
    /\ tally' = IF ReconciledSchedule = NoSchedule THEN 0 ELSE tally
    /\ lost' = IF ReconciledSchedule = NoSchedule THEN 0 ELSE lost
    /\ UNCHANGED <<releases, report, issued>>
-----------------------------------------------------------------------------
Operator ==
    \/ \E v \in Versions, kind \in Kinds : Publish(v, kind)
    \/ \E v \in Versions, running \in Reported : Schedule(v, running)
    \/ Cancel

RegNext ==
    \/ Operator
    \/ \E d \in Devices, f \in Reported, r \in Results, low \in BOOLEAN, offer \in BOOLEAN :
           Poll(d, f, r, low, offer)
    \/ LoseReport
    \/ Reconcile

RegSpec == RegInit /\ [][RegNext]_regVars
-----------------------------------------------------------------------------
RegTypeOK ==
    /\ releases \in [Versions -> {"absent", "ci", "bench"}]
    /\ schedule \in [id : Nat, version : Reported,
                     state : {"none", "scheduled", "failed"}, attempts : Nat]
    /\ schedule.id <= issued /\ (schedule.state = "none" => schedule = NoSchedule)
    /\ reconciled \in Nat
    /\ outcome \in [kind : {"none", "installed", "rollback", "failed"}, version : Reported]
    /\ nextSeq \in Nat /\ fw \in [Devices -> Reported]
    /\ events \subseteq Event /\ IsFiniteSet(events)
    /\ issued \in Nat /\ tally \in Nat /\ lost \in Nat

(* Every counted failure recorded for the schedule is in its attempts, or   *)
(* still to be reconciled, or was lost with the report that held it; none   *)
(* is counted twice and none is skipped, although the numbers that decide   *)
(* it live in two documents, one of which may be lost (byos_server.py       *)
(* _next_event_seq, reconcile()).                                           *)
EveryFailureCounts ==
    schedule # NoSchedule
        => tally = schedule.attempts + Cardinality(Unreconciled(Failures(events))) + lost

(* As long as no record of a failure is lost, a schedule that used up its   *)
(* attempts on one device is not offered to it again, however the polls     *)
(* fall between two cycles of the poll loop (compute_offer()).              *)
OffersStop ==
    [][\A e \in events' \ events :
          e.kind = "offered" /\ lost = 0 /\ Cardinality(Devices) = 1
              => tally' < MaxAttempts]_regVars

(* No schedule the operator cancelled or replaced is offered afterwards: an *)
(* offer is always of the schedule that stands (cancel_schedule() and       *)
(* _record_device_report_and_offer() take the same lock).                   *)
OfferedIsScheduled ==
    [][\A e \in events' \ events :
          e.kind = "offered" => e.id = schedule.id /\ schedule' = schedule]_regVars

(* No frame's update is withdrawn from under it: while the last a frame was *)
(* told of the schedule is an offer, and it has not answered it, the        *)
(* schedule is not cancelled or replaced, "from that instant"               *)
(* (_record_device_report_and_offer()).                                     *)
OfferedIsKept ==
    [][\A d \in Devices :
          LET own == {e \in ForSchedule(schedule.id) : e.dev = d}
          IN  schedule.state = "scheduled" /\ own # {} /\ Latest(own).kind = "offered"
                /\ schedule' # schedule => reconciled' > reconciled]_regVars
=============================================================================
