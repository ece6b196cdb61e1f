--------------------------- MODULE ReconcileLoop ---------------------------
(***************************************************************************)
(* reconcile() as the loop it is in the code, event by event in the order   *)
(* of their numbers, to compare with the closed form that FirmwareRegistry  *)
(* uses, in which it is easier to reason about and to prove.                *)
(***************************************************************************)
EXTENDS FirmwareRegistry

\* mutant: newest first, as the devices' entries are walked.
Collected_reversed(n) == {e \in Unreconciled(events) : e.seq = reconciled + HighestSeq + 1 - n}

(* _collect_events sorts by number: what is numbered n, if it is still      *)
(* unreconciled, has its turn after everything numbered below n.            *)
Collected(n) == {e \in Unreconciled(events) : e.seq = n}

Tell(kind, version, doc) == [doc EXCEPT !.outcome = [kind |-> kind, version |-> version]]

(* The branch of an event of the current schedule.                          *)
OwnEvent(doc, e) ==
    LET n == doc.schedule.attempts + 1
        counted == [doc EXCEPT !.schedule.attempts = n]
        told == IF e.token = "rollback"
                  THEN Tell("rollback", doc.schedule.version, counted)
                  ELSE counted
    IN  CASE e.token = "installed" ->
               Tell("installed", doc.schedule.version, [doc EXCEPT !.schedule = NoSchedule])
          [] e.token \in Counted ->
               IF n < MaxAttempts THEN told
               ELSE Tell("failed", doc.schedule.version,
                         [told EXCEPT !.schedule.state = "failed"])
          [] OTHER -> doc

(* The branch of an event of a schedule replaced or cancelled since.        *)
StaleEvent(doc, e) ==
    IF e.token \in {"installed", "rollback"} THEN Tell(e.token, e.version, doc) ELSE doc

Fold(doc, e) ==
    CASE e.kind # "result" -> doc
      [] e.kind = "result" /\ doc.schedule # NoSchedule /\ e.id = doc.schedule.id ->
           OwnEvent(doc, e)
      [] OTHER -> StaleEvent(doc, e)

Turn(doc, n) ==
    IF Collected(n) = {} THEN doc ELSE Fold(doc, CHOOSE e \in Collected(n) : TRUE)

(* The document once every event numbered up to n has had its turn.         *)
Loop[n \in 0..HighestSeq] ==
    IF n = 0 THEN [schedule |-> schedule, outcome |-> outcome] ELSE Turn(Loop[n - 1], n)

Reconciled == Loop[HighestSeq]

(* In every reachable state the loop and the closed form agree, wherever    *)
(* the event that settles the schedule stands among the others.             *)
LoopIsClosedForm ==
    Reconciled = [schedule |-> ReconciledSchedule, outcome |-> ReconciledOutcome]
=============================================================================
