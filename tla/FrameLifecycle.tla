--------------------------- MODULE FrameLifecycle ----------------------------
(* How frames come, change hands and go (src/server/fleet_ops.py, over        *)
(* fleet_db.py and device_dirs.py): a frame is registered as pending, shows a *)
(* pairing code, becomes the device of whoever types it, is reassigned,       *)
(* retired with its data kept, and reactivated without them. The rows change  *)
(* in SQLite transactions, the directories beside them do not: a directory is *)
(* renamed aside inside the transaction and deleted once it is committed.     *)
(*                                                                            *)
(* A directory is known by its inode, so that it stays itself when it is      *)
(* renamed, and so does its poll.lock. An ownership is a frame with a count:  *)
(* the count grows when a claim, a reassignment or a reactivation commits.    *)
EXTENDS Naturals, FiniteSets, Functions

CONSTANTS Frames,     \* MACs, none of them the live frame
          Operators,  \* threads of the console, or runs of the command line
          Ids,        \* device ids, which name directories
          Inodes,     \* directories, in place or renamed aside
          None,       \* an absent value
          Console,    \* operators that pass a busy_guard: the console's, not the command line's
          MaxCodes,   \* bound: codes generated
          MaxOwners,  \* bound: ownerships of a frame
          MaxFaults   \* bound: deaths and failed file or database operations

NoCode == 0

PendingRows ==
    [status : {"pending"}, code : 0..MaxCodes, live : BOOLEAN, previous : Ids \cup {None}]
    \cup [status : {"retired"}, code : {NoCode}, live : {FALSE}, previous : Ids]

ASSUME FrameAssumption ==
    /\ None \notin Frames \cup Operators \cup Ids \cup Inodes \cup PendingRows
    /\ Frames \cap Operators = {}
    /\ Console \subseteq Operators
    /\ MaxCodes \in Nat /\ MaxOwners \in Nat /\ MaxFaults \in Nat

VARIABLES device,   \* the id of each frame that has a devices row
          pending,  \* the pending_devices row of each frame that has one
          owning,   \* history: the ownerships each frame has had
          dirs,     \* the directory under each id
          aside,    \* directories renamed to .wipe-*
          tenants,  \* history: the ownerships each directory was in service for
          panel,    \* the code in a frame's pairing panel file
          issued,   \* codes generated so far
          shown,    \* the code a frame was last answered with
          stray,    \* history: frames with a panel drawn over a live code and not issued
          writer,   \* who holds fleet.db's write lock
          op,       \* what each operator is at
          poll,     \* the fleet's poll of one device
          faults,   \* how often something has failed or died
          torn      \* history: frames with a move that was cut short

rows == <<device, pending, owning>>
files == <<dirs, aside, tenants>>
codes == <<panel, issued, shown, stray>>
vars == <<rows, files, codes, writer, op, poll, faults, torn>>

Idle == [kind |-> "none", step |-> "idle", frame |-> None, id |-> None, fd |-> None, moved |-> None]
NoPoll == [step |-> "idle", id |-> None, fd |-> None, read |-> {}]
Row(status, id) == [status |-> status, code |-> NoCode, live |-> FALSE, previous |-> id]

Init ==
    /\ device = [f \in Frames |-> None]
    /\ pending = [f \in Frames |-> None]
    /\ owning = [f \in Frames |-> 0]
    /\ dirs = [d \in Ids |-> None]
    /\ aside = {}
    /\ tenants = [i \in Inodes |-> {}]
    /\ panel = [f \in Frames |-> NoCode]
    /\ issued = 0
    /\ shown = [f \in Frames |-> NoCode]
    /\ stray = {}
    /\ writer = None
    /\ op = [o \in Operators |-> Idle]
    /\ poll = NoPoll
    /\ faults = 0
    /\ torn = {}

Fault == faults < MaxFaults /\ faults' = faults + 1

\* the id of a device, or of the device a retired frame was
Home(f) == IF device[f] # None THEN device[f]
           ELSE IF pending[f] # None /\ pending[f].status = "retired" THEN pending[f].previous
           ELSE None

-----------------------------------------------------------------------------
(* Directories and the lock in them.                                          *)

InPlace == Range(dirs) \ {None}
Existing == InPlace \cup aside
Open == {op[o].fd : o \in Operators} \cup {poll.fd}
Free == Inodes \ (Existing \cup Open)

\* a poll.lock held through some open file
Locked(i) == (\E o \in Operators : op[o].fd = i) \/ (poll.step = "run" /\ poll.fd = i)

\* makedirs(exist_ok=True): what is under id is used, or made
Made(id, i) == IF dirs[id] # None THEN i = dirs[id] ELSE i \in Free

Serve(i, f, n) == [tenants EXCEPT ![i] = @ \cup {<<f, n>>}]
Deleted(i) == [tenants EXCEPT ![i] = {}]

Does(o, kind, step) == op[o].kind = kind /\ op[o].step = step
Go(o, step) == op' = [op EXCEPT ![o].step = step]
Done(o) == op' = [op EXCEPT ![o] = Idle]

-----------------------------------------------------------------------------
(* Registration and pairing.                                                  *)

RegisterFrame(f) ==
    /\ writer = None
    /\ device[f] = None /\ pending[f] = None
    /\ pending' = [pending EXCEPT ![f] = Row("pending", None)]
    /\ panel' = [panel EXCEPT ![f] = NoCode]
    /\ UNCHANGED <<device, owning, files, issued, shown, stray, writer, op, poll, faults, torn>>

\* mutant: a panel already drawn is shown again, whatever became of its code.
PollPending_reuses(f) ==
    /\ writer = None
    /\ pending[f] # None
    /\ \/ pending[f].status = "retired" /\ shown' = [shown EXCEPT ![f] = NoCode]
       \/ /\ pending[f].status = "pending"
          /\ panel[f] # NoCode
          /\ shown' = [shown EXCEPT ![f] = panel[f]]
    /\ UNCHANGED <<rows, files, panel, issued, stray, writer, op, poll, faults, torn>>

\* _pending_panel() of a retired frame, or while the code last issued is live
PollPending(f) ==
    /\ writer = None
    /\ pending[f] # None
    /\ \/ pending[f].status = "retired" /\ shown' = [shown EXCEPT ![f] = NoCode]
       \/ /\ pending[f].status = "pending"
          /\ pending[f].live /\ panel[f] # NoCode
          /\ shown' = [shown EXCEPT ![f] = panel[f]]
    /\ UNCHANGED <<rows, files, panel, issued, stray, writer, op, poll, faults, torn>>

\* _issue_pairing_code(): the panel is written inside the transaction. The code is
\* not live, or its panel file is missing, unreadable or of the wrong size
DrawCode(f) ==
    /\ writer = None
    /\ pending[f] # None /\ pending[f].status = "pending"
    /\ IF pending[f].live /\ panel[f] # NoCode THEN Fault ELSE UNCHANGED faults
    /\ issued < MaxCodes
    /\ issued' = issued + 1
    /\ panel' = [panel EXCEPT ![f] = issued + 1]
    /\ writer' = f
    /\ UNCHANGED <<rows, files, shown, stray, op, poll, torn>>

IssueCode(f) ==
    /\ writer = f
    /\ pending' = [pending EXCEPT ![f] = [@ EXCEPT !.code = panel[f], !.live = TRUE]]
    /\ shown' = [shown EXCEPT ![f] = panel[f]]
    /\ stray' = stray \ {f}
    /\ writer' = None
    /\ UNCHANGED <<device, owning, files, panel, issued, op, poll, faults, torn>>

\* the transaction fails, or the server dies in it
IssueFails(f) ==
    /\ writer = f
    /\ Fault
    /\ stray' = IF pending[f].live THEN stray \cup {f} ELSE stray
    /\ writer' = None
    /\ UNCHANGED <<rows, files, panel, issued, shown, op, poll, torn>>

CodeExpires(f) ==
    /\ pending[f] # None /\ pending[f].live
    /\ writer # f
    /\ pending' = [pending EXCEPT ![f].live = FALSE]
    /\ UNCHANGED <<device, owning, files, codes, writer, op, poll, faults, torn>>

-----------------------------------------------------------------------------
(* Claims: one transaction, which provisions the directory before it commits. *)

\* mutant: a directory that is there already does not matter.
Untaken_byRow(id) == ~\E f \in Frames : device[f] = id

\* _add_device_with_free_directory(). Ids are 32 random bits: one that a process
\* still works on, or whose directory a move cut short has left aside, is not
\* drawn again.
Untaken(id) == (~\E f \in Frames : device[f] = id) /\ dirs[id] = None

InUse(id) ==
    \/ poll.id = id
    \/ \E o \in Operators : op[o].id = id
    \/ \E f \in torn : Home(f) = id

Provision(id) == \E i \in Inodes : Made(id, i) /\ dirs' = [dirs EXCEPT ![id] = i]

BeginClaim(o, f, id) ==
    /\ op[o] = Idle /\ writer = None
    /\ pending[f] # None /\ pending[f].status = "pending"
    /\ pending[f].code # NoCode /\ pending[f].live
    /\ owning[f] < MaxOwners
    /\ Untaken(id) /\ ~InUse(id)
    /\ Provision(id)
    /\ writer' = o
    /\ op' = [op EXCEPT ![o] = [Idle EXCEPT !.kind = "claim", !.step = "commit", !.frame = f, !.id = id]]
    /\ UNCHANGED <<rows, aside, tenants, codes, poll, faults, torn>>

CommitClaim(o) ==
    /\ Does(o, "claim", "commit")
    /\ LET f == op[o].frame IN
          /\ pending' = [pending EXCEPT ![f] = None]
          /\ device' = [device EXCEPT ![f] = op[o].id]
          /\ owning' = [owning EXCEPT ![f] = @ + 1]
          /\ tenants' = Serve(dirs[op[o].id], f, owning[f] + 1)
          /\ panel' = [panel EXCEPT ![f] = NoCode]
    /\ writer' = None
    /\ Done(o)
    /\ UNCHANGED <<dirs, aside, issued, shown, stray, poll, faults, torn>>

\* rolled back, and the directory removed
ClaimFails(o) ==
    /\ Does(o, "claim", "commit")
    /\ Fault
    /\ writer' = None
    /\ dirs' = [dirs EXCEPT ![op[o].id] = None]
    /\ tenants' = Deleted(dirs[op[o].id])
    /\ Done(o)
    /\ UNCHANGED <<rows, aside, codes, poll, torn>>

-----------------------------------------------------------------------------
(* Retirement keeps the directory, and passes no guard.                       *)

\* mutant: the device row is deleted before it is copied.
RetireFrame_late(f) ==
    /\ writer = None
    /\ device[f] # None
    /\ pending' = [pending EXCEPT ![f] = Row("retired", None)]
    /\ device' = [device EXCEPT ![f] = None]
    /\ UNCHANGED <<owning, files, codes, writer, op, poll, faults, torn>>

RetireFrame(f) ==
    /\ writer = None
    /\ device[f] # None
    /\ pending' = [pending EXCEPT ![f] = Row("retired", device[f])]
    /\ device' = [device EXCEPT ![f] = None]
    /\ UNCHANGED <<owning, files, codes, writer, op, poll, faults, torn>>

-----------------------------------------------------------------------------
(* Reassignment and reactivation move the directory aside.                    *)

\* the row as it stands when the transaction has the write lock
StillThere(kind, f, id) ==
    IF kind = "reassign" THEN device[f] = id
    ELSE pending[f] # None /\ pending[f].status = "retired" /\ pending[f].previous = id

\* the first read, before the guard
StartMove(o, kind, f, id) ==
    /\ op[o] = Idle
    /\ StillThere(kind, f, id)
    /\ owning[f] < MaxOwners
    /\ op' = [op EXCEPT ![o] = [Idle EXCEPT !.kind = kind, !.frame = f, !.id = id,
                                            !.step = IF o \in Console THEN "guard" ELSE "move"]]
    /\ UNCHANGED <<rows, files, codes, writer, poll, faults, torn>>

Moving(o) == op[o].kind \in {"reassign", "reactivate"}

\* busy_guard(): the lock of the process for this path, then the directory's
\* poll.lock, neither of which is waited for
Guard(o) ==
    /\ Moving(o) /\ op[o].step = "guard"
    /\ ~\E p \in Operators \ {o} : op[p].id = op[o].id /\ op[p].fd # None
    /\ \E i \in Inodes :
          /\ Made(op[o].id, i)
          /\ ~Locked(i)
          /\ dirs' = [dirs EXCEPT ![op[o].id] = i]
          /\ op' = [op EXCEPT ![o] = [@ EXCEPT !.step = "move", !.fd = i]]
    /\ UNCHANGED <<rows, aside, tenants, codes, writer, poll, faults, torn>>

FrameBusy(o) ==
    /\ Moving(o) /\ op[o].step = "guard"
    /\ \/ \E p \in Operators \ {o} : op[p].id = op[o].id /\ op[p].fd # None
       \/ dirs[op[o].id] # None /\ Locked(dirs[op[o].id])
    /\ Done(o)
    /\ UNCHANGED <<rows, files, codes, writer, poll, faults, torn>>

NotFound(o) ==
    /\ Moving(o) /\ op[o].step = "move"
    /\ writer = None
    /\ ~StillThere(op[o].kind, op[o].frame, op[o].id)
    /\ Done(o)
    /\ UNCHANGED <<rows, files, codes, writer, poll, faults, torn>>

\* mutant: the directory is wiped where it stands.
MoveAside_wiped(o) ==
    /\ Moving(o) /\ op[o].step = "move"
    /\ writer = None
    /\ StillThere(op[o].kind, op[o].frame, op[o].id)
    /\ writer' = o
    /\ dirs' = [dirs EXCEPT ![op[o].id] = None]
    /\ tenants' = IF dirs[op[o].id] = None THEN tenants ELSE Deleted(dirs[op[o].id])
    /\ op' = [op EXCEPT ![o].step = IF op[o].kind = "reassign" THEN "provision" ELSE "commit"]
    /\ UNCHANGED <<rows, aside, codes, poll, faults, torn>>

\* _move_aside(), inside the transaction
MoveAside(o) ==
    /\ Moving(o) /\ op[o].step = "move"
    /\ writer = None
    /\ StillThere(op[o].kind, op[o].frame, op[o].id)
    /\ owning[op[o].frame] < MaxOwners
    /\ writer' = o
    /\ dirs' = [dirs EXCEPT ![op[o].id] = None]
    /\ aside' = aside \cup ({dirs[op[o].id]} \ {None})
    /\ op' = [op EXCEPT ![o].moved = dirs[op[o].id],
                        ![o].step = IF op[o].kind = "reassign" THEN "provision" ELSE "commit"]
    /\ UNCHANGED <<rows, tenants, codes, poll, faults, torn>>

\* _reset_directory(): a new owner gets a fresh directory
ResetDirectory(o) ==
    /\ Does(o, "reassign", "provision")
    /\ Provision(op[o].id)
    /\ Go(o, "commit")
    /\ UNCHANGED <<rows, aside, tenants, codes, writer, poll, faults, torn>>

CommitReassign(o) ==
    /\ Does(o, "reassign", "commit")
    /\ LET f == op[o].frame IN
          /\ owning' = [owning EXCEPT ![f] = @ + 1]
          /\ tenants' = Serve(dirs[op[o].id], f, owning[f] + 1)
          /\ torn' = torn \ {f}
    /\ writer' = None
    /\ Go(o, "discard")
    /\ UNCHANGED <<device, pending, dirs, aside, codes, poll, faults>>

CommitReactivate(o) ==
    /\ Does(o, "reactivate", "commit")
    /\ LET f == op[o].frame IN
          /\ owning' = [owning EXCEPT ![f] = @ + 1]
          /\ pending' = [pending EXCEPT ![f] = Row("pending", op[o].id)]
          /\ torn' = torn \ {f}
    /\ writer' = None
    /\ Go(o, "discard")
    /\ UNCHANGED <<device, files, codes, poll, faults>>

\* _discard_aside(), whose errors are logged; then the guard is let go
Discard(o) ==
    /\ Moving(o) /\ op[o].step = "discard"
    /\ \/ /\ aside' = aside \ {op[o].moved}
          /\ tenants' = IF op[o].moved = None THEN tenants ELSE Deleted(op[o].moved)
          /\ UNCHANGED faults
       \/ Fault /\ UNCHANGED <<aside, tenants>>
    /\ Done(o)
    /\ UNCHANGED <<rows, dirs, codes, writer, poll, torn>>

\* a file operation, the audit row or COMMIT fails: rolled back
MoveFails(o) ==
    /\ Moving(o) /\ op[o].step \in {"provision", "commit"}
    /\ Fault
    /\ writer' = None
    /\ op' = [op EXCEPT ![o] = IF @.moved = None THEN Idle ELSE [@ EXCEPT !.step = "clear"]]
    /\ UNCHANGED <<rows, files, codes, poll, torn>>

\* _restore_aside(): a directory made since is discarded
ClearFresh(o) ==
    /\ Moving(o) /\ op[o].step = "clear"
    /\ dirs' = [dirs EXCEPT ![op[o].id] = None]
    /\ tenants' = IF dirs[op[o].id] = None THEN tenants ELSE Deleted(dirs[op[o].id])
    /\ Go(o, "restore")
    /\ UNCHANGED <<rows, aside, codes, writer, poll, faults, torn>>

\* mutant: a failed move ends with the rollback.
Restore_rollbackOnly(o) ==
    /\ Moving(o) /\ op[o].step = "restore"
    /\ Done(o)
    /\ UNCHANGED <<rows, files, codes, writer, poll, faults, torn>>

\* and the old one renamed back, which fails if a poll has made one again
Restore(o) ==
    /\ Moving(o) /\ op[o].step = "restore"
    /\ IF dirs[op[o].id] = None
       THEN /\ dirs' = [dirs EXCEPT ![op[o].id] = op[o].moved]
            /\ aside' = aside \ {op[o].moved}
            /\ UNCHANGED torn
       ELSE torn' = torn \cup {op[o].frame} /\ UNCHANGED <<dirs, aside>>
    /\ Done(o)
    /\ UNCHANGED <<rows, tenants, codes, writer, poll, faults>>

\* the process dies: SQLite rolls back, the files stay as they are
Dies(o) ==
    /\ op[o] # Idle
    /\ Fault
    /\ writer' = IF writer = o THEN None ELSE writer
    /\ torn' = IF op[o].moved # None /\ op[o].step # "discard" THEN torn \cup {op[o].frame} ELSE torn
    /\ Done(o)
    /\ UNCHANGED <<rows, files, codes, poll>>

-----------------------------------------------------------------------------
(* The fleet's poll of a device (fleet_cycle.py, poll_cycle.py): planned from *)
(* the rows, it makes the directory, opens its poll.lock, waits for it, reads *)
(* the directory by its path and writes it by its path.                       *)

PlanPoll(f) ==
    /\ poll = NoPoll
    /\ device[f] # None /\ dirs[device[f]] # None
    /\ poll' = [NoPoll EXCEPT !.step = "open", !.id = device[f]]
    /\ UNCHANGED <<rows, files, codes, writer, op, faults, torn>>

OpenLock ==
    /\ poll.step = "open"
    /\ \E i \in Inodes :
          /\ Made(poll.id, i)
          /\ dirs' = [dirs EXCEPT ![poll.id] = i]
          /\ poll' = [poll EXCEPT !.step = "wait", !.fd = i]
    /\ UNCHANGED <<rows, aside, tenants, codes, writer, op, faults, torn>>

ReadState ==
    /\ poll.step = "wait" /\ ~Locked(poll.fd)
    /\ poll' = [poll EXCEPT !.step = "run",
                            !.read = IF dirs[poll.id] = None THEN {} ELSE tenants[dirs[poll.id]]]
    /\ UNCHANGED <<rows, files, codes, writer, op, faults, torn>>

\* the cycle writes what it made, or fails as its directory has gone
WriteState ==
    /\ poll.step = "run"
    /\ poll' = NoPoll
    /\ UNCHANGED <<rows, files, codes, writer, op, faults, torn>>

PollBusy ==
    /\ poll.step = "wait" /\ Locked(poll.fd)
    /\ poll' = NoPoll
    /\ UNCHANGED <<rows, files, codes, writer, op, faults, torn>>

Next ==
    \/ \E f \in Frames :
          \/ RegisterFrame(f) \/ PollPending(f) \/ DrawCode(f) \/ IssueCode(f) \/ IssueFails(f)
          \/ CodeExpires(f) \/ RetireFrame(f) \/ PlanPoll(f)
    \/ \E o \in Operators :
          \/ \E f \in Frames, id \in Ids : BeginClaim(o, f, id)
          \/ \E kind \in {"reassign", "reactivate"}, f \in Frames, id \in Ids : StartMove(o, kind, f, id)
          \/ CommitClaim(o) \/ ClaimFails(o) \/ Guard(o) \/ FrameBusy(o) \/ NotFound(o)
          \/ MoveAside(o) \/ ResetDirectory(o) \/ CommitReassign(o) \/ CommitReactivate(o)
          \/ Discard(o) \/ MoveFails(o) \/ ClearFresh(o) \/ Restore(o) \/ Dies(o)
    \/ OpenLock \/ ReadState \/ WriteState \/ PollBusy

Spec == Init /\ [][Next]_vars

-----------------------------------------------------------------------------
(* Properties.                                                                *)

Ownerships == Frames \X (0..MaxOwners)

Errands ==
    [kind : {"none", "claim", "reassign", "reactivate"},
     step : {"idle", "guard", "move", "provision", "commit", "discard", "clear", "restore"},
     frame : Frames \cup {None}, id : Ids \cup {None},
     fd : Inodes \cup {None}, moved : Inodes \cup {None}]

Polls ==
    [step : {"idle", "open", "wait", "run"}, id : Ids \cup {None},
     fd : Inodes \cup {None}, read : SUBSET Ownerships]

TypeOK ==
    /\ device \in [Frames -> Ids \cup {None}]
    /\ pending \in [Frames -> PendingRows \cup {None}]
    /\ owning \in [Frames -> 0..MaxOwners]
    /\ dirs \in [Ids -> Inodes \cup {None}] /\ aside \subseteq Inodes
    /\ tenants \in [Inodes -> SUBSET Ownerships]
    /\ panel \in [Frames -> 0..MaxCodes] /\ issued \in 0..MaxCodes
    /\ shown \in [Frames -> 0..MaxCodes] /\ stray \subseteq Frames
    /\ writer \in Operators \cup Frames \cup {None}
    /\ op \in [Operators -> Errands] /\ poll \in Polls
    /\ faults \in 0..MaxFaults /\ torn \subseteq Frames

\* fleet_ops.py: the new owner always starts from a fresh directory, and two
\* claims of one code have one winner. Through failures, deaths, leftovers and
\* polls that make a directory anew, a directory that has been in service is that
\* of the frame its id leads to, for the present ownership and no earlier one.
OneTenant ==
    \A id \in Ids : LET d == dirs[id] IN
        d = None \/ tenants[d] = {} \/ \E f \in Frames : Home(f) = id /\ tenants[d] = {<<f, owning[f]>>}

MovedBy(o, f) == op[o].frame = f /\ op[o].moved # None

\* fleet_ops.py: a failure before COMMIT moves the directory back, so nothing is
\* lost. The data of a device, or of a retired frame, exist as long as its
\* ownership does, aside at worst, and are back in their place once a move has
\* failed, unless it was cut short by a death or its rename was refused.
FailuresKeepData ==
    \A f \in Frames : Home(f) # None =>
        /\ \E i \in Existing : <<f, owning[f]>> \in tenants[i]
        /\ \/ f \in torn
           \/ \E o \in Operators : MovedBy(o, f)
           \/ dirs[Home(f)] # None /\ <<f, owning[f]>> \in tenants[dirs[Home(f)]]

\* _pending_panel(): the code a frame is answered with is the one that claims it,
\* also after a poll that died between drawing a code and storing it, unless the
\* panel file of a live code was lost and the poll that drew it again failed.
ShownCodeClaims ==
    [][\A f \in Frames \ stray : shown'[f] # shown[f] /\ shown'[f] # NoCode =>
           pending'[f].code = shown'[f] /\ pending'[f].live]_shown

\* fleet_ops.py, again: what a cycle read under one ownership it does not write
\* into a directory that is in service for another.
NothingCarriedOver ==
    [][poll.step = "run" /\ poll'.step = "idle" /\ poll.read # {} =>
           dirs[poll.id] = None \/ tenants[dirs[poll.id]] \subseteq poll.read]_poll
=============================================================================
