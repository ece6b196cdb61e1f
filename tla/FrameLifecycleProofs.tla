------------------------- MODULE FrameLifecycleProofs ------------------------
(* The life of frames, for any number of frames, operators, ids and           *)
(* directories, and any pattern of failures, deaths and polls: rows and codes *)
(* whoever passes the guard, directories when all operators do.               *)
EXTENDS FrameLifecycle, TLAPS

-----------------------------------------------------------------------------
(* Where an operator stands.                                                  *)

After == {"provision", "commit", "discard", "clear", "restore"}

Stage(o) ==
    /\ op[o].kind = "none" => op[o] = Idle
    /\ op[o].kind = "claim" =>
          /\ op[o].step = "commit" /\ op[o].frame \in Frames /\ op[o].id \in Ids
          /\ op[o].fd = None /\ op[o].moved = None
    /\ Moving(o) =>
          /\ op[o].frame \in Frames /\ op[o].id \in Ids
          /\ op[o].step \in {"guard", "move"} \cup After
          /\ op[o].step = "guard" => op[o].fd = None
          /\ op[o].step \in {"guard", "move"} => op[o].moved = None
          /\ op[o].step \in {"clear", "restore"} => op[o].moved \in Inodes
    /\ op[o].step \in {"provision", "commit"} => writer = o /\ owning[op[o].frame] < MaxOwners
    /\ op[o].step = "provision" => op[o].kind = "reassign"
Stages == \A o \in Operators : Stage(o)

Unclaimed(f) == pending[f] # None /\ pending[f].status = "pending"

(* A live code is the one on the panel, unless another is being drawn over it *)
(* or was, in vain.                                                           *)
Drawn(f) == pending[f].code = panel[f] /\ panel[f] # NoCode

Codes ==
    \A f \in Frames :
        /\ pending[f] # None /\ pending[f].live => Drawn(f) \/ f \in stray \/ writer = f
        /\ writer = f => Unclaimed(f) /\ panel[f] # NoCode

Polled == poll.step # "idle" => poll.id \in Ids

Base == TypeOK /\ Stages /\ Codes /\ Polled

-----------------------------------------------------------------------------
(* With every operator behind the guard: what a move holds,                   *)

Holds ==
    \A o \in Operators : Moving(o) =>
        /\ op[o].step # "guard" => op[o].fd \in Inodes
        /\ op[o].step = "move" => dirs[op[o].id] = op[o].fd
        /\ op[o].step \in After => op[o].moved = op[o].fd /\ op[o].moved \in aside

(* Past the guard, or in a claim, an operator has its id to itself.           *)
Apart ==
    \A o, p \in Operators : o # p =>
        /\ op[o].fd # None /\ op[p].fd # None => op[o].id # op[p].id /\ op[o].fd # op[p].fd
        /\ op[o].kind = "claim" => op[o].id # op[p].id

(* A directory has one place, and one that is gone is in nobody's service.    *)
Layout ==
    /\ \A a, b \in Ids : dirs[a] # None /\ dirs[a] = dirs[b] => a = b
    /\ \A a \in Ids : dirs[a] \notin aside
    /\ \A i \in Inodes : i \notin Existing => tenants[i] = {}

(* A frame has one row, and no two frames lead to one id.                     *)
Homes ==
    /\ \A f \in Frames : device[f] = None \/ pending[f] = None
    /\ \A f, g \in Frames : Home(f) # None /\ Home(f) = Home(g) => f = g

Claims ==
    \A o \in Operators : op[o].kind = "claim" =>
        /\ \A f \in Frames : Home(f) # op[o].id
        /\ dirs[op[o].id] # None /\ tenants[dirs[op[o].id]] = {}
        /\ Unclaimed(op[o].frame)

(* Until a move is committed, or undone, what it moved is of the frame's      *)
(* present ownership, and what is in its place is in nobody's service.        *)
Away(o) == Moving(o) /\ op[o].step \in After \ {"discard"}

Moves ==
    \A o \in Operators : Away(o) =>
        /\ Home(op[o].frame) = op[o].id
        /\ dirs[op[o].id] # None => tenants[dirs[op[o].id]] = {}
        /\ tenants[op[o].moved] \subseteq {<<op[o].frame, owning[op[o].frame]>>}
        /\ op[o].step \in {"provision", "commit"} => StillThere(op[o].kind, op[o].frame, op[o].id)
        /\ Does(o, "reassign", "commit") => dirs[op[o].id] # None

(* What is about to be deleted is of the past.                                *)
Discards ==
    \A o \in Operators : Moving(o) /\ op[o].step = "discard" =>
        \A f \in Frames, n \in Nat : <<f, n>> \in tenants[op[o].moved] => n < owning[f]

InHome(f) == dirs[Home(f)] # None /\ <<f, owning[f]>> \in tenants[dirs[Home(f)]]

Kept ==
    \A f \in Frames : Home(f) # None =>
        /\ \E i \in Existing : <<f, owning[f]>> \in tenants[i]
        /\ \/ f \in torn
           \/ \E o \in Operators : Away(o) /\ op[o].frame = f /\ <<f, owning[f]>> \in tenants[op[o].moved]
           \/ InHome(f)

Core == Holds /\ Apart /\ Layout /\ Homes /\ Claims /\ Moves /\ Discards /\ OneTenant /\ Kept

-----------------------------------------------------------------------------
(* Types.                                                                     *)

LEMMA RowTypes ==
    /\ None \notin PendingRows
    /\ \A r \in PendingRows : r.live \in BOOLEAN /\ (r.status = "retired" => r.previous \in Ids /\ ~r.live)
    /\ \A r \in PendingRows : r.status = "pending" =>
          \A n \in 0..MaxCodes, b \in BOOLEAN : [r EXCEPT !.code = n, !.live = b] \in PendingRows
    /\ \A r \in PendingRows : [r EXCEPT !.live = FALSE] \in PendingRows
    /\ \A d \in Ids \cup {None} : Row("pending", d) \in PendingRows
    /\ \A d \in Ids : Row("retired", d) \in PendingRows
<1>1. None \notin PendingRows
    BY FrameAssumption
<1>2. ASSUME NEW r \in PendingRows
      PROVE  r.live \in BOOLEAN /\ (r.status = "retired" => r.previous \in Ids /\ ~r.live)
    BY DEF PendingRows
<1>3. ASSUME NEW r \in PendingRows, r.status = "pending", NEW n \in 0..MaxCodes, NEW b \in BOOLEAN
      PROVE  [r EXCEPT !.code = n, !.live = b] \in PendingRows
    BY <1>3 DEF PendingRows
<1>4. \A d \in Ids \cup {None} : Row("pending", d) \in PendingRows
    BY FrameAssumption DEF PendingRows, Row, NoCode
<1>5. \A d \in Ids : Row("retired", d) \in PendingRows
    BY FrameAssumption DEF PendingRows, Row, NoCode
<1>6. ASSUME NEW r \in PendingRows PROVE [r EXCEPT !.live = FALSE] \in PendingRows
  <2>1. CASE r \in [status : {"pending"}, code : 0..MaxCodes, live : BOOLEAN, previous : Ids \cup {None}]
    BY <2>1 DEF PendingRows
  <2>2. CASE r \in [status : {"retired"}, code : {NoCode}, live : {FALSE}, previous : Ids]
    BY <2>2 DEF PendingRows
  <2>. QED  BY <2>1, <2>2 DEF PendingRows
<1>. QED  BY <1>1, <1>2, <1>3, <1>4, <1>5, <1>6

LEMMA IdleType == Idle \in Errands
BY DEF Idle, Errands

LEMMA StepType ==
    ASSUME TypeOK, NEW o \in Operators, NEW s \in {"guard", "move"} \cup After
    PROVE  [op EXCEPT ![o].step = s] \in [Operators -> Errands]
BY DEF TypeOK, Errands, After

LEMMA HoldType ==
    ASSUME NEW e \in Errands, NEW i \in Inodes
    PROVE  [e EXCEPT !.step = "move", !.fd = i] \in Errands
BY DEF Errands

LEMMA StepTypes ==
    ASSUME Base, [Next]_vars
    PROVE  TypeOK'
<1> USE FrameAssumption DEF Base, TypeOK, NoCode
<1>1. CASE UNCHANGED vars
    BY <1>1 DEF vars, rows, files, codes
<1>2. ASSUME NEW f \in Frames, RegisterFrame(f) PROVE TypeOK'
  <2>1. Row("pending", None) \in PendingRows
    BY RowTypes
  <2>. QED  BY <1>2, <2>1 DEF RegisterFrame, files
<1>3. ASSUME NEW f \in Frames, PollPending(f) PROVE TypeOK'
    BY <1>3 DEF PollPending, rows, files
<1>4. ASSUME NEW f \in Frames, DrawCode(f) PROVE TypeOK'
    BY <1>4 DEF DrawCode, Fault, rows, files
<1>5. ASSUME NEW f \in Frames, IssueCode(f) PROVE TypeOK'
  <2>1. pending[f] \in PendingRows /\ pending[f].status = "pending"
    BY <1>5 DEF IssueCode, Codes, Unclaimed
  <2>2. pending' \in [Frames -> PendingRows \cup {None}]
    BY <1>5, <2>1, RowTypes DEF IssueCode
  <2>. QED  BY <1>5, <2>2 DEF IssueCode, files
<1>6. ASSUME NEW f \in Frames, IssueFails(f) PROVE TypeOK'
    BY <1>6 DEF IssueFails, Fault, rows, files
<1>7. ASSUME NEW f \in Frames, CodeExpires(f) PROVE TypeOK'
  <2>1. [pending[f] EXCEPT !.live = FALSE] \in PendingRows
    BY <1>7, RowTypes DEF CodeExpires
  <2>. QED  BY <1>7, <2>1 DEF CodeExpires, files, codes
<1>8. ASSUME NEW f \in Frames, RetireFrame(f) PROVE TypeOK'
    BY <1>8, RowTypes DEF RetireFrame, files, codes
<1>9. ASSUME NEW f \in Frames, PlanPoll(f) PROVE TypeOK'
  <2>1. poll' \in Polls
    BY <1>9 DEF PlanPoll, NoPoll, Polls
  <2>. QED  BY <1>9, <2>1 DEF PlanPoll, rows, files, codes
<1>10. ASSUME NEW o \in Operators, NEW f \in Frames, NEW id \in Ids, BeginClaim(o, f, id) PROVE TypeOK'
  <2>1. op' \in [Operators -> Errands]
    BY <1>10 DEF BeginClaim, Idle, Errands
  <2>2. dirs' \in [Ids -> Inodes \cup {None}]
    BY <1>10 DEF BeginClaim, Provision
  <2>. QED  BY <1>10, <2>1, <2>2 DEF BeginClaim, rows, codes
<1>11. ASSUME NEW o \in Operators, NEW kind \in {"reassign", "reactivate"}, NEW f \in Frames,
              NEW id \in Ids, StartMove(o, kind, f, id)
       PROVE  TypeOK'
  <2>1. op' \in [Operators -> Errands]
    BY <1>11 DEF StartMove, Idle, Errands
  <2>. QED  BY <1>11, <2>1 DEF StartMove, rows, files, codes
<1>12. ASSUME NEW o \in Operators, CommitClaim(o) PROVE TypeOK'
  <2>1. op' \in [Operators -> Errands]
    BY <1>12, IdleType DEF CommitClaim, Done
  <2>2. op[o].frame \in Frames /\ op[o].id \in Ids /\ owning[op[o].frame] + 1 \in 0..MaxOwners
    BY <1>12 DEF CommitClaim, Does, Stages, Stage
  <2>3. tenants' \in [Inodes -> SUBSET Ownerships]
    <3>1. <<op[o].frame, owning[op[o].frame] + 1>> \in Ownerships
      BY <2>2 DEF Ownerships
    <3>. QED  BY <1>12, <3>1 DEF CommitClaim, Serve
  <2>. QED  BY <1>12, <2>1, <2>2, <2>3 DEF CommitClaim
<1>13. ASSUME NEW o \in Operators, ClaimFails(o) PROVE TypeOK'
  <2>1. op' \in [Operators -> Errands]
    BY <1>13, IdleType DEF ClaimFails, Done
  <2>2. op[o].id \in Ids
    BY <1>13 DEF ClaimFails, Does, Stages, Stage
  <2>3. tenants' \in [Inodes -> SUBSET Ownerships]
    BY <1>13 DEF ClaimFails, Deleted
  <2>. QED  BY <1>13, <2>1, <2>2, <2>3 DEF ClaimFails, Fault, rows, codes
<1>14. ASSUME NEW o \in Operators, Guard(o) PROVE TypeOK'
  <2>1. op' \in [Operators -> Errands]
    <3>1. PICK i \in Inodes : op' = [op EXCEPT ![o] = [@ EXCEPT !.step = "move", !.fd = i]]
      BY <1>14 DEF Guard
    <3>2. [op[o] EXCEPT !.step = "move", !.fd = i] \in Errands
      BY HoldType
    <3>. QED  BY <3>1, <3>2
  <2>. QED  BY <1>14, <2>1 DEF Guard, rows, codes
<1>15. ASSUME NEW o \in Operators, FrameBusy(o) PROVE TypeOK'
  <2>1. op' \in [Operators -> Errands]
    BY <1>15, IdleType DEF FrameBusy, Done
  <2>. QED  BY <1>15, <2>1 DEF FrameBusy, rows, files, codes
<1>16. ASSUME NEW o \in Operators, NotFound(o) PROVE TypeOK'
  <2>1. op' \in [Operators -> Errands]
    BY <1>16, IdleType DEF NotFound, Done
  <2>. QED  BY <1>16, <2>1 DEF NotFound, rows, files, codes
<1>17. ASSUME NEW o \in Operators, MoveAside(o) PROVE TypeOK'
  <2>1. op[o].id \in Ids
    BY <1>17 DEF MoveAside, Stages, Stage
  <2>2. op' \in [Operators -> Errands]
    BY <1>17, <2>1 DEF MoveAside, Errands
  <2>. QED  BY <1>17, <2>1, <2>2 DEF MoveAside, rows, codes
<1>18. ASSUME NEW o \in Operators, ResetDirectory(o) PROVE TypeOK'
  <2>1. op' \in [Operators -> Errands]
    BY <1>18, StepType DEF ResetDirectory, Go, After
  <2>. QED  BY <1>18, <2>1 DEF ResetDirectory, Provision, rows, codes
<1>19. ASSUME NEW o \in Operators, CommitReassign(o) PROVE TypeOK'
  <2>1. op' \in [Operators -> Errands]
    BY <1>19, StepType DEF CommitReassign, Go, After
  <2>2. op[o].frame \in Frames /\ owning[op[o].frame] + 1 \in 0..MaxOwners
    BY <1>19 DEF CommitReassign, Does, Moving, Stages, Stage
  <2>3. tenants' \in [Inodes -> SUBSET Ownerships]
    <3>1. <<op[o].frame, owning[op[o].frame] + 1>> \in Ownerships
      BY <2>2 DEF Ownerships
    <3>. QED  BY <1>19, <3>1 DEF CommitReassign, Serve
  <2>. QED  BY <1>19, <2>1, <2>2, <2>3 DEF CommitReassign, codes
<1>20. ASSUME NEW o \in Operators, CommitReactivate(o) PROVE TypeOK'
  <2>1. op' \in [Operators -> Errands]
    BY <1>20, StepType DEF CommitReactivate, Go, After
  <2>2. op[o].frame \in Frames /\ op[o].id \in Ids /\ owning[op[o].frame] + 1 \in 0..MaxOwners
    BY <1>20 DEF CommitReactivate, Does, Moving, Stages, Stage
  <2>3. Row("pending", op[o].id) \in PendingRows
    BY <2>2, RowTypes
  <2>. QED  BY <1>20, <2>1, <2>2, <2>3 DEF CommitReactivate, files, codes
<1>21. ASSUME NEW o \in Operators, Discard(o) PROVE TypeOK'
  <2>1. op' \in [Operators -> Errands]
    BY <1>21, IdleType DEF Discard, Done
  <2>. QED  BY <1>21, <2>1 DEF Discard, Fault, Deleted, rows, codes
<1>22. ASSUME NEW o \in Operators, MoveFails(o) PROVE TypeOK'
  <2>1. op' \in [Operators -> Errands]
    BY <1>22, IdleType DEF MoveFails, Errands
  <2>. QED  BY <1>22, <2>1 DEF MoveFails, Fault, rows, files, codes
<1>23. ASSUME NEW o \in Operators, ClearFresh(o) PROVE TypeOK'
  <2>1. op' \in [Operators -> Errands]
    BY <1>23, StepType DEF ClearFresh, Go, After
  <2>. QED  BY <1>23, <2>1 DEF ClearFresh, Deleted, rows, codes
<1>24. ASSUME NEW o \in Operators, Restore(o) PROVE TypeOK'
  <2>1. op' \in [Operators -> Errands]
    BY <1>24, IdleType DEF Restore, Done
  <2>2. op[o].frame \in Frames /\ op[o].moved \in Inodes
    BY <1>24 DEF Restore, Stages, Stage, After
  <2>. QED  BY <1>24, <2>1, <2>2 DEF Restore, rows, codes
<1>25. ASSUME NEW o \in Operators, Dies(o) PROVE TypeOK'
  <2>1. op' \in [Operators -> Errands]
    BY <1>25, IdleType DEF Dies, Done
  <2>2. op[o].moved # None => op[o].frame \in Frames
    BY <1>25 DEF Dies, Stages, Stage, Errands, Moving, Idle
  <2>. QED  BY <1>25, <2>1, <2>2 DEF Dies, Fault, rows, files, codes
<1>26. CASE OpenLock
  <2>1. poll' \in Polls
    BY <1>26 DEF OpenLock, Polls
  <2>. QED  BY <1>26, <2>1 DEF OpenLock, rows, codes
<1>27. CASE ReadState
  <2>1. poll' \in Polls
    BY <1>27 DEF ReadState, Polls, Polled
  <2>. QED  BY <1>27, <2>1 DEF ReadState, rows, files, codes
<1>28. CASE WriteState
    BY <1>28 DEF WriteState, NoPoll, Polls, rows, files, codes
<1>29. CASE PollBusy
    BY <1>29 DEF PollBusy, NoPoll, Polls, rows, files, codes
<1>. QED
    BY <1>1, <1>2, <1>3, <1>4, <1>5, <1>6, <1>7, <1>8, <1>9, <1>10, <1>11, <1>12, <1>13, <1>14, <1>15,
       <1>16, <1>17, <1>18, <1>19, <1>20, <1>21, <1>22, <1>23, <1>24, <1>25, <1>26, <1>27, <1>28, <1>29
       DEF Next

-----------------------------------------------------------------------------
(* What a step says of rows and errands, field by field.                      *)

AnyRow ==
    [status : {"pending", "retired"}, code : 0..MaxCodes, live : BOOLEAN, previous : Ids \cup {None}]

LEMMA RowFields ==
    ASSUME NEW r \in PendingRows
    PROVE  r \in AnyRow
<1>1. NoCode \in 0..MaxCodes
  BY FrameAssumption DEF NoCode
<1>2. [status : {"retired"}, code : {NoCode}, live : {FALSE}, previous : Ids] \subseteq AnyRow
  BY <1>1 DEF AnyRow
<1>3. [status : {"pending"}, code : 0..MaxCodes, live : BOOLEAN, previous : Ids \cup {None}] \subseteq AnyRow
  BY DEF AnyRow
<1>. QED  BY <1>2, <1>3 DEF PendingRows

(* A code drawn or run out leaves a row what it was otherwise.                *)
Rewritten(f, n, live) ==
    /\ \A g \in Frames : g # f => pending'[g] = pending[g]
    /\ pending[f] # None /\ pending'[f] # None
    /\ pending'[f].status = pending[f].status /\ pending'[f].previous = pending[f].previous
    /\ pending'[f].code = n /\ pending'[f].live = live

LEMMA IssuedRow ==
    ASSUME Base, NEW f \in Frames, IssueCode(f)
    PROVE  Rewritten(f, panel[f], TRUE)
<1>1. pending[f] \in PendingRows /\ pending[f].status = "pending" /\ panel[f] \in 0..MaxCodes
  BY FrameAssumption DEF IssueCode, Base, Codes, Unclaimed, TypeOK
<1>2. pending'[f] = [pending[f] EXCEPT !.code = panel[f], !.live = TRUE]
  BY DEF IssueCode, Base, TypeOK
<1>3. \A g \in Frames : g # f => pending'[g] = pending[g]
  BY DEF IssueCode, Base, TypeOK
<1>4. pending'[f] \in PendingRows
  BY <1>1, <1>2, RowTypes
<1>5. pending[f] # None /\ pending'[f] # None
  BY <1>1, <1>4, RowTypes
<1>6. /\ pending'[f].status = pending[f].status /\ pending'[f].previous = pending[f].previous
      /\ pending'[f].code = panel[f] /\ pending'[f].live = TRUE
  <2>1. pending[f] \in AnyRow
    BY <1>1, RowFields
  <2>. QED  BY <1>2, <2>1 DEF AnyRow
<1>. QED  BY <1>3, <1>5, <1>6 DEF Rewritten

LEMMA ExpiredRow ==
    ASSUME Base, NEW f \in Frames, CodeExpires(f)
    PROVE  Rewritten(f, pending[f].code, FALSE)
<1>1. pending[f] \in PendingRows
  BY DEF CodeExpires, Base, TypeOK
<1>2. pending'[f] = [pending[f] EXCEPT !.live = FALSE]
  BY DEF CodeExpires, Base, TypeOK
<1>3. \A g \in Frames : g # f => pending'[g] = pending[g]
  BY DEF CodeExpires, Base, TypeOK
<1>4. pending'[f] \in PendingRows
  BY <1>1, <1>2, RowTypes
<1>5. pending[f] # None /\ pending'[f] # None
  BY <1>1, <1>4, RowTypes
<1>6. /\ pending'[f].status = pending[f].status /\ pending'[f].previous = pending[f].previous
      /\ pending'[f].code = pending[f].code /\ pending'[f].live = FALSE
  <2>1. pending[f] \in AnyRow
    BY <1>1, RowFields
  <2>. QED  BY <1>2, <2>1 DEF AnyRow
<1>. QED  BY <1>3, <1>5, <1>6 DEF Rewritten

LEMMA NewRows ==
    /\ \A d \in Ids \cup {None} : LET r == Row("pending", d) IN r # None /\ r.status = "pending" /\ ~r.live
    /\ \A d \in Ids : LET r == Row("retired", d) IN
          r # None /\ r.status = "retired" /\ r.previous = d /\ ~r.live
<1>1. \A d \in Ids \cup {None} : LET r == Row("pending", d) IN r.status = "pending" /\ ~r.live
  BY DEF Row
<1>2. \A d \in Ids : LET r == Row("retired", d) IN r.status = "retired" /\ r.previous = d /\ ~r.live
  BY DEF Row
<1>. QED  BY <1>1, <1>2, RowTypes

LEMMA Stepped ==
    ASSUME TypeOK, NEW o \in Operators, NEW s, op' = [op EXCEPT ![o].step = s]
    PROVE  /\ \A p \in Operators : p # o => op'[p] = op[p]
           /\ op'[o].kind = op[o].kind /\ op'[o].step = s /\ op'[o].frame = op[o].frame
           /\ op'[o].id = op[o].id /\ op'[o].fd = op[o].fd /\ op'[o].moved = op[o].moved
BY DEF TypeOK, Errands

LEMMA Ended ==
    ASSUME TypeOK, NEW o \in Operators, op' = [op EXCEPT ![o] = Idle]
    PROVE  /\ \A p \in Operators : p # o => op'[p] = op[p]
           /\ op'[o] = Idle /\ op'[o].kind = "none" /\ op'[o].step = "idle" /\ op'[o].frame = None
           /\ op'[o].id = None /\ op'[o].fd = None /\ op'[o].moved = None
BY DEF TypeOK, Idle

LEMMA Began ==
    ASSUME TypeOK, NEW o \in Operators, NEW f \in Frames, NEW id \in Ids, BeginClaim(o, f, id)
    PROVE  /\ \A p \in Operators : p # o => op'[p] = op[p]
           /\ op'[o].kind = "claim" /\ op'[o].step = "commit" /\ op'[o].frame = f
           /\ op'[o].id = id /\ op'[o].fd = None /\ op'[o].moved = None
BY DEF BeginClaim, TypeOK, Idle

LEMMA Started ==
    ASSUME TypeOK, NEW o \in Operators, NEW kind \in {"reassign", "reactivate"}, NEW f \in Frames,
           NEW id \in Ids, StartMove(o, kind, f, id)
    PROVE  /\ \A p \in Operators : p # o => op'[p] = op[p]
           /\ op'[o].kind = kind /\ op'[o].step = IF o \in Console THEN "guard" ELSE "move"
           /\ op'[o].frame = f /\ op'[o].id = id /\ op'[o].fd = None /\ op'[o].moved = None
BY DEF StartMove, TypeOK, Idle

LEMMA Opened ==
    ASSUME TypeOK, NEW o \in Operators, NEW i \in Inodes,
           op' = [op EXCEPT ![o] = [@ EXCEPT !.step = "move", !.fd = i]]
    PROVE  /\ \A p \in Operators : p # o => op'[p] = op[p]
           /\ op'[o].kind = op[o].kind /\ op'[o].step = "move" /\ op'[o].frame = op[o].frame
           /\ op'[o].id = op[o].id /\ op'[o].fd = i /\ op'[o].moved = op[o].moved
<1>1. op'[o] = [op[o] EXCEPT !.step = "move", !.fd = i] /\ op[o] \in Errands
  BY DEF TypeOK
<1>2. \A p \in Operators : p # o => op'[p] = op[p]
  BY DEF TypeOK
<1>3. ASSUME NEW e \in Errands
      PROVE  LET x == [e EXCEPT !.step = "move", !.fd = i] IN
             /\ x.kind = e.kind /\ x.step = "move" /\ x.frame = e.frame
             /\ x.id = e.id /\ x.fd = i /\ x.moved = e.moved
  BY DEF Errands
<1>. QED  BY <1>1, <1>2, <1>3

LEMMA PutAside ==
    ASSUME TypeOK, NEW o \in Operators, MoveAside(o)
    PROVE  /\ \A p \in Operators : p # o => op'[p] = op[p]
           /\ op'[o].kind = op[o].kind /\ op'[o].frame = op[o].frame
           /\ op'[o].step = IF op[o].kind = "reassign" THEN "provision" ELSE "commit"
           /\ op'[o].id = op[o].id /\ op'[o].fd = op[o].fd /\ op'[o].moved = dirs[op[o].id]
BY DEF MoveAside, TypeOK, Errands

-----------------------------------------------------------------------------
(* The base of the invariant, which needs no guard.                           *)

LEMMA OthersStages ==
    ASSUME Base, NEW o \in Operators,
           \A p \in Operators : p # o => op'[p] = op[p],
           \A p \in Operators : p # o /\ writer = p => writer' = p /\ owning' = owning,
           Stage(o)'
    PROVE  Stages'
<1> SUFFICES ASSUME NEW p \in Operators, p # o PROVE Stage(p)'
  BY DEF Stages
<1>1. Stage(p) /\ op'[p] = op[p]
  BY DEF Base, Stages
<1>2. op[p].step \in {"provision", "commit"} => writer' = p /\ owning' = owning
  BY <1>1 DEF Stage
<1>. QED  BY <1>1, <1>2 DEF Stage, Moving

LEMMA StagesRest ==
    ASSUME Base, UNCHANGED <<op, owning>>, \A o \in Operators : writer = o => writer' = o
    PROVE  Stages'
BY DEF Base, Stages, Stage, Moving

LEMMA EndedStage ==
    ASSUME Base, NEW o \in Operators, Done(o)
    PROVE  Stage(o)' /\ \A p \in Operators : p # o => op'[p] = op[p]
BY Ended DEF Stage, Moving, Base, Done

LEMMA SteppedStage ==
    ASSUME Base, NEW o \in Operators, Moving(o), NEW s \in {"discard", "clear", "restore"},
           op' = [op EXCEPT ![o].step = s], s # "discard" => op[o].moved \in Inodes
    PROVE  Stage(o)' /\ \A p \in Operators : p # o => op'[p] = op[p]
<1>1. Stage(o) /\ TypeOK
  BY DEF Base, Stages
<1>2. /\ \A p \in Operators : p # o => op'[p] = op[p]
      /\ op'[o].kind = op[o].kind /\ op'[o].step = s /\ op'[o].frame = op[o].frame
      /\ op'[o].id = op[o].id /\ op'[o].moved = op[o].moved
  BY <1>1, Stepped
<1>. QED  BY <1>1, <1>2 DEF Stage, Moving, After

LEMMA NobodyWrites ==
    writer = None => \A p \in Operators \cup Frames : writer # p
BY FrameAssumption

LEMMA StepStages ==
    ASSUME Base, TypeOK', [Next]_vars
    PROVE  Stages'
<1> USE DEF Base
<1>1. CASE UNCHANGED vars
    BY <1>1, StagesRest DEF vars, rows
<1>2. ASSUME NEW f \in Frames,
             RegisterFrame(f) \/ PollPending(f) \/ DrawCode(f) \/ IssueCode(f) \/ IssueFails(f)
             \/ CodeExpires(f) \/ RetireFrame(f) \/ PlanPoll(f)
      PROVE  Stages'
  <2>1. UNCHANGED <<op, owning>>
    BY <1>2 DEF RegisterFrame, PollPending, DrawCode, IssueCode, IssueFails, CodeExpires, RetireFrame,
                PlanPoll, rows
  <2>2. writer' = writer \/ writer = None \/ writer = f
    BY <1>2 DEF RegisterFrame, PollPending, DrawCode, IssueCode, IssueFails, CodeExpires, RetireFrame,
                PlanPoll
  <2>3. \A o \in Operators : writer = o => writer' = o
    BY <2>2, FrameAssumption
  <2>. QED  BY <2>1, <2>3, StagesRest
<1>3. CASE OpenLock \/ ReadState \/ WriteState \/ PollBusy
    BY <1>3, StagesRest DEF OpenLock, ReadState, WriteState, PollBusy, rows
<1>4. ASSUME NEW o \in Operators, NEW f \in Frames, NEW id \in Ids, BeginClaim(o, f, id) PROVE Stages'
  <2>1. owning[f] < MaxOwners /\ UNCHANGED rows /\ writer = None /\ writer' = o
    BY <1>4 DEF BeginClaim
  <2>2. Stage(o)'
    BY <1>4, <2>1, Began DEF Stage, Moving, rows
  <2>. QED  BY <1>4, <2>1, <2>2, Began, NobodyWrites, OthersStages
<1>5. ASSUME NEW o \in Operators, NEW kind \in {"reassign", "reactivate"}, NEW f \in Frames, NEW id \in Ids,
             StartMove(o, kind, f, id)
      PROVE  Stages'
  <2>1. UNCHANGED rows /\ writer' = writer
    BY <1>5 DEF StartMove
  <2>2. Stage(o)'
    BY <1>5, Started DEF Stage, Moving, After
  <2>. QED  BY <1>5, <2>1, <2>2, Started, OthersStages DEF rows
<1>6. ASSUME NEW o \in Operators, CommitClaim(o) \/ ClaimFails(o) PROVE Stages'
  <2>1. Done(o)
    BY <1>6 DEF CommitClaim, ClaimFails
  <2>2. writer = o
    BY <1>6 DEF CommitClaim, ClaimFails, Does, Stages, Stage
  <2>. QED  BY <2>1, <2>2, EndedStage, OthersStages
<1>7. ASSUME NEW o \in Operators, FrameBusy(o) \/ NotFound(o) \/ Discard(o) \/ Restore(o) PROVE Stages'
  <2>1. Done(o) /\ UNCHANGED <<writer, owning>>
    BY <1>7 DEF FrameBusy, NotFound, Discard, Restore, rows
  <2>. QED  BY <2>1, EndedStage, OthersStages
<1>8. ASSUME NEW o \in Operators, Guard(o) PROVE Stages'
  <2>1. PICK i \in Inodes : op' = [op EXCEPT ![o] = [@ EXCEPT !.step = "move", !.fd = i]]
    BY <1>8 DEF Guard
  <2>2. Moving(o) /\ op[o].step = "guard" /\ UNCHANGED <<writer, owning>>
    BY <1>8 DEF Guard, rows
  <2>3. Stage(o)'
    BY <2>1, <2>2, Opened DEF Stages, Stage, Moving, After
  <2>. QED  BY <2>1, <2>2, <2>3, Opened, OthersStages
<1>9. ASSUME NEW o \in Operators, MoveAside(o) PROVE Stages'
  <2>1. /\ Moving(o) /\ op[o].step = "move" /\ writer = None /\ writer' = o
        /\ owning[op[o].frame] < MaxOwners /\ UNCHANGED rows
    BY <1>9 DEF MoveAside
  <2>2. Stage(o)'
    BY <1>9, <2>1, PutAside DEF Stages, Stage, Moving, After, rows
  <2>. QED  BY <1>9, <2>1, <2>2, PutAside, NobodyWrites, OthersStages
<1>10. ASSUME NEW o \in Operators, ResetDirectory(o) PROVE Stages'
  <2>1. /\ op[o].kind = "reassign" /\ op[o].step = "provision" /\ op' = [op EXCEPT ![o].step = "commit"]
        /\ UNCHANGED <<writer, owning>>
    BY <1>10 DEF ResetDirectory, Does, Go, rows
  <2>2. Stage(o)'
    BY <2>1, Stepped DEF Stages, Stage, Moving, After
  <2>. QED  BY <2>1, <2>2, Stepped, OthersStages
<1>11. ASSUME NEW o \in Operators, CommitReassign(o) \/ CommitReactivate(o) PROVE Stages'
  <2>1. Moving(o) /\ op[o].step = "commit" /\ op' = [op EXCEPT ![o].step = "discard"]
    BY <1>11 DEF CommitReassign, CommitReactivate, Does, Go, Moving
  <2>2. writer = o
    BY <2>1 DEF Stages, Stage
  <2>. QED  BY <2>1, <2>2, SteppedStage, OthersStages
<1>12. ASSUME NEW o \in Operators, MoveFails(o) PROVE Stages'
  <2>1. Moving(o) /\ op[o].step \in {"provision", "commit"} /\ UNCHANGED rows
    BY <1>12 DEF MoveFails
  <2>2. writer = o
    BY <2>1 DEF Stages, Stage
  <2>3. CASE op[o].moved = None
    <3>1. Done(o)
      BY <1>12, <2>3 DEF MoveFails, Done
    <3>. QED  BY <2>2, <3>1, EndedStage, OthersStages
  <2>4. CASE op[o].moved # None
    <3>1. op' = [op EXCEPT ![o].step = "clear"]
      BY <1>12, <2>4 DEF MoveFails
    <3>2. op[o].moved \in Inodes
      BY <2>4 DEF TypeOK, Errands
    <3>. QED  BY <2>1, <2>2, <3>1, <3>2, SteppedStage, OthersStages
  <2>. QED  BY <2>3, <2>4
<1>13. ASSUME NEW o \in Operators, ClearFresh(o) PROVE Stages'
  <2>1. /\ Moving(o) /\ op[o].step = "clear" /\ op' = [op EXCEPT ![o].step = "restore"]
        /\ UNCHANGED <<writer, owning>>
    BY <1>13 DEF ClearFresh, Go, rows
  <2>2. op[o].moved \in Inodes
    BY <2>1 DEF Stages, Stage
  <2>. QED  BY <2>1, <2>2, SteppedStage, OthersStages
<1>14. ASSUME NEW o \in Operators, Dies(o) PROVE Stages'
  <2>1. Done(o) /\ UNCHANGED owning /\ (writer' = writer \/ writer = o)
    BY <1>14 DEF Dies, rows
  <2>. QED  BY <2>1, EndedStage, OthersStages
<1>. QED
    BY <1>1, <1>2, <1>3, <1>4, <1>5, <1>6, <1>7, <1>8, <1>9, <1>10, <1>11, <1>12, <1>13, <1>14 DEF Next

LEMMA CodesRest ==
    ASSUME Base, UNCHANGED <<pending, panel, stray>>,
           writer' = writer \/ (writer \notin Frames /\ writer' \notin Frames)
    PROVE  Codes'
BY DEF Base, Codes, Drawn, Unclaimed

(* The row and the panel of one frame change, and nobody else draws a code.   *)
OnlyRow(f) ==
    /\ writer' \notin Frames /\ writer \notin Frames \ {f}
    /\ stray \ {f} \subseteq stray'
    /\ \A g \in Frames : g # f => pending'[g] = pending[g] /\ panel'[g] = panel[g]
    /\ pending'[f] # None /\ pending'[f].live => pending'[f].code = panel'[f] /\ panel'[f] # NoCode

LEMMA CodesBut ==
    ASSUME Base, NEW f \in Frames, OnlyRow(f)
    PROVE  Codes'
BY DEF OnlyRow, Base, Codes, Drawn

LEMMA StepCodes ==
    ASSUME Base, TypeOK', [Next]_vars
    PROVE  Codes'
<1> USE DEF Base
<1>0. TypeOK /\ None \notin Frames /\ \A o \in Operators : o \notin Frames
    BY FrameAssumption
<1>1. CASE UNCHANGED vars
    BY <1>1, CodesRest DEF vars, rows, codes
<1>2. ASSUME NEW f \in Frames, RegisterFrame(f) PROVE Codes'
  <2>1. pending' = [pending EXCEPT ![f] = Row("pending", None)] /\ panel' = [panel EXCEPT ![f] = NoCode]
    BY <1>2 DEF RegisterFrame
  <2>2. ~pending'[f].live
    BY <1>0, <2>1, NewRows DEF TypeOK
  <2>3. \A g \in Frames : g # f => pending'[g] = pending[g] /\ panel'[g] = panel[g]
    BY <1>0, <2>1 DEF TypeOK
  <2>4. writer' \notin Frames /\ writer \notin Frames /\ UNCHANGED stray
    BY <1>0, <1>2 DEF RegisterFrame
  <2>5. OnlyRow(f)
    BY <2>2, <2>3, <2>4 DEF OnlyRow
  <2>. QED  BY <2>5, CodesBut
<1>3. ASSUME NEW f \in Frames, PollPending(f) \/ PlanPoll(f) PROVE Codes'
    BY <1>0, <1>3, CodesRest DEF PollPending, PlanPoll, rows, codes
<1>4. ASSUME NEW f \in Frames, DrawCode(f) PROVE Codes'
  <2>1. /\ Unclaimed(f) /\ writer = None /\ writer' = f
        /\ UNCHANGED <<pending, stray>> /\ panel' = [panel EXCEPT ![f] = issued + 1]
    BY <1>4 DEF DrawCode, Unclaimed, rows
  <2>2. panel'[f] # NoCode /\ \A g \in Frames : g # f => panel'[g] = panel[g]
    BY <1>0, <2>1, FrameAssumption DEF TypeOK, NoCode
  <2>. QED  BY <1>0, <2>1, <2>2 DEF Codes, Drawn, Unclaimed
<1>5. ASSUME NEW f \in Frames, IssueCode(f) PROVE Codes'
  <2>1. Rewritten(f, panel[f], TRUE)
    BY <1>5, IssuedRow
  <2>2. UNCHANGED panel /\ writer = f /\ writer' = None /\ stray' = stray \ {f} /\ panel[f] # NoCode
    BY <1>5 DEF IssueCode, Codes
  <2>3. OnlyRow(f)
    BY <1>0, <2>1, <2>2 DEF Rewritten, OnlyRow
  <2>. QED  BY <2>3, CodesBut
<1>6. ASSUME NEW f \in Frames, CodeExpires(f) PROVE Codes'
  <2>1. Rewritten(f, pending[f].code, FALSE)
    BY <1>6, ExpiredRow
  <2>2. UNCHANGED <<panel, stray, writer>>
    BY <1>6 DEF CodeExpires, codes
  <2>. QED  BY <2>1, <2>2 DEF Rewritten, Codes, Drawn, Unclaimed
<1>7. ASSUME NEW f \in Frames, RetireFrame(f) PROVE Codes'
  <2>1. pending' = [pending EXCEPT ![f] = Row("retired", device[f])] /\ device[f] \in Ids
    BY <1>0, <1>7 DEF RetireFrame, TypeOK
  <2>2. ~pending'[f].live /\ \A g \in Frames : g # f => pending'[g] = pending[g]
    BY <1>0, <2>1, NewRows DEF TypeOK
  <2>3. UNCHANGED <<panel, stray>> /\ writer \notin Frames /\ writer' \notin Frames
    BY <1>0, <1>7 DEF RetireFrame, codes
  <2>4. OnlyRow(f)
    BY <2>2, <2>3 DEF OnlyRow
  <2>. QED  BY <2>4, CodesBut
<1>8. ASSUME NEW o \in Operators, CommitClaim(o) PROVE Codes'
  <2>1. op[o].frame \in Frames
    BY <1>8 DEF CommitClaim, Does, Stages, Stage
  <2>2. /\ pending' = [pending EXCEPT ![op[o].frame] = None]
        /\ panel' = [panel EXCEPT ![op[o].frame] = NoCode] /\ UNCHANGED stray
        /\ writer = o /\ writer' = None
    BY <1>8 DEF CommitClaim, Does, Stages, Stage
  <2>3. /\ pending'[op[o].frame] = None
        /\ \A g \in Frames : g # op[o].frame => pending'[g] = pending[g] /\ panel'[g] = panel[g]
    BY <1>0, <2>1, <2>2 DEF TypeOK
  <2>4. OnlyRow(op[o].frame)
    BY <1>0, <2>2, <2>3 DEF OnlyRow
  <2>. QED  BY <2>1, <2>4, CodesBut
<1>9. ASSUME NEW o \in Operators, CommitReactivate(o) PROVE Codes'
  <2>1. op[o].frame \in Frames /\ op[o].id \in Ids
    BY <1>9 DEF CommitReactivate, Does, Moving, Stages, Stage
  <2>2. /\ pending' = [pending EXCEPT ![op[o].frame] = Row("pending", op[o].id)]
        /\ UNCHANGED <<panel, stray>> /\ writer = o /\ writer' = None
    BY <1>9 DEF CommitReactivate, Does, Stages, Stage, codes
  <2>3. /\ ~pending'[op[o].frame].live
        /\ \A g \in Frames : g # op[o].frame => pending'[g] = pending[g]
    BY <1>0, <2>1, <2>2, NewRows DEF TypeOK
  <2>4. OnlyRow(op[o].frame)
    BY <1>0, <2>2, <2>3 DEF OnlyRow
  <2>. QED  BY <2>1, <2>4, CodesBut
<1>10. ASSUME NEW o \in Operators,
              (\E f \in Frames, id \in Ids : BeginClaim(o, f, id))
              \/ (\E kind \in {"reassign", "reactivate"}, f \in Frames, id \in Ids : StartMove(o, kind, f, id))
              \/ ClaimFails(o) \/ Guard(o) \/ FrameBusy(o) \/ NotFound(o) \/ MoveAside(o)
              \/ ResetDirectory(o) \/ CommitReassign(o) \/ Discard(o) \/ MoveFails(o) \/ ClearFresh(o)
              \/ Restore(o) \/ Dies(o)
       PROVE  Codes'
  <2>1. UNCHANGED <<pending, panel, stray>>
    BY <1>10 DEF BeginClaim, StartMove, ClaimFails, Guard, FrameBusy, NotFound, MoveAside, ResetDirectory,
                 CommitReassign, Discard, MoveFails, ClearFresh, Restore, Dies, rows, codes
  <2>2. writer' = writer \/ (writer \in {None, o} /\ writer' \in {None, o})
    BY <1>10 DEF BeginClaim, StartMove, ClaimFails, Guard, FrameBusy, NotFound, MoveAside, ResetDirectory,
                 CommitReassign, Discard, MoveFails, ClearFresh, Restore, Dies, Does, Stages, Stage
  <2>. QED  BY <1>0, <2>1, <2>2, CodesRest
<1>12. ASSUME NEW f \in Frames, IssueFails(f) PROVE Codes'
  <2>1. /\ UNCHANGED <<pending, panel>> /\ writer = f /\ writer' = None
        /\ stray' = IF pending[f].live THEN stray \cup {f} ELSE stray
    BY <1>12 DEF IssueFails, rows
  <2>. QED  BY <1>0, <2>1 DEF Codes, Drawn, Unclaimed
<1>11. CASE OpenLock \/ ReadState \/ WriteState \/ PollBusy
    BY <1>11, CodesRest DEF OpenLock, ReadState, WriteState, PollBusy, rows, codes
<1>. QED
    BY <1>1, <1>2, <1>3, <1>4, <1>5, <1>6, <1>7, <1>8, <1>9, <1>10, <1>11, <1>12 DEF Next

LEMMA StepPolled ==
    ASSUME Base, [Next]_vars
    PROVE  Polled'
<1> USE DEF Base, Polled
<1>1. CASE UNCHANGED poll
    BY <1>1
<1>2. ASSUME NEW f \in Frames, PlanPoll(f) PROVE Polled'
    BY <1>2 DEF PlanPoll, NoPoll, TypeOK
<1>3. CASE OpenLock \/ ReadState
    BY <1>3 DEF OpenLock, ReadState, TypeOK, Polls
<1>4. CASE WriteState \/ PollBusy
    BY <1>4 DEF WriteState, PollBusy, NoPoll
<1>. QED
    BY <1>1, <1>2, <1>3, <1>4
       DEF Next, RegisterFrame, PollPending, DrawCode, IssueCode, IssueFails, CodeExpires, RetireFrame,
           BeginClaim, StartMove, CommitClaim, ClaimFails, Guard, FrameBusy, NotFound, MoveAside,
           ResetDirectory, CommitReassign, CommitReactivate, Discard, MoveFails, ClearFresh, Restore, Dies,
           vars

LEMMA InitBase == Init => Base
<1> SUFFICES ASSUME Init PROVE Base
  OBVIOUS
<1>1. TypeOK
  <2>1. Idle \in Errands /\ NoPoll \in Polls
    BY DEF Idle, Errands, NoPoll, Polls
  <2>. QED  BY <2>1, FrameAssumption DEF Init, TypeOK, NoCode
<1>2. Stages
  BY DEF Init, Stages, Stage, Moving, Idle
<1>3. Codes
  BY FrameAssumption DEF Init, Codes
<1>4. Polled
  BY DEF Init, Polled, NoPoll
<1>. QED  BY <1>1, <1>2, <1>3, <1>4 DEF Base

LEMMA StepBase ==
    ASSUME Base, [Next]_vars
    PROVE  Base'
BY StepTypes, StepStages, StepCodes, StepPolled DEF Base

(* Rows, directories, errands and polls keep their types, whatever fails and  *)
(* whoever passes the guard: a retired row leads to a device id, and no frame *)
(* has more ownerships than were committed.                                   *)
THEOREM RowsKeepTypes == Spec => []TypeOK
<1>1. Spec => []Base
  BY InitBase, StepBase, PTL DEF Spec
<1>2. Base => TypeOK
  BY DEF Base
<1>. QED  BY <1>1, <1>2, PTL

(* The code a frame is answered with is the one in its row, live: a panel file*)
(* that a failed transaction left behind is not shown for it, unless it was   *)
(* drawn over a live code whose own panel file was lost.                      *)
THEOREM CodesClaim == Spec => ShownCodeClaims
<1> DEFINE Claiming == \A f \in Frames \ stray : shown'[f] # shown[f] /\ shown'[f] # NoCode =>
                          pending'[f].code = shown'[f] /\ pending'[f].live
<1>1. Spec => []Base
  BY InitBase, StepBase, PTL DEF Spec
<1>2. ASSUME Base, [Next]_vars PROVE [Claiming]_shown
  <2>1. CASE UNCHANGED shown
    BY <2>1
  <2>2. ASSUME NEW f \in Frames, PollPending(f) PROVE Claiming
    <3>1. UNCHANGED pending /\ shown \in [Frames -> 0..MaxCodes] /\ pending[f] # None
      BY <1>2, <2>2 DEF PollPending, rows, Base, TypeOK
    <3>2. CASE shown' = [shown EXCEPT ![f] = NoCode]
      BY <3>1, <3>2
    <3>3. CASE pending[f].live /\ shown' = [shown EXCEPT ![f] = panel[f]]
      <4>1. f \in stray \/ pending[f].code = panel[f]
        BY <1>2, <2>2, <3>1, <3>3, FrameAssumption DEF PollPending, Base, Codes, Drawn
      <4>. QED  BY <3>1, <3>3, <4>1
    <3>. QED  BY <2>2, <3>2, <3>3 DEF PollPending
  <2>3. ASSUME NEW f \in Frames, IssueCode(f) PROVE Claiming
    <3>1. Rewritten(f, panel[f], TRUE)
      BY <1>2, <2>3, IssuedRow
    <3>2. shown' = [shown EXCEPT ![f] = panel[f]] /\ shown \in [Frames -> 0..MaxCodes]
      BY <1>2, <2>3 DEF IssueCode, Base, TypeOK
    <3>. QED  BY <3>1, <3>2 DEF Rewritten
  <2>. QED
    BY <1>2, <2>1, <2>2, <2>3
       DEF Next, RegisterFrame, DrawCode, IssueFails, CodeExpires, RetireFrame, PlanPoll, BeginClaim,
           StartMove, CommitClaim, ClaimFails, Guard, FrameBusy, NotFound, MoveAside, ResetDirectory,
           CommitReassign, CommitReactivate, Discard, MoveFails, ClearFresh, Restore, Dies, OpenLock,
           ReadState, WriteState, PollBusy, vars, rows, files, codes
<1>. QED  BY <1>1, <1>2, PTL DEF Spec, ShownCodeClaims

-----------------------------------------------------------------------------
(* Steps that leave directories, errands and homes alone.                     *)

LEMMA Quiet ==
    ASSUME Base, Core, UNCHANGED <<owning, dirs, aside, tenants, op, torn>>,
           \A f \in Frames : Home(f)' = Home(f) /\ (device'[f] = None \/ pending'[f] = None),
           \A o \in Operators : op[o].kind = "claim" => Unclaimed(op[o].frame)',
           \A o \in Operators : Away(o) /\ op[o].step \in {"provision", "commit"} =>
               StillThere(op[o].kind, op[o].frame, op[o].id)'
    PROVE  Core'
<1> USE DEF Core
<1>1. Holds'
    BY DEF Holds, Moving
<1>2. Apart'
    BY DEF Apart
<1>3. Layout'
    BY DEF Layout, Existing, InPlace
<1>4. Homes'
    BY DEF Homes
<1>5. Claims'
    BY DEF Claims
<1>6. Moves'
  <2>1. \A o \in Operators : (Away(o)' <=> Away(o)) /\ (Away(o) => op[o].frame \in Frames)
    BY DEF Away, Moving, Base, Stages, Stage
  <2>. QED  BY <2>1 DEF Moves, Does
<1>7. Discards'
    BY DEF Discards, Moving
<1>8. OneTenant'
    BY DEF OneTenant
<1>9. Kept'
    BY DEF Kept, InHome, Away, Moving, Existing, InPlace
<1>. QED  BY <1>1, <1>2, <1>3, <1>4, <1>5, <1>6, <1>7, <1>8, <1>9

LEMMA SameRows ==
    ASSUME UNCHANGED <<device, pending>>
    PROVE  /\ \A f \in Frames : Home(f)' = Home(f) /\ (Unclaimed(f) => Unclaimed(f)')
           /\ \A kind, f, id : StillThere(kind, f, id) => StillThere(kind, f, id)'
BY DEF Home, Unclaimed, StillThere

LEMMA Rows ==
    ASSUME Base, Core
    PROVE  /\ \A f \in Frames : device[f] = None \/ pending[f] = None
           /\ \A o \in Operators : op[o].kind = "claim" =>
                 writer = o /\ op[o].frame \in Frames /\ Unclaimed(op[o].frame)
           /\ \A o \in Operators : Away(o) /\ op[o].step \in {"provision", "commit"} =>
                 /\ writer = o /\ op[o].frame \in Frames
                 /\ StillThere(op[o].kind, op[o].frame, op[o].id)
BY DEF Base, Core, Homes, Claims, Moves, Away, Stages, Stage

LEMMA FrameStepsKeepCore ==
    ASSUME Base, Core, NEW f \in Frames,
           \/ RegisterFrame(f) \/ PollPending(f) \/ DrawCode(f) \/ IssueCode(f) \/ IssueFails(f)
           \/ CodeExpires(f) \/ RetireFrame(f) \/ PlanPoll(f)
    PROVE  Core'
<1>1. UNCHANGED <<owning, dirs, aside, tenants, op, torn>>
    BY DEF RegisterFrame, PollPending, DrawCode, IssueCode, IssueFails, CodeExpires, RetireFrame,
           PlanPoll, rows, files, codes
<1>2. CASE UNCHANGED <<device, pending>>
    BY <1>1, <1>2, SameRows, Rows, Quiet
<1>3. CASE RegisterFrame(f)
  <2>1. /\ device[f] = None /\ pending[f] = None /\ UNCHANGED device /\ writer = None
        /\ pending' = [pending EXCEPT ![f] = Row("pending", None)] /\ pending \in [Frames -> PendingRows \cup {None}]
    BY <1>3 DEF RegisterFrame, Base, TypeOK
  <2>2. /\ \A g \in Frames : g # f => pending'[g] = pending[g]
        /\ pending'[f] # None /\ pending'[f].status = "pending"
    BY <2>1, NewRows
  <2>3. \A g \in Frames : Home(g)' = Home(g) /\ (device'[g] = None \/ pending'[g] = None)
    BY <2>1, <2>2, Rows DEF Home
  <2>4. \A g \in Frames : Unclaimed(g) => Unclaimed(g)'
    BY <2>1, <2>2 DEF Unclaimed
  <2>5. \A o \in Operators : writer # o
    BY <2>1, NobodyWrites
  <2>. QED  BY <1>1, <2>3, <2>4, <2>5, Rows, Quiet
<1>4. CASE IssueCode(f) \/ CodeExpires(f)
  <2>1. PICK n, live : Rewritten(f, n, live)
    BY <1>4, IssuedRow, ExpiredRow
  <2>2. UNCHANGED device
    BY <1>4 DEF IssueCode, CodeExpires
  <2>3. \A g \in Frames : Home(g)' = Home(g) /\ (device'[g] = None \/ pending'[g] = None)
    BY <2>1, <2>2, Rows DEF Home, Rewritten
  <2>4. \A g \in Frames : Unclaimed(g) => Unclaimed(g)'
    BY <2>1 DEF Unclaimed, Rewritten
  <2>5. \A kind, id : \A g \in Frames : StillThere(kind, g, id) => StillThere(kind, g, id)'
    BY <2>1, <2>2 DEF StillThere, Rewritten
  <2>. QED  BY <1>1, <2>3, <2>4, <2>5, Rows, Quiet
<1>5. CASE RetireFrame(f)
  <2>1. /\ device[f] \in Ids /\ device[f] # None /\ writer = None /\ device \in [Frames -> Ids \cup {None}]
        /\ pending' = [pending EXCEPT ![f] = Row("retired", device[f])] /\ pending \in [Frames -> PendingRows \cup {None}]
        /\ device' = [device EXCEPT ![f] = None]
    BY <1>5 DEF RetireFrame, Base, TypeOK
  <2>2. /\ \A g \in Frames : g # f => pending'[g] = pending[g] /\ device'[g] = device[g]
        /\ pending'[f] # None /\ pending'[f].status = "retired" /\ pending'[f].previous = device[f]
        /\ device'[f] = None
    BY <2>1, NewRows
  <2>3. \A g \in Frames : Home(g)' = Home(g) /\ (device'[g] = None \/ pending'[g] = None)
    BY <2>1, <2>2, Rows DEF Home
  <2>4. \A o \in Operators : writer # o
    BY <2>1, NobodyWrites
  <2>. QED  BY <1>1, <2>3, <2>4, Rows, Quiet
<1>. QED  BY <1>2, <1>3, <1>4, <1>5
          DEF PollPending, DrawCode, IssueFails, PlanPoll, rows

LEMMA PollStepsKeepCore ==
    ASSUME Base, Core, ReadState \/ WriteState \/ PollBusy \/ UNCHANGED vars
    PROVE  Core'
<1>1. UNCHANGED <<device, pending, owning, dirs, aside, tenants, op, torn>>
    BY DEF ReadState, WriteState, PollBusy, vars, rows, files, codes
<1>. QED  BY <1>1, SameRows, Rows, Quiet

-----------------------------------------------------------------------------
(* What the invariant says of each operator and of its directory.             *)

LEMMA Standing ==
    ASSUME Base, Core, NEW o \in Operators
    PROVE  /\ Moving(o) \/ op[o].kind = "claim" => op[o].frame \in Frames /\ op[o].id \in Ids
           /\ Moving(o) /\ op[o].step # "guard" => op[o].fd \in Inodes /\ op[o].fd # None
           /\ Moving(o) /\ op[o].step = "move" => dirs[op[o].id] = op[o].fd
           /\ Moving(o) /\ op[o].step \in After =>
                 op[o].moved = op[o].fd /\ op[o].moved \in aside /\ op[o].moved # None
           /\ op[o].kind # "claim" /\ ~Moving(o) => op[o] = Idle
BY FrameAssumption DEF Base, Core, Stages, Stage, Holds, TypeOK, Errands, Moving

LEMMA Alone ==
    ASSUME Base, Core, NEW o \in Operators, NEW p \in Operators, o # p
    PROVE  /\ Moving(o) /\ Moving(p) /\ op[o].step # "guard" /\ op[p].step # "guard" =>
                 op[o].id # op[p].id /\ op[o].fd # op[p].fd
           /\ op[o].kind = "claim" \/ op[p].kind = "claim" => op[o].id # op[p].id
BY Standing DEF Core, Apart

(* makedirs(exist_ok=True): nothing is displaced, and what is new is empty.   *)
Makes(d, i) ==
    /\ d \in Ids /\ i \in Inodes /\ dirs' = [dirs EXCEPT ![d] = i]
    /\ \/ dirs[d] # None /\ i = dirs[d]
       \/ dirs[d] = None /\ i \notin Existing /\ tenants[i] = {}

LEMMA MadeMakes ==
    ASSUME Base, Core, NEW d \in Ids, NEW i \in Inodes, Made(d, i), dirs' = [dirs EXCEPT ![d] = i]
    PROVE  Makes(d, i)
BY DEF Makes, Made, Free, Base, TypeOK, Core, Layout

Members(d, a) == \A j : j \in Existing <=> (j \in a \/ (j # None /\ \E e \in Ids : d[e] = j))

LEMMA ExistingDirs ==
    /\ dirs \in [Ids -> Inodes \cup {None}] => Members(dirs, aside)
    /\ dirs' \in [Ids -> Inodes \cup {None}] => Members(dirs, aside)'
<1>1. ASSUME dirs \in [Ids -> Inodes \cup {None}] PROVE Members(dirs, aside)
  <2>1. \A j : j \in Range(dirs) <=> \E e \in Ids : dirs[e] = j
    BY <1>1 DEF Range
  <2>. QED  BY <2>1 DEF Members, Existing, InPlace
<1>2. ASSUME dirs' \in [Ids -> Inodes \cup {None}] PROVE Members(dirs, aside)'
  <2>1. \A j : j \in Range(dirs)' <=> \E e \in Ids : dirs'[e] = j
    BY <1>2 DEF Range
  <2>. QED  BY <2>1 DEF Members, Existing, InPlace
<1>. QED  BY <1>1, <1>2

LEMMA MakesFacts ==
    ASSUME Base, NEW d \in Ids, NEW i \in Inodes, Makes(d, i)
    PROVE  /\ \A a \in Ids : a # d \/ dirs[a] # None => dirs'[a] = dirs[a]
           /\ dirs'[d] = i /\ i # None
           /\ UNCHANGED aside => Existing \subseteq Existing'
           /\ UNCHANGED aside => \A j \in Existing' : j \in Existing \/ j = i
           /\ \A a \in Ids : dirs[a] # None => dirs[a] \in Existing
           /\ \A j \in aside : j \in Existing
<1>1. dirs \in [Ids -> Inodes \cup {None}] /\ None \notin Inodes
  BY FrameAssumption DEF Base, TypeOK
<1>2. \A a \in Ids : a # d => dirs'[a] = dirs[a]
  BY <1>1 DEF Makes
<1>3. dirs'[d] = i /\ i # None /\ (dirs[d] # None => dirs'[d] = dirs[d])
  BY <1>1 DEF Makes
<1>4. Members(dirs, aside)
  BY <1>1, ExistingDirs
<1>5. dirs' \in [Ids -> Inodes \cup {None}]
  BY <1>1 DEF Makes
<1>6. Members(dirs, aside)'
  BY <1>5, ExistingDirs
<1>. QED  BY <1>2, <1>3, <1>4, <1>6 DEF Members

LEMMA MakesKeeps ==
    ASSUME Base, Core, NEW d \in Ids, NEW i \in Inodes, Makes(d, i),
           UNCHANGED <<device, pending, owning, aside, tenants>>
    PROVE  Layout' /\ Homes' /\ OneTenant'
<1>1. Layout'
  <2>1. \A a, b \in Ids : dirs[a] # None /\ dirs[a] = dirs[b] => a = b
    BY DEF Core, Layout
  <2>2. /\ \A a \in Ids : a # d \/ dirs[a] # None => dirs'[a] = dirs[a]
        /\ dirs'[d] = i /\ (dirs[d] = None => \A a \in Ids : dirs[a] # i) /\ (dirs[d] = None => i \notin aside)
    BY MakesFacts DEF Makes
  <2>3. \A a, b \in Ids : dirs'[a] # None /\ dirs'[a] = dirs'[b] => a = b
    BY <2>1, <2>2
  <2>4. \A a \in Ids : dirs'[a] \notin aside
    BY <2>2 DEF Core, Layout
  <2>5. \A j \in Inodes : j \notin Existing' => tenants[j] = {}
    BY MakesFacts DEF Core, Layout
  <2>. QED  BY <2>3, <2>4, <2>5 DEF Layout
<1>2. Homes'
  BY SameRows DEF Core, Homes
<1>3. OneTenant'
  BY MakesFacts, SameRows DEF Core, OneTenant, Makes
<1>. QED  BY <1>1, <1>2, <1>3

LEMMA OpenLockKeepsCore ==
    ASSUME Base, Core, OpenLock
    PROVE  Core'
<1>1. PICK i \in Inodes : Made(poll.id, i) /\ dirs' = [dirs EXCEPT ![poll.id] = i]
  BY DEF OpenLock
<1>2. poll.id \in Ids /\ UNCHANGED <<device, pending, owning, aside, tenants, op, torn, writer>>
  BY DEF OpenLock, rows, Base, Polled
<1>3. Makes(poll.id, i)
  BY <1>1, <1>2, MadeMakes
<1>4. Layout' /\ Homes' /\ OneTenant'
  BY <1>2, <1>3, MakesKeeps
<1>5. /\ \A a \in Ids : dirs[a] # None => dirs'[a] = dirs[a]
      /\ \A a \in Ids : dirs[a] = None /\ dirs'[a] # None => tenants[dirs'[a]] = {}
  BY <1>2, <1>3, MakesFacts DEF Makes
<1>6. Holds'
  BY <1>2, <1>5, Standing DEF Core, Holds, Moving
<1>7. Apart'
  BY <1>2 DEF Core, Apart
<1>8. Claims'
  BY <1>2, <1>5, SameRows, Standing DEF Core, Claims
<1>9. Moves'
  <2>1. \A o \in Operators : Away(o)' <=> Away(o)
    BY <1>2 DEF Away, Moving
  <2>2. \A o \in Operators : Away(o) => op[o].frame \in Frames /\ op[o].id \in Ids
    BY Standing DEF Away
  <2>. QED  BY <1>2, <1>5, <2>1, <2>2, SameRows DEF Core, Moves, Does
<1>10. Discards'
  BY <1>2 DEF Core, Discards, Moving
<1>11. Kept'
  <2>1. \A o \in Operators : Away(o)' <=> Away(o)
    BY <1>2 DEF Away, Moving
  <2>2. Existing \subseteq Existing'
    BY <1>2, <1>3, MakesFacts
  <2>3. \A f \in Frames : Home(f) # None => Home(f) \in Ids
    BY DEF Home, Base, TypeOK, PendingRows
  <2>. QED  BY <1>2, <1>5, <2>1, <2>2, <2>3, SameRows DEF Core, Kept, InHome
<1>. QED  BY <1>4, <1>6, <1>7, <1>8, <1>9, <1>10, <1>11 DEF Core

LEMMA HomeIds ==
    ASSUME Base
    PROVE  \A f \in Frames : Home(f) # None => Home(f) \in Ids
BY DEF Home, Base, TypeOK, PendingRows

(* Others stand as they stood.                                                *)
Others(o) == \A p \in Operators : p # o => op'[p] = op[p]

LEMMA OthersFacts ==
    ASSUME NEW o \in Operators, Others(o)
    PROVE  \A p \in Operators : p # o =>
              (Away(p)' <=> Away(p)) /\ (Moving(p)' <=> Moving(p))
BY DEF Others, Away, Moving

LEMMA BeginClaimKeepsCore ==
    ASSUME Base, Core, NEW o \in Operators, NEW f \in Frames, NEW id \in Ids, BeginClaim(o, f, id)
    PROVE  Core'
<1>1. /\ op[o] = Idle /\ Unclaimed(f) /\ Untaken(id) /\ ~InUse(id)
      /\ UNCHANGED <<device, pending, owning, aside, tenants, torn>>
  BY DEF BeginClaim, rows, Unclaimed
<1>2. PICK i \in Inodes : Makes(id, i)
  BY MadeMakes DEF BeginClaim, Provision
<1>3. Others(o) /\ op'[o].kind = "claim" /\ op'[o].frame = f /\ op'[o].id = id /\ op'[o].fd = None
  BY Began DEF Base, Others
<1>4. Layout' /\ Homes' /\ OneTenant'
  BY <1>1, <1>2, MakesKeeps
<1>5. /\ \A a \in Ids : dirs[a] # None \/ a # id => dirs'[a] = dirs[a]
      /\ dirs'[id] # None /\ tenants[dirs'[id]] = {} /\ Existing \subseteq Existing' /\ dirs[id] = None
  BY <1>1, <1>2, MakesFacts DEF Makes, Untaken
<1>6. \A p \in Operators : op[p].id # id
  BY <1>1 DEF InUse
<1>7. ~Moving(o) /\ ~Moving(o)' /\ ~Away(o) /\ op[o].kind = "none"
  BY <1>1, <1>3 DEF Moving, Away, Idle
<1>8. \A g \in Frames : Home(g) # id
  <2>1. SUFFICES ASSUME NEW g \in Frames, Home(g) = id PROVE FALSE
    OBVIOUS
  <2>2. id # None
    BY FrameAssumption
  <2>3. g \notin torn
    BY <1>1, <2>1 DEF InUse
  <2>4. \A p \in Operators : Away(p) => op[p].frame # g
    BY <1>6, <2>1 DEF Core, Moves
  <2>. QED  BY <1>5, <2>1, <2>2, <2>3, <2>4 DEF Core, Kept, InHome
<1>9. Holds'
  BY <1>1, <1>3, <1>5, <1>6, <1>7, Standing, OthersFacts DEF Core, Holds, Others
<1>10. Apart'
  BY <1>3, <1>6 DEF Core, Apart, Others
<1>11. Claims'
  <2>1. \A p \in Operators : p # o /\ op[p].kind = "claim" => op[p].id \in Ids
    BY Standing
  <2>2. ASSUME NEW p \in Operators, p # o, op'[p].kind = "claim"
        PROVE  /\ \A g \in Frames : Home(g)' # op'[p].id
               /\ dirs'[op'[p].id] # None /\ tenants'[dirs'[op'[p].id]] = {}
               /\ Unclaimed(op[p].frame)'
    <3>1. op'[p] = op[p] /\ op[p].id # id /\ op[p].id \in Ids /\ op[p].frame \in Frames
      BY <1>3, <1>6, <2>1, <2>2, Standing DEF Others
    <3>. QED  BY <1>1, <1>5, <2>2, <3>1, SameRows DEF Core, Claims
  <2>3. /\ \A g \in Frames : Home(g)' # op'[o].id
        /\ dirs'[op'[o].id] # None /\ tenants'[dirs'[op'[o].id]] = {}
        /\ Unclaimed(op[o].frame)'
    BY <1>1, <1>3, <1>5, <1>8, SameRows
  <2>. QED  BY <2>2, <2>3 DEF Claims
<1>12. Moves'
  <2>1. \A p \in Operators : Away(p)' => p # o /\ Away(p) /\ op'[p] = op[p]
    BY <1>3, <1>7, OthersFacts DEF Others, Away
  <2>2. \A p \in Operators : Away(p) => op[p].frame \in Frames /\ op[p].id \in Ids
    BY Standing DEF Away
  <2>. QED  BY <1>1, <1>5, <1>6, <2>1, <2>2, SameRows DEF Core, Moves, Does
<1>13. Discards'
  BY <1>1, <1>3, <1>7, OthersFacts DEF Core, Discards, Others
<1>14. Kept'
  <2>1. \A p \in Operators : Away(p) => p # o /\ Away(p)' /\ op'[p] = op[p]
    BY <1>3, <1>7, OthersFacts DEF Others
  <2>. QED  BY <1>1, <1>5, <1>8, <2>1, SameRows, HomeIds DEF Core, Kept, InHome
<1>. QED  BY <1>4, <1>9, <1>10, <1>11, <1>12, <1>13, <1>14 DEF Core

(* An operator that holds nothing starts a move, or gives it up.              *)
LEMMA OnlyStanding ==
    ASSUME Base, Core, NEW o \in Operators, Others(o), ~Away(o), ~Away(o)', op'[o].kind # "claim",
           op'[o].fd = None,
           Moving(o)' => op'[o].step = "guard",
           \A p \in Operators : p # o /\ op[p].kind = "claim" => op[p].id # op'[o].id,
           UNCHANGED <<device, pending, owning, dirs, aside, tenants, torn>>
    PROVE  Core'
<1>1. Holds'
  BY OthersFacts DEF Core, Holds, Others, After
<1>2. Apart'
  BY DEF Core, Apart, Others
<1>3. Layout' /\ Homes' /\ OneTenant'
  BY SameRows DEF Core, Layout, Homes, OneTenant, Existing, InPlace
<1>4. Claims'
  BY SameRows, Standing DEF Core, Claims, Others
<1>5. \A p \in Operators : (Away(p)' <=> Away(p)) /\ (Away(p) => op'[p] = op[p])
  BY OthersFacts DEF Others
<1>6. Moves'
  <2>1. \A p \in Operators : Away(p) => op[p].frame \in Frames /\ op[p].id \in Ids
    BY Standing DEF Away
  <2>. QED  BY <1>5, <2>1, SameRows DEF Core, Moves, Does
<1>7. Discards'
  BY OthersFacts DEF Core, Discards, Others
<1>8. Kept'
  BY <1>5, SameRows DEF Core, Kept, InHome, Existing, InPlace
<1>. QED  BY <1>1, <1>2, <1>3, <1>4, <1>6, <1>7, <1>8 DEF Core

LEMMA StartMoveKeepsCore ==
    ASSUME Base, Core, Console = Operators, NEW o \in Operators, NEW kind \in {"reassign", "reactivate"},
           NEW f \in Frames, NEW id \in Ids, StartMove(o, kind, f, id)
    PROVE  Core'
<1>1. /\ op[o] = Idle /\ StillThere(kind, f, id)
      /\ UNCHANGED <<device, pending, owning, dirs, aside, tenants, torn>>
  BY DEF StartMove, rows, files
<1>2. /\ Others(o) /\ op'[o].kind = kind /\ op'[o].step = "guard" /\ op'[o].fd = None
      /\ op'[o].id = id
  BY Started DEF Base, Others
<1>3. ~Away(o) /\ ~Away(o)'
  BY <1>1, <1>2 DEF Away, Moving, Idle, After
<1>4. Home(f) = id
  BY <1>1, Rows, FrameAssumption DEF StillThere, Home
<1>5. \A p \in Operators : p # o /\ op[p].kind = "claim" => op[p].id # op'[o].id
  BY <1>2, <1>4 DEF Core, Claims
<1>. QED  BY <1>1, <1>2, <1>3, <1>5, OnlyStanding

LEMMA EndingKeepsCore ==
    ASSUME Base, Core, NEW o \in Operators, ~Away(o), Done(o),
           UNCHANGED <<device, pending, owning, dirs, aside, tenants, torn>>
    PROVE  Core'
<1>1. Others(o) /\ op'[o].kind = "none" /\ op'[o].id = None /\ op'[o].fd = None
  BY Ended DEF Base, Others, Done
<1>2. ~Away(o)' /\ ~Moving(o)'
  BY <1>1 DEF Away, Moving
<1>3. \A p \in Operators : op[p].kind = "claim" => op[p].id # None
  BY Standing, FrameAssumption
<1>. QED  BY <1>1, <1>2, <1>3, OnlyStanding

LEMMA GuardKeepsCore ==
    ASSUME Base, Core, NEW o \in Operators, Guard(o)
    PROVE  Core'
<1> DEFINE id == op[o].id
<1>1. /\ Moving(o) /\ op[o].step = "guard" /\ UNCHANGED <<device, pending, owning, aside, tenants, torn>>
      /\ \A p \in Operators \ {o} : ~(op[p].id = id /\ op[p].fd # None)
  BY DEF Guard, rows
<1>2. PICK i \in Inodes : /\ Made(id, i) /\ ~Locked(i) /\ dirs' = [dirs EXCEPT ![id] = i]
                          /\ op' = [op EXCEPT ![o] = [@ EXCEPT !.step = "move", !.fd = i]]
  BY DEF Guard
<1>3. id \in Ids /\ op[o].frame \in Frames
  BY <1>1, Standing
<1>4. Makes(id, i)
  BY <1>2, <1>3, MadeMakes
<1>5. /\ Others(o) /\ op'[o].kind = op[o].kind /\ op'[o].step = "move" /\ op'[o].frame = op[o].frame
      /\ op'[o].id = id /\ op'[o].fd = i
  BY <1>2, Opened DEF Base, Others
<1>6. Layout' /\ Homes' /\ OneTenant'
  BY <1>1, <1>3, <1>4, MakesKeeps
<1>7. /\ \A a \in Ids : dirs[a] # None \/ a # id => dirs'[a] = dirs[a]
      /\ dirs'[id] = i /\ Existing \subseteq Existing'
  BY <1>1, <1>3, <1>4, MakesFacts
<1>8. \A p \in Operators : p # o /\ Moving(p) /\ op[p].step # "guard" => op[p].id # id /\ op[p].id \in Ids
  BY <1>1, Standing
<1>9. \A p \in Operators : p # o /\ op[p].kind = "claim" => op[p].id # id /\ op[p].id \in Ids
  BY <1>1, Alone, Standing
<1>10. \A p \in Operators : (Away(p)' <=> Away(p)) /\ (Away(p) => p # o /\ op'[p] = op[p])
  BY <1>1, <1>5, OthersFacts DEF Others, Away, Moving, After
<1>11. Holds'
  <2>1. ASSUME NEW p \in Operators, p # o, Moving(p)'
        PROVE  /\ op'[p].step # "guard" => op'[p].fd \in Inodes
               /\ op'[p].step = "move" => dirs'[op'[p].id] = op'[p].fd
               /\ op'[p].step \in After => op'[p].moved = op'[p].fd /\ op'[p].moved \in aside'
    BY <1>1, <1>5, <1>7, <1>8, <2>1, Standing, OthersFacts DEF Others
  <2>. QED  BY <1>5, <1>7, <2>1 DEF Holds, After
<1>12. Apart'
  <2>1. \A p \in Operators : p # o => op[p].fd # i
    BY <1>2 DEF Locked
  <2>. QED  BY <1>1, <1>5, <1>9, <2>1 DEF Core, Apart, Others, Moving
<1>13. Claims'
  <2>1. \A p \in Operators : op'[p].kind = "claim" => p # o /\ op'[p] = op[p]
    BY <1>1, <1>5 DEF Others, Moving
  <2>. QED  BY <1>1, <1>7, <1>9, <2>1, SameRows, Standing DEF Core, Claims
<1>14. Moves'
  <2>1. \A p \in Operators : Away(p) => op[p].frame \in Frames /\ op[p].id # id /\ op[p].id \in Ids
    BY <1>8, <1>10, Standing DEF Away, After
  <2>. QED  BY <1>1, <1>7, <1>10, <2>1, SameRows DEF Core, Moves, Does
<1>15. Discards'
  BY <1>1, <1>5, OthersFacts DEF Core, Discards, Others
<1>16. Kept'
  BY <1>1, <1>7, <1>10, SameRows, HomeIds DEF Core, Kept, InHome
<1>. QED  BY <1>6, <1>11, <1>12, <1>13, <1>14, <1>15, <1>16 DEF Core

LEMMA ResetDirectoryKeepsCore ==
    ASSUME Base, Core, NEW o \in Operators, ResetDirectory(o)
    PROVE  Core'
<1> DEFINE id == op[o].id
<1>1. /\ op[o].kind = "reassign" /\ op[o].step = "provision"
      /\ UNCHANGED <<device, pending, owning, aside, tenants, torn>> /\ Moving(o)
  BY DEF ResetDirectory, rows, Does, Moving
<1>2. id \in Ids /\ op[o].frame \in Frames
  BY <1>1, Standing
<1>3. PICK i \in Inodes : Makes(id, i)
  BY <1>2, MadeMakes DEF ResetDirectory, Provision
<1>4. /\ Others(o) /\ op'[o].kind = op[o].kind /\ op'[o].step = "commit" /\ op'[o].frame = op[o].frame
      /\ op'[o].id = id /\ op'[o].fd = op[o].fd /\ op'[o].moved = op[o].moved
  BY Stepped DEF ResetDirectory, Go, Base, Others
<1>5. Layout' /\ Homes' /\ OneTenant'
  BY <1>1, <1>2, <1>3, MakesKeeps
<1>6. /\ \A a \in Ids : dirs[a] # None \/ a # id => dirs'[a] = dirs[a]
      /\ dirs'[id] # None /\ (dirs[id] = None => tenants[dirs'[id]] = {}) /\ Existing \subseteq Existing'
  BY <1>1, <1>2, <1>3, MakesFacts DEF Makes
<1>7. Away(o) /\ Away(o)'
  BY <1>1, <1>4 DEF Away, Moving, After
<1>8. \A p \in Operators : p # o /\ Moving(p) /\ op[p].step # "guard" => op[p].id # id /\ op[p].id \in Ids
  BY <1>1, Alone, Standing
<1>9. \A p \in Operators : op[p].kind = "claim" => op[p].id # id /\ op[p].id \in Ids
  BY <1>1, Alone, Standing
<1>10. \A p \in Operators : p # o => op'[p] = op[p] /\ (Away(p)' <=> Away(p)) /\ (Moving(p)' <=> Moving(p))
  BY <1>4, OthersFacts DEF Others
<1>11. Holds'
  <2>1. ASSUME NEW p \in Operators, p # o, Moving(p)'
        PROVE  /\ op'[p].step # "guard" => op'[p].fd \in Inodes
               /\ op'[p].step = "move" => dirs'[op'[p].id] = op'[p].fd
               /\ op'[p].step \in After => op'[p].moved = op'[p].fd /\ op'[p].moved \in aside'
    BY <1>1, <1>6, <1>8, <1>10, <2>1, Standing
  <2>2. op[o].fd \in Inodes /\ op[o].moved = op[o].fd /\ op[o].moved \in aside
    BY <1>1, Standing DEF After
  <2>. QED  BY <1>1, <1>4, <2>1, <2>2 DEF Holds
<1>12. Apart'
  BY <1>1, <1>4, <1>10 DEF Core, Apart
<1>13. Claims'
  <2>1. \A p \in Operators : op'[p].kind = "claim" => p # o /\ op'[p] = op[p]
    BY <1>1, <1>4, <1>10
  <2>. QED  BY <1>1, <1>6, <1>9, <2>1, SameRows, Standing DEF Core, Claims
<1>14. Moves'
  <2>1. \A p \in Operators : Away(p) => op[p].frame \in Frames /\ op[p].id \in Ids
    BY Standing DEF Away
  <2>2. ASSUME NEW p \in Operators, Away(p)'
        PROVE  /\ Home(op[p].frame) = op[p].id
               /\ dirs'[op[p].id] # None => tenants[dirs'[op[p].id]] = {}
               /\ tenants[op[p].moved] \subseteq {<<op[p].frame, owning[op[p].frame]>>}
               /\ op[p].step \in {"provision", "commit"} => StillThere(op[p].kind, op[p].frame, op[p].id)
               /\ Does(p, "reassign", "commit") /\ p # o => dirs'[op[p].id] # None
    <3>1. Away(p)
      BY <1>7, <1>10, <2>2
    <3>2. p # o => op[p].id # id
      BY <1>8, <3>1 DEF Away, After
    <3>. QED  BY <1>6, <2>1, <3>1, <3>2 DEF Core, Moves
  <2>3. ASSUME NEW p \in Operators, Away(p)' PROVE Away(p)
    BY <1>7, <1>10, <2>3
  <2>. QED  BY <1>1, <1>4, <1>6, <1>10, <2>1, <2>2, <2>3, SameRows DEF Moves, Does
<1>15. Discards'
  BY <1>1, <1>4, <1>10 DEF Core, Discards
<1>16. Kept'
  <2>1. \A p \in Operators : Away(p) => Away(p)' /\ op'[p].frame = op[p].frame /\ op'[p].moved = op[p].moved
    BY <1>4, <1>7, <1>10
  <2>. QED  BY <1>1, <1>6, <2>1, SameRows, HomeIds DEF Core, Kept, InHome
<1>. QED  BY <1>5, <1>11, <1>12, <1>13, <1>14, <1>15, <1>16 DEF Core

-----------------------------------------------------------------------------
(* A directory that nobody was served from is deleted.                        *)

Removes(d) ==
    /\ d \in Ids /\ dirs' = [dirs EXCEPT ![d] = None]
    /\ dirs[d] # None => tenants[dirs[d]] = {}
    /\ tenants' = tenants

LEMMA RemovesFacts ==
    ASSUME Base, Core, NEW d \in Ids, Removes(d), UNCHANGED <<device, pending, owning, aside>>
    PROVE  /\ \A a \in Ids : a # d => dirs'[a] = dirs[a]
           /\ dirs'[d] = None
           /\ \A j \in Existing : tenants[j] # {} => j \in Existing'
           /\ Layout' /\ Homes' /\ OneTenant'
<1>1. dirs \in [Ids -> Inodes \cup {None}] /\ dirs' \in [Ids -> Inodes \cup {None}]
  BY DEF Base, TypeOK, Removes
<1>2. Members(dirs, aside) /\ Members(dirs, aside)'
  BY <1>1, ExistingDirs
<1>3. (\A a \in Ids : a # d => dirs'[a] = dirs[a]) /\ dirs'[d] = None
  BY <1>1 DEF Removes
<1>4. \A j \in Existing : tenants[j] # {} => j \in Existing'
  BY <1>2, <1>3 DEF Members, Removes
<1>5. Layout'
  <2>1. \A a, b \in Ids : dirs'[a] # None /\ dirs'[a] = dirs'[b] => a = b
    BY <1>3 DEF Core, Layout
  <2>2. \A a \in Ids : dirs'[a] \notin aside
    BY <1>1, <1>3, FrameAssumption DEF Core, Layout, Base, TypeOK
  <2>3. \A j \in Inodes : j \notin Existing' => tenants[j] = {}
    BY <1>4 DEF Core, Layout
  <2>. QED  BY <2>1, <2>2, <2>3 DEF Layout, Removes
<1>6. Homes'
  BY SameRows DEF Core, Homes
<1>7. OneTenant'
  BY <1>3, SameRows DEF Core, OneTenant, Removes
<1>. QED  BY <1>3, <1>4, <1>5, <1>6, <1>7

LEMMA ClaimFailsKeepsCore ==
    ASSUME Base, Core, NEW o \in Operators, ClaimFails(o)
    PROVE  Core'
<1> DEFINE id == op[o].id
<1>1. /\ op[o].kind = "claim" /\ UNCHANGED <<device, pending, owning, aside, torn>> /\ Done(o)
      /\ dirs' = [dirs EXCEPT ![id] = None] /\ tenants' = Deleted(dirs[id])
  BY DEF ClaimFails, Does, rows
<1>2. /\ id \in Ids /\ dirs[id] # None /\ tenants[dirs[id]] = {} /\ (\A f \in Frames : Home(f) # id)
      /\ ~Moving(o) /\ writer = o
  BY <1>1, Standing, Rows DEF Core, Claims, Moving
<1>3. Removes(id)
  <2>1. tenants \in [Inodes -> SUBSET Ownerships] /\ dirs[id] \in Inodes
    BY <1>2 DEF Base, TypeOK
  <2>. QED  BY <1>1, <1>2, <2>1 DEF Removes, Deleted
<1>4. /\ \A a \in Ids : a # id => dirs'[a] = dirs[a]
      /\ \A j \in Existing : tenants[j] # {} => j \in Existing'
      /\ Layout' /\ Homes' /\ OneTenant' /\ UNCHANGED tenants
  BY <1>1, <1>2, <1>3, RemovesFacts DEF Removes
<1>5. Others(o) /\ op'[o].kind = "none" /\ op'[o].id = None /\ op'[o].fd = None
  BY <1>1, Ended DEF Base, Others, Done
<1>6. ~Away(o) /\ ~Away(o)' /\ ~Moving(o)'
  BY <1>2, <1>5 DEF Away, Moving
<1>7. \A p \in Operators : p # o => op[p].id # id /\ op'[p] = op[p] /\ (Away(p)' <=> Away(p)) /\ (Moving(p)' <=> Moving(p))
  BY <1>1, <1>5, Alone, OthersFacts DEF Others
<1>8. \A p \in Operators : p # o => op[p].kind # "claim"
  BY <1>2, Rows
<1>9. Holds'
  BY <1>1, <1>4, <1>6, <1>7, Standing DEF Core, Holds
<1>10. Apart'
  BY <1>5, <1>7, <1>8 DEF Core, Apart
<1>11. Claims'
  BY <1>5, <1>7, <1>8 DEF Claims
<1>12. Moves'
  <2>1. \A p \in Operators : Away(p) => op[p].frame \in Frames /\ op[p].id \in Ids
    BY Standing DEF Away
  <2>. QED  BY <1>1, <1>4, <1>6, <1>7, <2>1, SameRows DEF Core, Moves, Does
<1>13. Discards'
  BY <1>1, <1>4, <1>6, <1>7 DEF Core, Discards
<1>14. Kept'
  <2>1. \A f \in Frames : Home(f) # None => \E i \in Existing' : <<f, owning[f]>> \in tenants[i]
    BY <1>4 DEF Core, Kept
  <2>2. \A p \in Operators : Away(p) => Away(p)' /\ op'[p] = op[p]
    BY <1>6, <1>7
  <2>. QED  BY <1>1, <1>2, <1>4, <2>1, <2>2, SameRows, HomeIds DEF Core, Kept, InHome
<1>. QED  BY <1>4, <1>9, <1>10, <1>11, <1>12, <1>13, <1>14 DEF Core

LEMMA ClearFreshKeepsCore ==
    ASSUME Base, Core, NEW o \in Operators, ClearFresh(o)
    PROVE  Core'
<1> DEFINE id == op[o].id
<1>1. /\ Moving(o) /\ op[o].step = "clear" /\ UNCHANGED <<device, pending, owning, aside, torn>>
      /\ dirs' = [dirs EXCEPT ![id] = None]
      /\ tenants' = IF dirs[id] = None THEN tenants ELSE Deleted(dirs[id])
  BY DEF ClearFresh, rows
<1>2. Away(o) /\ id \in Ids /\ op[o].frame \in Frames /\ Home(op[o].frame) = id
  BY <1>1, Standing DEF Away, After, Core, Moves
<1>3. Removes(id)
  <2>1. tenants \in [Inodes -> SUBSET Ownerships] /\ (dirs[id] # None => tenants[dirs[id]] = {})
    BY <1>2 DEF Base, TypeOK, Core, Moves
  <2>. QED  BY <1>1, <1>2, <2>1 DEF Removes, Deleted
<1>4. /\ \A a \in Ids : a # id => dirs'[a] = dirs[a]
      /\ dirs'[id] = None
      /\ \A j \in Existing : tenants[j] # {} => j \in Existing'
      /\ Layout' /\ Homes' /\ OneTenant' /\ UNCHANGED tenants
  BY <1>1, <1>2, <1>3, RemovesFacts DEF Removes
<1>5. /\ Others(o) /\ op'[o].kind = op[o].kind /\ op'[o].step = "restore" /\ op'[o].frame = op[o].frame
      /\ op'[o].id = id /\ op'[o].fd = op[o].fd /\ op'[o].moved = op[o].moved
  BY Stepped DEF ClearFresh, Go, Base, Others
<1>6. Away(o)'
  BY <1>1, <1>5 DEF Away, Moving, After
<1>7. \A p \in Operators : p # o => op'[p] = op[p] /\ (Away(p)' <=> Away(p)) /\ (Moving(p)' <=> Moving(p))
  BY <1>5, OthersFacts DEF Others
<1>8. \A p \in Operators : p # o /\ Moving(p) /\ op[p].step # "guard" => op[p].id # id /\ op[p].id \in Ids
  BY <1>1, Alone, Standing
<1>9. \A p \in Operators : op[p].kind = "claim" => op[p].id # id /\ op[p].id \in Ids
  BY <1>1, Alone, Standing DEF Moving
<1>10. Holds'
  <2>1. ASSUME NEW p \in Operators, p # o, Moving(p)'
        PROVE  /\ op'[p].step # "guard" => op'[p].fd \in Inodes
               /\ op'[p].step = "move" => dirs'[op'[p].id] = op'[p].fd
               /\ op'[p].step \in After => op'[p].moved = op'[p].fd /\ op'[p].moved \in aside'
    BY <1>1, <1>4, <1>7, <1>8, <2>1, Standing
  <2>2. op[o].fd \in Inodes /\ op[o].moved = op[o].fd /\ op[o].moved \in aside
    BY <1>1, Standing DEF After
  <2>. QED  BY <1>1, <1>5, <2>1, <2>2 DEF Holds
<1>11. Apart'
  BY <1>1, <1>5, <1>7 DEF Core, Apart, Moving
<1>12. Claims'
  <2>1. \A p \in Operators : op'[p].kind = "claim" => p # o /\ op'[p] = op[p]
    BY <1>1, <1>5, <1>7 DEF Moving
  <2>. QED  BY <1>1, <1>4, <1>9, <2>1, SameRows, Standing DEF Core, Claims
<1>13. Moves'
  <2>1. \A p \in Operators : Away(p) => op[p].frame \in Frames /\ op[p].id \in Ids
    BY Standing DEF Away
  <2>2. \A p \in Operators : p # o /\ Away(p) => dirs'[op[p].id] = dirs[op[p].id]
    BY <1>4, <1>8 DEF Away, After
  <2>3. ASSUME NEW p \in Operators, p # o, Away(p)
        PROVE  /\ Home(op[p].frame) = op[p].id
               /\ dirs'[op[p].id] # None => tenants[dirs'[op[p].id]] = {}
               /\ tenants[op[p].moved] \subseteq {<<op[p].frame, owning[op[p].frame]>>}
               /\ op[p].step \in {"provision", "commit"} => StillThere(op[p].kind, op[p].frame, op[p].id)
               /\ Does(p, "reassign", "commit") => dirs'[op[p].id] # None
    BY <2>2, <2>3 DEF Core, Moves
  <2>4. /\ Home(op[o].frame) = op[o].id
        /\ tenants[op[o].moved] \subseteq {<<op[o].frame, owning[op[o].frame]>>}
    BY <1>2 DEF Core, Moves
  <2>. QED  BY <1>1, <1>2, <1>4, <1>5, <1>7, <2>1, <2>3, <2>4, SameRows DEF Moves, Does
<1>14. Discards'
  BY <1>1, <1>4, <1>5, <1>7 DEF Core, Discards
<1>15. Kept'
  <2>1. \A f \in Frames : Home(f) # None => \E i \in Existing' : <<f, owning[f]>> \in tenants[i]
    BY <1>4 DEF Core, Kept
  <2>2. \A p \in Operators : Away(p) => Away(p)' /\ op'[p].frame = op[p].frame /\ op'[p].moved = op[p].moved
    BY <1>5, <1>6, <1>7
  <2>3. \A f \in Frames : Home(f) # None /\ InHome(f) => Home(f) # id
    BY <1>2 DEF InHome, Core, Moves
  <2>. QED  BY <1>1, <1>4, <2>1, <2>2, <2>3, SameRows, HomeIds DEF Core, Kept, InHome
<1>. QED  BY <1>4, <1>10, <1>11, <1>12, <1>13, <1>14, <1>15 DEF Core

-----------------------------------------------------------------------------
(* A directory is moved aside, moved back, or given up.                       *)

LEMMA MoveFailsKeepsCore ==
    ASSUME Base, Core, NEW o \in Operators, MoveFails(o)
    PROVE  Core'
<1>1. /\ Moving(o) /\ op[o].step \in {"provision", "commit"}
      /\ UNCHANGED <<device, pending, owning, dirs, aside, tenants, torn>>
  BY DEF MoveFails, rows, files
<1>2. op[o].moved # None /\ Away(o)
  BY <1>1, Standing DEF After, Away
<1>3. op' = [op EXCEPT ![o].step = "clear"]
  BY <1>2 DEF MoveFails
<1>4. /\ Others(o) /\ op'[o].kind = op[o].kind /\ op'[o].step = "clear" /\ op'[o].frame = op[o].frame
      /\ op'[o].id = op[o].id /\ op'[o].fd = op[o].fd /\ op'[o].moved = op[o].moved
  BY <1>3, Stepped DEF Base, Others
<1>5. Moving(o)' /\ Away(o)'
  BY <1>1, <1>4 DEF Away, Moving, After
<1>6. \A p \in Operators : p # o => op'[p] = op[p] /\ (Away(p)' <=> Away(p)) /\ (Moving(p)' <=> Moving(p))
  BY <1>4, OthersFacts DEF Others
<1>7. Holds'
  BY <1>1, <1>4, <1>5, <1>6 DEF Core, Holds, After
<1>8. Apart'
  BY <1>1, <1>4, <1>6 DEF Core, Apart, Moving
<1>9. Layout' /\ Homes' /\ OneTenant'
  BY <1>1, SameRows DEF Core, Layout, Homes, OneTenant, Existing, InPlace
<1>10. Claims'
  BY <1>1, <1>4, <1>6, SameRows, Standing DEF Core, Claims, Moving
<1>11. Moves'
  <2>1. \A p \in Operators : Away(p) => op[p].frame \in Frames /\ op[p].id \in Ids
    BY Standing DEF Away
  <2>. QED  BY <1>1, <1>2, <1>4, <1>5, <1>6, <2>1, SameRows DEF Core, Moves, Does
<1>12. Discards'
  BY <1>1, <1>4, <1>6 DEF Core, Discards
<1>13. Kept'
  <2>1. \A p \in Operators : Away(p) => Away(p)' /\ op'[p].frame = op[p].frame /\ op'[p].moved = op[p].moved
    BY <1>4, <1>5, <1>6
  <2>. QED  BY <1>1, <2>1, SameRows DEF Core, Kept, InHome, Existing, InPlace
<1>. QED  BY <1>7, <1>8, <1>9, <1>10, <1>11, <1>12, <1>13 DEF Core

LEMMA MoveAsideKeepsCore ==
    ASSUME Base, Core, NEW o \in Operators, MoveAside(o)
    PROVE  Core'
<1> DEFINE id == op[o].id
           f == op[o].frame
<1>1. /\ Moving(o) /\ op[o].step = "move" /\ UNCHANGED <<device, pending, owning, tenants, torn>>
      /\ writer = None /\ StillThere(op[o].kind, f, id)
      /\ dirs' = [dirs EXCEPT ![id] = None] /\ aside' = aside \cup ({dirs[id]} \ {None})
  BY DEF MoveAside, rows
<1>2. id \in Ids /\ f \in Frames /\ dirs[id] = op[o].fd /\ dirs[id] # None
  BY <1>1, Standing
<1>3. Home(f) = id
  BY <1>1, <1>2, Rows, FrameAssumption DEF StillThere, Home
<1>4. dirs \in [Ids -> Inodes \cup {None}] /\ dirs' \in [Ids -> Inodes \cup {None}]
  BY <1>1 DEF Base, TypeOK
<1>5. (\A a \in Ids : a # id => dirs'[a] = dirs[a]) /\ dirs'[id] = None /\ aside' = aside \cup {dirs[id]}
  BY <1>1, <1>2, <1>4
<1>6. \A j : j \in Existing' <=> j \in Existing
  BY <1>2, <1>4, <1>5, ExistingDirs DEF Members
<1>7. /\ Others(o) /\ op'[o].kind = op[o].kind /\ op'[o].frame = f
      /\ op'[o].id = id /\ op'[o].fd = op[o].fd /\ op'[o].moved = dirs[id]
      /\ op'[o].step = IF op[o].kind = "reassign" THEN "provision" ELSE "commit"
  BY PutAside DEF Base, Others
<1>8. Moving(o)' /\ Away(o)' /\ ~Away(o)
  BY <1>1, <1>7 DEF Away, Moving, After
<1>9. \A p \in Operators : p # o => op'[p] = op[p] /\ (Away(p)' <=> Away(p)) /\ (Moving(p)' <=> Moving(p))
  BY <1>7, OthersFacts DEF Others
<1>10. \A p \in Operators : p # o /\ Moving(p) /\ op[p].step # "guard" => op[p].id # id /\ op[p].id \in Ids
  BY <1>1, Alone, Standing
<1>11. \A p \in Operators : op[p].kind = "claim" => op[p].id # id /\ op[p].id \in Ids
  BY <1>1, Alone, Standing DEF Moving
<1>12. Holds'
  <2>1. ASSUME NEW p \in Operators, p # o, Moving(p)'
        PROVE  /\ op'[p].step # "guard" => op'[p].fd \in Inodes
               /\ op'[p].step = "move" => dirs'[op'[p].id] = op'[p].fd
               /\ op'[p].step \in After => op'[p].moved = op'[p].fd /\ op'[p].moved \in aside'
    BY <1>5, <1>9, <1>10, <2>1, Standing
  <2>2. op[o].fd \in Inodes /\ op'[o].moved = op[o].fd /\ op'[o].moved \in aside'
    BY <1>1, <1>2, <1>5, <1>7, Standing
  <2>. QED  BY <1>7, <2>1, <2>2 DEF Holds
<1>13. Apart'
  BY <1>1, <1>7, <1>9 DEF Core, Apart, Moving
<1>14. Layout'
  <2>1. \A a, b \in Ids : dirs'[a] # None /\ dirs'[a] = dirs'[b] => a = b
    BY <1>5 DEF Core, Layout
  <2>2. \A a \in Ids : dirs'[a] \notin aside'
    <3>1. \A a \in Ids : a # id => dirs[a] \notin aside /\ dirs[a] # dirs[id]
      BY <1>2 DEF Core, Layout
    <3>2. None \notin aside /\ None # dirs[id]
      BY <1>2, FrameAssumption DEF Base, TypeOK
    <3>. QED  BY <1>5, <3>1, <3>2
  <2>3. \A j \in Inodes : j \notin Existing' => tenants[j] = {}
    BY <1>6 DEF Core, Layout
  <2>. QED  BY <1>1, <2>1, <2>2, <2>3 DEF Layout
<1>15. Homes'
  BY <1>1, SameRows DEF Core, Homes
<1>16. Claims'
  <2>1. \A p \in Operators : op'[p].kind = "claim" => p # o /\ op'[p] = op[p]
    BY <1>1, <1>7, <1>9 DEF Moving
  <2>. QED  BY <1>1, <1>5, <1>11, <2>1, SameRows, Standing DEF Core, Claims
<1>17. Moves'
  <2>1. \A p \in Operators : Away(p) => op[p].frame \in Frames /\ op[p].id \in Ids /\ op[p].id # id
    BY <1>8, <1>10, Standing DEF Away, After
  <2>2. tenants[dirs[id]] \subseteq {<<f, owning[f]>>}
    <3>1. id # None
      BY <1>2, FrameAssumption
    <3>2. \A g \in Frames : Home(g) = id => g = f
      BY <1>2, <1>3, <3>1 DEF Core, Homes
    <3>. QED  BY <1>2, <3>2 DEF Core, OneTenant
  <2>3. StillThere(op[o].kind, f, id)' /\ Home(f)' = Home(f)
    BY <1>1, <1>2, <1>7 DEF StillThere, Home
  <2>4. ASSUME NEW p \in Operators, p # o, Away(p)
        PROVE  /\ Home(op[p].frame) = op[p].id
               /\ dirs'[op[p].id] # None => tenants[dirs'[op[p].id]] = {}
               /\ tenants[op[p].moved] \subseteq {<<op[p].frame, owning[op[p].frame]>>}
               /\ op[p].step \in {"provision", "commit"} => StillThere(op[p].kind, op[p].frame, op[p].id)
               /\ Does(p, "reassign", "commit") => dirs'[op[p].id] # None
    BY <1>5, <2>1, <2>4 DEF Core, Moves
  <2>. QED  BY <1>1, <1>3, <1>5, <1>7, <1>9, <2>1, <2>2, <2>3, <2>4, SameRows DEF Moves, Does
<1>18. Discards'
  BY <1>1, <1>7, <1>9 DEF Core, Discards
<1>19. OneTenant'
  BY <1>1, <1>5, SameRows DEF Core, OneTenant
<1>20. Kept'
  <2>1. \A g \in Frames : Home(g) # None => \E i \in Existing' : <<g, owning[g]>> \in tenants[i]
    BY <1>6 DEF Core, Kept
  <2>2. \A p \in Operators : Away(p) => Away(p)' /\ op'[p] = op[p]
    BY <1>8, <1>9
  <2>3. \A g \in Frames : Home(g) = id => g = f
    BY <1>2, <1>3, FrameAssumption DEF Core, Homes
  <2>4. InHome(f) => Away(o)' /\ op'[o].frame = f /\ <<f, owning[f]>> \in tenants[op'[o].moved]
    BY <1>3, <1>7, <1>8 DEF InHome
  <2>. QED  BY <1>1, <1>5, <2>1, <2>2, <2>3, <2>4, SameRows, HomeIds DEF Core, Kept, InHome
<1>. QED  BY <1>12, <1>13, <1>14, <1>15, <1>16, <1>17, <1>18, <1>19, <1>20 DEF Core

LEMMA DiesKeepsCore ==
    ASSUME Base, Core, NEW o \in Operators, Dies(o)
    PROVE  Core'
<1>1. /\ UNCHANGED <<device, pending, owning, dirs, aside, tenants>> /\ Done(o)
      /\ torn \subseteq torn' /\ (Away(o) => op[o].frame \in torn')
  <2>1. Away(o) => op[o].moved # None /\ op[o].step # "discard"
    BY Standing DEF Away, After
  <2>. QED  BY <2>1 DEF Dies, rows, files
<1>2. Others(o) /\ op'[o].kind = "none" /\ op'[o].id = None /\ op'[o].fd = None
  BY <1>1, Ended DEF Base, Others, Done
<1>3. ~Away(o)' /\ ~Moving(o)'
  BY <1>2 DEF Away, Moving
<1>4. \A p \in Operators : p # o => op'[p] = op[p] /\ (Away(p)' <=> Away(p)) /\ (Moving(p)' <=> Moving(p))
  BY <1>2, OthersFacts DEF Others
<1>5. \A p \in Operators : op[p].kind = "claim" => op[p].id # None
  BY Standing, FrameAssumption
<1>6. Holds'
  BY <1>1, <1>3, <1>4 DEF Core, Holds
<1>7. Apart'
  BY <1>2, <1>4, <1>5 DEF Core, Apart
<1>8. Layout' /\ Homes' /\ OneTenant'
  BY <1>1, SameRows DEF Core, Layout, Homes, OneTenant, Existing, InPlace
<1>9. Claims'
  BY <1>1, <1>2, <1>4, SameRows, Standing DEF Core, Claims
<1>10. Moves'
  <2>1. \A p \in Operators : Away(p) => op[p].frame \in Frames /\ op[p].id \in Ids
    BY Standing DEF Away
  <2>. QED  BY <1>1, <1>3, <1>4, <2>1, SameRows DEF Core, Moves, Does
<1>11. Discards'
  BY <1>1, <1>3, <1>4 DEF Core, Discards
<1>12. Kept'
  BY <1>1, <1>4, SameRows DEF Core, Kept, InHome, Existing, InPlace
<1>. QED  BY <1>6, <1>7, <1>8, <1>9, <1>10, <1>11, <1>12 DEF Core

LEMMA DiscardKeepsCore ==
    ASSUME Base, Core, NEW o \in Operators, Discard(o)
    PROVE  Core'
<1> DEFINE m == op[o].moved
<1>1. /\ UNCHANGED <<device, pending, owning, dirs, torn>> /\ Done(o)
      /\ Moving(o) /\ op[o].step = "discard"
      /\ \/ aside' = aside \ {m} /\ tenants' = IF m = None THEN tenants ELSE Deleted(m)
         \/ UNCHANGED <<aside, tenants>>
  BY DEF Discard, rows
<1>2. m \in aside /\ m # None /\ m = op[o].fd /\ ~Away(o)
  BY <1>1, Standing DEF After, Away
<1>3. CASE UNCHANGED <<aside, tenants>>
  BY <1>1, <1>2, <1>3, EndingKeepsCore
<1>4. CASE aside' = aside \ {m} /\ tenants' = Deleted(m)
  <2>1. /\ \A j : j # m => tenants'[j] = tenants[j]
        /\ m \in Inodes /\ tenants'[m] = {}
        /\ \A a \in Ids : dirs[a] # m
    <3>1. tenants \in [Inodes -> SUBSET Ownerships] /\ m \in Inodes
      BY <1>2 DEF Base, TypeOK
    <3>. QED  BY <1>2, <1>4, <3>1 DEF Deleted, Core, Layout
  <2>2. Others(o) /\ op'[o].kind = "none" /\ op'[o].id = None /\ op'[o].fd = None
    BY <1>1, Ended DEF Base, Others, Done
  <2>3. ~Away(o)' /\ ~Moving(o)'
    BY <2>2 DEF Away, Moving
  <2>4. \A p \in Operators : p # o => op'[p] = op[p] /\ (Away(p)' <=> Away(p)) /\ (Moving(p)' <=> Moving(p))
    BY <2>2, OthersFacts DEF Others
  <2>5. \A p \in Operators : p # o /\ Moving(p) /\ op[p].step \in After => op[p].moved # m
    BY <1>1, <1>2, Alone, Standing DEF After
  <2>6. \A p \in Operators : op[p].kind = "claim" => op[p].id # None /\ op[p].id \in Ids
    BY Standing, FrameAssumption
  <2>7. Holds'
    BY <1>1, <1>4, <2>3, <2>4, <2>5 DEF Core, Holds
  <2>8. Apart'
    BY <2>2, <2>4, <2>6 DEF Core, Apart
  <2>9. Layout'
    <3>1. Members(dirs, aside) /\ Members(dirs, aside)'
      BY <1>1, ExistingDirs DEF Base, TypeOK
    <3>2. \A j \in Inodes : j \notin Existing' => tenants'[j] = {}
      BY <1>1, <1>4, <2>1, <3>1 DEF Members, Core, Layout
    <3>. QED  BY <1>1, <1>4, <3>2 DEF Core, Layout
  <2>10. Homes'
    BY <1>1, SameRows DEF Core, Homes
  <2>11. Claims'
    BY <1>1, <2>1, <2>2, <2>4, <2>6, SameRows, Standing DEF Core, Claims
  <2>12. Moves'
    <3>1. \A p \in Operators : Away(p) => op[p].frame \in Frames /\ op[p].id \in Ids /\ (p # o => op[p].moved # m)
      BY <2>5, Standing DEF Away
    <3>. QED  BY <1>1, <2>1, <2>3, <2>4, <3>1, SameRows DEF Core, Moves, Does
  <2>13. Discards'
    BY <1>1, <2>1, <2>3, <2>4, <2>5 DEF Core, Discards, After
  <2>14. OneTenant'
    BY <1>1, <2>1, SameRows DEF Core, OneTenant
  <2>15. Kept'
    <3>1. \A f \in Frames : owning[f] \in Nat
      BY FrameAssumption DEF Base, TypeOK
    <3>2. \A f \in Frames : <<f, owning[f]>> \notin tenants[m]
      BY <1>1, <3>1 DEF Core, Discards
    <3>3. \A f \in Frames : Home(f) # None => \E i \in Existing' : <<f, owning[f]>> \in tenants'[i]
      <4>1. Members(dirs, aside) /\ Members(dirs, aside)'
        BY <1>1, ExistingDirs DEF Base, TypeOK
      <4>2. \A j \in Existing : j # m => j \in Existing'
        BY <1>1, <1>4, <4>1 DEF Members
      <4>. QED  BY <2>1, <3>2, <4>2 DEF Core, Kept
    <3>4. \A p \in Operators : Away(p) => Away(p)' /\ op'[p] = op[p] /\ tenants'[op[p].moved] = tenants[op[p].moved]
      BY <1>2, <2>1, <2>4, <2>5 DEF Away
    <3>5. \A f \in Frames : Home(f) # None /\ InHome(f) => InHome(f)'
      BY <1>1, <2>1, SameRows, HomeIds DEF InHome
    <3>. QED  BY <1>1, <3>3, <3>4, <3>5, SameRows DEF Core, Kept
  <2>. QED  BY <2>7, <2>8, <2>9, <2>10, <2>11, <2>12, <2>13, <2>14, <2>15 DEF Core
<1>. QED  BY <1>1, <1>2, <1>3, <1>4

LEMMA RestoreKeepsCore ==
    ASSUME Base, Core, NEW o \in Operators, Restore(o)
    PROVE  Core'
<1> DEFINE id == op[o].id
           f == op[o].frame
           m == op[o].moved
<1>1. /\ Moving(o) /\ op[o].step = "restore" /\ Done(o) /\ UNCHANGED <<device, pending, owning, tenants>>
      /\ dirs[id] = None => /\ dirs' = [dirs EXCEPT ![id] = m]
                            /\ aside' = aside \ {m} /\ torn' = torn
      /\ dirs[id] # None => torn' = torn \cup {f} /\ UNCHANGED <<dirs, aside>>
  BY DEF Restore, rows
<1>2. /\ id \in Ids /\ f \in Frames /\ m \in aside /\ m # None /\ m \in Inodes /\ Away(o)
      /\ Home(f) = id /\ tenants[m] \subseteq {<<f, owning[f]>>}
  BY <1>1, Standing DEF Away, After, Core, Moves, Base, TypeOK
<1>3. Others(o) /\ op'[o].kind = "none" /\ op'[o].id = None /\ op'[o].fd = None
  BY <1>1, Ended DEF Base, Others, Done
<1>4. ~Away(o)' /\ ~Moving(o)'
  BY <1>3 DEF Away, Moving
<1>5. \A p \in Operators : p # o => op'[p] = op[p] /\ (Away(p)' <=> Away(p)) /\ (Moving(p)' <=> Moving(p))
  BY <1>3, OthersFacts DEF Others
<1>6. \A p \in Operators : p # o /\ Moving(p) /\ op[p].step # "guard" => op[p].id # id /\ op[p].id \in Ids /\ op[p].fd # m
  BY <1>1, Alone, Standing DEF After
<1>7. \A p \in Operators : op[p].kind = "claim" => op[p].id # id /\ op[p].id \in Ids /\ op[p].id # None
  BY <1>1, Alone, Standing, FrameAssumption DEF Moving
<1>8. \A a \in Ids : dirs[a] # m
  BY <1>2 DEF Core, Layout
<1>9. dirs \in [Ids -> Inodes \cup {None}] /\ dirs' \in [Ids -> Inodes \cup {None}]
  BY <1>1, <1>2 DEF Base, TypeOK
<1>10. /\ \A a \in Ids : a # id => dirs'[a] = dirs[a]
       /\ dirs[id] = None => dirs'[id] = m /\ aside' = aside \ {m}
       /\ dirs[id] # None => dirs'[id] = dirs[id] /\ aside' = aside
  BY <1>1, <1>2, <1>9
<1>11. \A j : j \in Existing' <=> j \in Existing
  <2>1. Members(dirs, aside) /\ Members(dirs, aside)'
    BY <1>9, ExistingDirs
  <2>2. CASE dirs[id] = None
    BY <1>2, <1>10, <2>1, <2>2 DEF Members
  <2>3. CASE dirs[id] # None
    BY <1>10, <2>1, <2>3 DEF Members
  <2>. QED  BY <2>2, <2>3
<1>12. Holds'
  <2>1. \A j \in aside : j # m => j \in aside'
    BY <1>10
  <2>2. ASSUME NEW p \in Operators, p # o, Moving(p)
        PROVE  /\ op[p].step # "guard" => op[p].fd \in Inodes
               /\ op[p].step = "move" => dirs'[op[p].id] = op[p].fd
               /\ op[p].step \in After => op[p].moved = op[p].fd /\ op[p].moved \in aside'
    BY <1>6, <1>10, <2>1, <2>2, Standing DEF After
  <2>. QED  BY <1>4, <1>5, <2>2 DEF Holds
<1>13. Apart'
  BY <1>3, <1>5, <1>7 DEF Core, Apart
<1>14. Layout'
  <2>1. \A a, b \in Ids : dirs'[a] # None /\ dirs'[a] = dirs'[b] => a = b
    BY <1>8, <1>10 DEF Core, Layout
  <2>2. \A a \in Ids : dirs'[a] \notin aside'
    BY <1>8, <1>10 DEF Core, Layout
  <2>3. \A j \in Inodes : j \notin Existing' => tenants[j] = {}
    BY <1>11 DEF Core, Layout
  <2>. QED  BY <1>1, <2>1, <2>2, <2>3 DEF Layout
<1>15. Homes'
  BY <1>1, SameRows DEF Core, Homes
<1>16. Claims'
  BY <1>1, <1>3, <1>5, <1>7, <1>10, SameRows, Standing DEF Core, Claims
<1>17. Moves'
  <2>1. \A p \in Operators : p # o /\ Away(p) => op[p].frame \in Frames /\ op[p].id \in Ids /\ op[p].id # id
    BY <1>6, Standing DEF Away, After
  <2>. QED  BY <1>1, <1>4, <1>5, <1>10, <2>1, SameRows DEF Core, Moves, Does
<1>18. Discards'
  BY <1>1, <1>4, <1>5 DEF Core, Discards
<1>19. OneTenant'
  <2>1. \A a \in Ids : a # id => dirs'[a] = dirs[a]
    BY <1>10
  <2>2. dirs'[id] = dirs[id] \/ (dirs'[id] = m /\ (tenants[m] = {} \/ tenants[m] = {<<f, owning[f]>>}))
    BY <1>2, <1>10
  <2>. QED  BY <1>1, <1>2, <2>1, <2>2, SameRows DEF Core, OneTenant
<1>20. Kept'
  <2>1. \A g \in Frames : Home(g) # None => \E i \in Existing' : <<g, owning[g]>> \in tenants[i]
    BY <1>11 DEF Core, Kept
  <2>2. \A p \in Operators : p # o /\ Away(p) => Away(p)' /\ op'[p] = op[p]
    BY <1>5
  <2>3. \A g \in Frames : Home(g) # None /\ dirs[Home(g)] # None => dirs'[Home(g)] = dirs[Home(g)]
    BY <1>10, HomeIds
  <2>4. torn \subseteq torn' /\ (f \in torn' \/ dirs'[id] = m)
    BY <1>1, <1>10
  <2>5. \A g \in Frames : g = f /\ g \notin torn' /\ <<g, owning[g]>> \in tenants[m] => InHome(g)'
    BY <1>1, <1>2, <2>4, SameRows DEF InHome
  <2>. QED  BY <1>1, <1>2, <2>1, <2>2, <2>3, <2>4, <2>5, SameRows DEF Core, Kept, InHome
<1>. QED  BY <1>12, <1>13, <1>14, <1>15, <1>16, <1>17, <1>18, <1>19, <1>20 DEF Core

-----------------------------------------------------------------------------
(* A commit starts an ownership.                                              *)

LEMMA Committing ==
    ASSUME Base, Core, NEW o \in Operators, op[o].step = "commit"
    PROVE  /\ writer = o
           /\ \A p \in Operators : p # o => op[p].kind # "claim"
           /\ \A p \in Operators : p # o => op[p].step \notin {"provision", "commit"}
BY Rows DEF Base, Stages, Stage

LEMMA Served ==
    ASSUME Base, NEW f \in Frames, NEW d \in Inodes, tenants[d] = {},
           tenants' = Serve(d, f, owning[f] + 1), owning' = [owning EXCEPT ![f] = @ + 1]
    PROVE  /\ tenants'[d] = {<<f, owning'[f]>>} /\ \A j : j # d => tenants'[j] = tenants[j]
           /\ owning[f] \in Nat /\ owning'[f] = owning[f] + 1 /\ \A g \in Frames : g # f => owning'[g] = owning[g]
           /\ \A g \in Frames : owning[g] \in Nat /\ owning'[g] \in Nat /\ owning'[g] >= owning[g]
BY FrameAssumption DEF Serve, Base, TypeOK

LEMMA CommitClaimKeepsCore ==
    ASSUME Base, Core, NEW o \in Operators, CommitClaim(o)
    PROVE  Core'
<1>1. op[o].kind = "claim" /\ op[o].step = "commit"
  BY DEF CommitClaim, Does
<1>2. PICK f \in Frames, id \in Ids : f = op[o].frame /\ id = op[o].id
  BY <1>1, Standing
<1>3. /\ pending' = [pending EXCEPT ![f] = None] /\ device' = [device EXCEPT ![f] = id]
      /\ owning' = [owning EXCEPT ![f] = @ + 1] /\ tenants' = Serve(dirs[id], f, owning[f] + 1)
      /\ UNCHANGED <<dirs, aside, torn>> /\ Done(o)
  BY <1>2 DEF CommitClaim
<1>4. /\ (\A g \in Frames : Home(g) # id) /\ dirs[id] # None /\ tenants[dirs[id]] = {} /\ Unclaimed(f)
      /\ dirs[id] \in Inodes
  BY <1>1, <1>2 DEF Core, Claims, Base, TypeOK
<1>5. /\ tenants'[dirs[id]] = {<<f, owning'[f]>>} /\ \A j : j # dirs[id] => tenants'[j] = tenants[j]
      /\ \A g \in Frames : g # f => owning'[g] = owning[g]
      /\ \A g \in Frames : owning[g] \in Nat /\ owning'[g] \in Nat /\ owning'[g] >= owning[g]
  BY <1>3, <1>4, Served
<1>6. /\ Home(f) = None /\ Home(f)' = id /\ \A g \in Frames : g # f => Home(g)' = Home(g)
      /\ \A g \in Frames : device'[g] = None \/ pending'[g] = None
      /\ id # None
  <2>1. device \in [Frames -> Ids \cup {None}] /\ pending \in [Frames -> PendingRows \cup {None}]
    BY DEF Base, TypeOK
  <2>2. device'[f] = id /\ pending'[f] = None /\ \A g \in Frames : g # f => device'[g] = device[g] /\ pending'[g] = pending[g]
    BY <1>3, <2>1
  <2>3. id # None
    BY FrameAssumption
  <2>. QED  BY <1>4, <2>2, <2>3, Rows DEF Home, Unclaimed
<1>7. Others(o) /\ op'[o].kind = "none" /\ op'[o].id = None /\ op'[o].fd = None
  BY <1>3, Ended DEF Base, Others, Done
<1>8. ~Away(o) /\ ~Away(o)' /\ ~Moving(o) /\ ~Moving(o)'
  BY <1>1, <1>7 DEF Away, Moving
<1>9. \A p \in Operators : p # o => /\ op[p].id # id /\ op'[p] = op[p] /\ op[p].kind # "claim"
                                    /\ (Away(p)' <=> Away(p)) /\ (Moving(p)' <=> Moving(p))
                                    /\ op[p].step \notin {"provision", "commit"}
  BY <1>1, <1>2, <1>7, Alone, OthersFacts, Committing DEF Others
<1>10. dirs[id] \notin aside /\ \A a \in Ids : a # id => dirs[a] # dirs[id]
  BY <1>4 DEF Core, Layout
<1>11. Holds'
  BY <1>3, <1>8, <1>9 DEF Core, Holds
<1>12. Apart'
  BY <1>7, <1>9 DEF Core, Apart
<1>13. Layout'
  <2>1. dirs[id] \in Existing /\ Existing' = Existing
    BY <1>3, <1>4, ExistingDirs DEF Members, Existing, InPlace, Base, TypeOK
  <2>. QED  BY <1>3, <1>5, <2>1 DEF Core, Layout
<1>14. Homes'
  BY <1>4, <1>6 DEF Core, Homes
<1>15. Claims'
  BY <1>7, <1>9 DEF Claims
<1>16. Moves'
  <2>1. \A p \in Operators : Away(p) => /\ op[p].frame \in Frames /\ op[p].id \in Ids /\ op[p].id # id
                                        /\ Home(op[p].frame) = op[p].id /\ op[p].moved \in aside
    BY <1>8, <1>9, Standing DEF Away, Core, Moves
  <2>2. \A p \in Operators : Away(p) => op[p].frame # f
    BY <1>6, <2>1, FrameAssumption
  <2>. QED  BY <1>3, <1>5, <1>6, <1>8, <1>9, <1>10, <2>1, <2>2 DEF Core, Moves, Does
<1>17. Discards'
  <2>1. \A p \in Operators : Moving(p) /\ op[p].step = "discard" => tenants'[op[p].moved] = tenants[op[p].moved]
    BY <1>5, <1>10, Standing DEF After
  <2>2. \A g \in Frames, n \in Nat : n < owning[g] => n < owning'[g]
    BY <1>5
  <2>. QED  BY <1>8, <1>9, <2>1, <2>2 DEF Core, Discards
<1>18. OneTenant'
  <2>1. ASSUME NEW a \in Ids, a # id, dirs[a] # None, tenants[dirs[a]] # {}
        PROVE  \E g \in Frames : Home(g)' = a /\ tenants'[dirs[a]] = {<<g, owning'[g]>>}
    <3>1. PICK g \in Frames : Home(g) = a /\ tenants[dirs[a]] = {<<g, owning[g]>>}
      BY <2>1 DEF Core, OneTenant
    <3>2. g # f
      BY <1>6, <3>1, FrameAssumption
    <3>. QED  BY <1>5, <1>6, <1>10, <2>1, <3>1, <3>2
  <2>. QED  BY <1>3, <1>5, <1>6, <1>10, <2>1 DEF OneTenant
<1>19. Kept'
  <2>1. InHome(f)' /\ dirs[id] \in Existing /\ Existing' = Existing
    BY <1>3, <1>4, <1>5, <1>6, ExistingDirs DEF InHome, Members, Existing, InPlace, Base, TypeOK
  <2>2. \A j : \A g \in Frames : g # f /\ <<g, owning[g]>> \in tenants[j] => <<g, owning'[g]>> \in tenants'[j]
    BY <1>4, <1>5
  <2>3. \A p \in Operators : Away(p) => Away(p)' /\ op'[p] = op[p]
    BY <1>8, <1>9
  <2>4. \A g \in Frames : g # f /\ InHome(g) => InHome(g)'
    BY <1>3, <1>6, <2>2 DEF InHome
  <2>. QED  BY <1>3, <1>5, <1>6, <2>1, <2>2, <2>3, <2>4 DEF Core, Kept
<1>. QED  BY <1>11, <1>12, <1>13, <1>14, <1>15, <1>16, <1>17, <1>18, <1>19 DEF Core

LEMMA CommitReassignKeepsCore ==
    ASSUME Base, Core, NEW o \in Operators, CommitReassign(o)
    PROVE  Core'
<1>1. op[o].kind = "reassign" /\ op[o].step = "commit" /\ Moving(o) /\ Away(o)
  BY DEF CommitReassign, Does, Moving, Away, After
<1>2. PICK f \in Frames, id \in Ids, m \in Inodes :
          f = op[o].frame /\ id = op[o].id /\ m = op[o].moved /\ m \in aside
  BY <1>1, Standing DEF After
<1>3. /\ UNCHANGED <<device, pending, dirs, aside>> /\ op' = [op EXCEPT ![o].step = "discard"]
      /\ owning' = [owning EXCEPT ![f] = @ + 1] /\ tenants' = Serve(dirs[id], f, owning[f] + 1)
      /\ torn' = torn \ {f}
  BY <1>2 DEF CommitReassign, Go
<1>4. /\ Home(f) = id /\ dirs[id] # None /\ tenants[dirs[id]] = {} /\ id # None
      /\ dirs[id] \in Inodes /\ tenants[m] \subseteq {<<f, owning[f]>>}
  BY <1>1, <1>2, FrameAssumption DEF Core, Moves, Does, Base, TypeOK
<1>5. /\ tenants'[dirs[id]] = {<<f, owning'[f]>>} /\ \A j : j # dirs[id] => tenants'[j] = tenants[j]
      /\ owning[f] \in Nat /\ owning'[f] = owning[f] + 1 /\ \A g \in Frames : g # f => owning'[g] = owning[g]
      /\ \A g \in Frames : owning[g] \in Nat /\ owning'[g] \in Nat /\ owning'[g] >= owning[g]
  BY <1>3, <1>4, Served
<1>6. /\ \A g \in Frames : Home(g)' = Home(g)
      /\ \A g \in Frames : Home(g) = id => g = f
  BY <1>3, <1>4, SameRows DEF Core, Homes
<1>7. /\ Others(o) /\ op'[o].kind = "reassign" /\ op'[o].step = "discard" /\ op'[o].frame = f
      /\ op'[o].id = id /\ op'[o].fd = op[o].fd /\ op'[o].moved = m
  BY <1>1, <1>2, <1>3, Stepped DEF Base, Others
<1>8. Moving(o)' /\ ~Away(o)'
  BY <1>7 DEF Away, Moving
<1>9. \A p \in Operators : p # o => /\ op'[p] = op[p] /\ op[p].kind # "claim"
                                    /\ (Away(p)' <=> Away(p)) /\ (Moving(p)' <=> Moving(p))
                                    /\ op[p].step \notin {"provision", "commit"}
                                    /\ (Moving(p) /\ op[p].step # "guard" => op[p].id # id)
  BY <1>1, <1>2, <1>7, Alone, OthersFacts, Committing DEF Others
<1>10. dirs[id] \notin aside /\ \A a \in Ids : a # id => dirs[a] # dirs[id]
  BY <1>4 DEF Core, Layout
<1>11. Holds'
  <2>1. op[o].fd \in Inodes /\ m = op[o].fd
    BY <1>1, <1>2, Standing DEF After
  <2>. QED  BY <1>2, <1>3, <1>7, <1>8, <1>9, <2>1 DEF Core, Holds
<1>12. Apart'
  BY <1>2, <1>7, <1>9 DEF Core, Apart
<1>13. Layout'
  <2>1. dirs[id] \in Existing /\ Existing' = Existing
    BY <1>3, <1>4, ExistingDirs DEF Members, Existing, InPlace, Base, TypeOK
  <2>. QED  BY <1>3, <1>5, <2>1 DEF Core, Layout
<1>14. Homes'
  BY <1>3, SameRows DEF Core, Homes
<1>15. Claims'
  BY <1>7, <1>9 DEF Claims
<1>16. Moves'
  <2>1. \A p \in Operators : p # o /\ Away(p) =>
            /\ op[p].frame \in Frames /\ op[p].id \in Ids /\ op[p].id # id /\ op[p].frame # f
            /\ op[p].moved \in aside
    BY <1>4, <1>9, Standing DEF Away, After, Core, Moves
  <2>. QED  BY <1>3, <1>5, <1>6, <1>8, <1>9, <1>10, <2>1 DEF Core, Moves, Does
<1>17. Discards'
  <2>1. \A p \in Operators : p # o /\ Moving(p) /\ op[p].step = "discard" => tenants'[op[p].moved] = tenants[op[p].moved]
    BY <1>5, <1>10, Standing DEF After
  <2>2. \A g \in Frames, n \in Nat : n < owning[g] => n < owning'[g]
    BY <1>5
  <2>3. \A g \in Frames, n \in Nat : <<g, n>> \in tenants'[m] => n < owning'[g]
    BY <1>2, <1>4, <1>5, <1>10
  <2>. QED  BY <1>7, <1>9, <2>1, <2>2, <2>3 DEF Core, Discards
<1>18. OneTenant'
  <2>1. ASSUME NEW a \in Ids, a # id, dirs[a] # None, tenants[dirs[a]] # {}
        PROVE  \E g \in Frames : Home(g)' = a /\ tenants'[dirs[a]] = {<<g, owning'[g]>>}
    <3>1. PICK g \in Frames : Home(g) = a /\ tenants[dirs[a]] = {<<g, owning[g]>>}
      BY <2>1 DEF Core, OneTenant
    <3>. QED  BY <1>4, <1>5, <1>6, <1>10, <2>1, <3>1
  <2>. QED  BY <1>3, <1>4, <1>5, <1>6, <1>10, <2>1 DEF OneTenant
<1>19. Kept'
  <2>1. InHome(f)' /\ dirs[id] \in Existing /\ Existing' = Existing
    BY <1>3, <1>4, <1>5, <1>6, ExistingDirs DEF InHome, Members, Existing, InPlace, Base, TypeOK
  <2>2. \A j : \A g \in Frames : g # f /\ <<g, owning[g]>> \in tenants[j] => <<g, owning'[g]>> \in tenants'[j]
    BY <1>4, <1>5
  <2>3. \A p \in Operators : Away(p) /\ op[p].frame # f => Away(p)' /\ op'[p] = op[p]
    BY <1>2, <1>9
  <2>4. \A g \in Frames : g # f /\ InHome(g) => InHome(g)'
    BY <1>3, <1>6, <2>2 DEF InHome
  <2>. QED  BY <1>3, <1>4, <1>5, <1>6, <2>1, <2>2, <2>3, <2>4 DEF Core, Kept
<1>. QED  BY <1>11, <1>12, <1>13, <1>14, <1>15, <1>16, <1>17, <1>18, <1>19 DEF Core

LEMMA CommitReactivateKeepsCore ==
    ASSUME Base, Core, NEW o \in Operators, CommitReactivate(o)
    PROVE  Core'
<1>1. op[o].kind = "reactivate" /\ op[o].step = "commit" /\ Moving(o) /\ Away(o)
  BY DEF CommitReactivate, Does, Moving, Away, After
<1>2. PICK f \in Frames, id \in Ids, m \in Inodes :
          f = op[o].frame /\ id = op[o].id /\ m = op[o].moved /\ m \in aside
  BY <1>1, Standing DEF After
<1>3. /\ UNCHANGED <<device, dirs, aside, tenants>> /\ op' = [op EXCEPT ![o].step = "discard"]
      /\ owning' = [owning EXCEPT ![f] = @ + 1] /\ pending' = [pending EXCEPT ![f] = Row("pending", id)]
      /\ torn' = torn \ {f}
  BY <1>2 DEF CommitReactivate, Go, files
<1>4. /\ Home(f) = id /\ (dirs[id] # None => tenants[dirs[id]] = {}) /\ id # None
      /\ tenants[m] \subseteq {<<f, owning[f]>>} /\ pending[f] # None /\ device[f] = None
  BY <1>1, <1>2, Rows, FrameAssumption DEF Core, Moves, Does, StillThere
<1>5. /\ owning[f] \in Nat /\ owning'[f] = owning[f] + 1 /\ \A g \in Frames : g # f => owning'[g] = owning[g]
      /\ \A g \in Frames : owning[g] \in Nat /\ owning'[g] \in Nat /\ owning'[g] >= owning[g]
  BY <1>3, FrameAssumption DEF Base, TypeOK
<1>6. /\ Home(f)' = None /\ \A g \in Frames : g # f => Home(g)' = Home(g)
      /\ \A g \in Frames : Home(g) = id => g = f
      /\ \A g \in Frames : device'[g] = None \/ pending'[g] = None
  <2>1. /\ pending'[f] # None /\ pending'[f].status = "pending"
        /\ \A g \in Frames : g # f => pending'[g] = pending[g]
    BY <1>3, NewRows DEF Base, TypeOK
  <2>. QED  BY <1>3, <1>4, <2>1, Rows DEF Home, Core, Homes
<1>7. /\ Others(o) /\ op'[o].kind = "reactivate" /\ op'[o].step = "discard" /\ op'[o].frame = f
      /\ op'[o].id = id /\ op'[o].fd = op[o].fd /\ op'[o].moved = m
  BY <1>1, <1>2, <1>3, Stepped DEF Base, Others
<1>8. Moving(o)' /\ ~Away(o)'
  BY <1>7 DEF Away, Moving
<1>9. \A p \in Operators : p # o => /\ op'[p] = op[p] /\ op[p].kind # "claim"
                                    /\ (Away(p)' <=> Away(p)) /\ (Moving(p)' <=> Moving(p))
                                    /\ op[p].step \notin {"provision", "commit"}
                                    /\ (Moving(p) /\ op[p].step # "guard" => op[p].id # id)
  BY <1>1, <1>2, <1>7, Alone, OthersFacts, Committing DEF Others
<1>10. Holds'
  <2>1. op[o].fd \in Inodes /\ m = op[o].fd
    BY <1>1, <1>2, Standing DEF After
  <2>. QED  BY <1>2, <1>3, <1>7, <1>8, <1>9, <2>1 DEF Core, Holds
<1>11. Apart'
  BY <1>2, <1>7, <1>9 DEF Core, Apart
<1>12. Layout'
  BY <1>3 DEF Core, Layout, Existing, InPlace
<1>13. Homes'
  BY <1>6 DEF Core, Homes
<1>14. Claims'
  BY <1>7, <1>9 DEF Claims
<1>15. Moves'
  <2>1. \A p \in Operators : p # o /\ Away(p) =>
            op[p].frame \in Frames /\ op[p].id \in Ids /\ op[p].id # id /\ op[p].frame # f
    BY <1>4, <1>9, Standing DEF Away, After, Core, Moves
  <2>. QED  BY <1>3, <1>5, <1>6, <1>8, <1>9, <2>1 DEF Core, Moves, Does
<1>16. Discards'
  <2>1. \A g \in Frames, n \in Nat : n < owning[g] => n < owning'[g]
    BY <1>5
  <2>2. \A g \in Frames, n \in Nat : <<g, n>> \in tenants[m] => n < owning'[g]
    BY <1>2, <1>4, <1>5
  <2>. QED  BY <1>3, <1>7, <1>9, <2>1, <2>2 DEF Core, Discards
<1>17. OneTenant'
  <2>1. ASSUME NEW a \in Ids, dirs[a] # None, tenants[dirs[a]] # {}
        PROVE  \E g \in Frames : Home(g)' = a /\ tenants[dirs[a]] = {<<g, owning'[g]>>}
    <3>1. PICK g \in Frames : Home(g) = a /\ tenants[dirs[a]] = {<<g, owning[g]>>}
      BY <2>1 DEF Core, OneTenant
    <3>. QED  BY <1>4, <1>5, <1>6, <2>1, <3>1
  <2>. QED  BY <1>3, <2>1 DEF OneTenant
<1>18. Kept'
  <2>1. Existing' = Existing
    BY <1>3 DEF Existing, InPlace
  <2>2. \A p \in Operators : Away(p) /\ op[p].frame # f => Away(p)' /\ op'[p] = op[p]
    BY <1>2, <1>9
  <2>3. \A g \in Frames : g # f /\ InHome(g) => InHome(g)'
    BY <1>3, <1>5, <1>6 DEF InHome
  <2>. QED  BY <1>3, <1>5, <1>6, <2>1, <2>2, <2>3 DEF Core, Kept
<1>. QED  BY <1>10, <1>11, <1>12, <1>13, <1>14, <1>15, <1>16, <1>17, <1>18 DEF Core

-----------------------------------------------------------------------------
(* What comes, changes hands and goes.                                        *)

LEMMA InitCore == Init => Core
<1> SUFFICES ASSUME Init PROVE Core
  OBVIOUS
<1>1. \A o \in Operators : op[o] = Idle /\ ~Moving(o) /\ ~Away(o) /\ op[o].kind = "none" /\ op[o].fd = None
  BY DEF Init, Moving, Away, Idle
<1>2. \A f \in Frames : device[f] = None /\ pending[f] = None /\ Home(f) = None
  BY DEF Init, Home
<1>3. \A a \in Ids : dirs[a] = None
  BY DEF Init
<1>4. \A i \in Inodes : tenants[i] = {}
  BY DEF Init
<1>5. aside = {}
  BY DEF Init
<1>6. Holds /\ Apart /\ Claims /\ Moves /\ Discards
  BY <1>1 DEF Holds, Apart, Claims, Moves, Discards
<1>7. Layout /\ Homes /\ OneTenant /\ Kept
  BY <1>2, <1>3, <1>4, <1>5 DEF Layout, Homes, OneTenant, Kept
<1>. QED  BY <1>6, <1>7 DEF Core

LEMMA StepCore ==
    ASSUME Base, Core, Console = Operators, [Next]_vars
    PROVE  Core'
<1>1. ASSUME NEW f \in Frames,
             RegisterFrame(f) \/ PollPending(f) \/ DrawCode(f) \/ IssueCode(f) \/ IssueFails(f)
             \/ CodeExpires(f) \/ RetireFrame(f) \/ PlanPoll(f)
      PROVE  Core'
  BY <1>1, FrameStepsKeepCore
<1>2. CASE ReadState \/ WriteState \/ PollBusy \/ UNCHANGED vars
  BY <1>2, PollStepsKeepCore
<1>3. ASSUME NEW o \in Operators, FrameBusy(o) \/ NotFound(o) PROVE Core'
  <2>1. ~Away(o)
    BY <1>3 DEF FrameBusy, NotFound, Away, After
  <2>. QED  BY <1>3, <2>1, EndingKeepsCore DEF FrameBusy, NotFound, rows, files
<1>. QED
  BY <1>1, <1>2, <1>3, OpenLockKeepsCore, BeginClaimKeepsCore, StartMoveKeepsCore, GuardKeepsCore,
     ResetDirectoryKeepsCore, ClaimFailsKeepsCore, ClearFreshKeepsCore, MoveFailsKeepsCore,
     MoveAsideKeepsCore, DiesKeepsCore, DiscardKeepsCore, RestoreKeepsCore, CommitClaimKeepsCore,
     CommitReassignKeepsCore, CommitReactivateKeepsCore
     DEF Next

LEMMA Inductive ==
    ASSUME Console = Operators
    PROVE  Spec => [](Base /\ Core)
<1>1. Init => Base /\ Core
  BY InitBase, InitCore
<1>2. Base /\ Core /\ [Next]_vars => (Base /\ Core)'
  BY StepBase, StepCore
<1>. QED  BY <1>1, <1>2, PTL DEF Spec

(* fleet_ops.py: when all moves pass the guard, a directory in service is that*)
(* of the frame its id leads to, for the present ownership and no other,      *)
(* through any interleaving of claims, moves, failures, deaths and polls.     *)
THEOREM DirectoriesHaveOneTenant ==
    ASSUME Console = Operators
    PROVE  Spec => []OneTenant
<1>1. Base /\ Core => OneTenant
  BY DEF Core
<1>. QED  BY <1>1, Inductive, PTL

(* fleet_ops.py: when all moves pass the guard, the data of an ownership exist*)
(* as long as it lasts, and are in their place unless a move is under way or  *)
(* was cut short.                                                             *)
THEOREM FailuresLoseNothing ==
    ASSUME Console = Operators
    PROVE  Spec => []FailuresKeepData
<1>1. Base /\ Core => FailuresKeepData
  <2>1. SUFFICES ASSUME Base, Core, NEW f \in Frames, Home(f) # None
                 PROVE  /\ \E i \in Existing : <<f, owning[f]>> \in tenants[i]
                        /\ \/ f \in torn
                           \/ \E o \in Operators : MovedBy(o, f)
                           \/ dirs[Home(f)] # None /\ <<f, owning[f]>> \in tenants[dirs[Home(f)]]
    BY DEF FailuresKeepData
  <2>2. \A o \in Operators : Away(o) => op[o].moved # None
    BY <2>1, Standing DEF Away, After
  <2>. QED  BY <2>1, <2>2 DEF Core, Kept, InHome, MovedBy
<1>. QED  BY <1>1, Inductive, PTL
=============================================================================
