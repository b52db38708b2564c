--------------------------- MODULE HandoverProofs ---------------------------
(***************************************************************************)
(* Coordinator implements Allocation, for every value of the constants.    *)
(*                                                                         *)
(* Under the invariant of CoordinatorProofs every step is one of three     *)
(* kinds: it changes the look of no issue, or of the issue of one active   *)
(* lease's row (RowLook), or it ends or allocates a lease (ReleaseLook,    *)
(* AllocateLook).                                                          *)
(***************************************************************************)
EXTENDS Handover, CoordinatorProofs

Issues == [w \in Works |-> IssueOf(w)]
Implements == [Abstract!Next]_Issues

\* Only issue w changes its look, to row.
OnlyLook(w, row) ==
  /\ IssueOf(w)' = row
  /\ \A v \in Works \ {w} : IssueOf(v)' = IssueOf(v)

\* The look of issue w with another stage, other holders and another commit.
LookWith(w, stage, holders, commit) ==
  [stage |-> stage, holders |-> holders, turn |-> IssueOf(w).turn, handoff |-> commit]
-----------------------------------------------------------------------------
(* The steps of Allocation, in terms of the look of an issue *)

\* A step that changes no issue's look is a stuttering step.
LEMMA Stutter ==
  ASSUME \A w \in Works : IssueOf(w)' = IssueOf(w)
  PROVE  Implements
BY DEF Implements, Issues

\* A step of one issue in Allocation, or none.
LEMMA AbstractStep ==
  ASSUME NEW w \in Works, Abstract!IssueNext(w)
  PROVE  Implements
BY DEF Implements, Issues, Abstract!Next

\* A change of one issue's look, as an update of the abstract variable.
LEMMA Update ==
  ASSUME NEW w \in Works, NEW row, OnlyLook(w, row)
  PROVE  Issues' = [Issues EXCEPT ![w] = row]
BY DEF OnlyLook, Issues

\* The fields of an issue's look.
LEMMA Look ==
  ASSUME NEW w \in Works
  PROVE  /\ Issues[w] = IssueOf(w)
         /\ IssueOf(w) = [stage |-> IssueOf(w).stage, holders |-> IssueOf(w).holders,
                          turn |-> IssueOf(w).turn, handoff |-> IssueOf(w).handoff]
BY DEF Issues, IssueOf

\* A free issue is taken up by an idle person.
LEMMA TakeStep ==
  ASSUME NEW w \in Works, NEW u \in Users, NEW c \in Commits,
         NEW s \in {"offered", "working"},
         IssueOf(w).stage = "free", \A v \in Works : u \notin IssueOf(v).holders,
         OnlyLook(w, [stage |-> s, holders |-> {u}, turn |-> IssueOf(w).turn + 1,
                      handoff |-> c])
  PROVE  Implements
<1>1. Issues' = [Issues EXCEPT ![w] = [stage |-> s, holders |-> {u},
                                       turn |-> Issues[w].turn + 1, handoff |-> c]]
  BY Update, Look
<1>2. \A v \in Works : u \notin Issues[v].holders
  BY Look
<1>3. Issues[w].stage = "free"
  BY Look
<1>4. Abstract!Take(u, w)
  BY <1>1, <1>2, <1>3 DEF Abstract!Take, Abstract!Idle, Issues
<1> QED BY <1>4, AbstractStep DEF Abstract!IssueNext

\* An offered issue is accepted.
LEMMA AcceptStep ==
  ASSUME NEW w \in Works, IssueOf(w).stage = "offered",
         OnlyLook(w, LookWith(w, "working", IssueOf(w).holders, IssueOf(w).handoff))
  PROVE  Implements
<1>1. Abstract!Accept(w)
  BY Update, Look DEF LookWith, Abstract!Accept, Abstract!Becomes, Issues
<1> QED BY <1>1, AbstractStep DEF Abstract!IssueNext

\* A commit of issue w is saved for whoever comes next.
LEMMA SaveStep ==
  ASSUME NEW w \in Works, NEW c \in Commits, IssueOf(w).stage = "working",
         OnlyLook(w, LookWith(w, "working", IssueOf(w).holders, c))
  PROVE  Implements
<1>1. Abstract!Save(w, c)
  BY Update, Look DEF LookWith, Abstract!Save, Abstract!Becomes, Issues
<1> QED BY <1>1, AbstractStep DEF Abstract!IssueNext

\* A commit of issue w is submitted for review.
LEMMA SubmitStep ==
  ASSUME NEW w \in Works, NEW c \in Commits, IssueOf(w).stage = "working",
         OnlyLook(w, LookWith(w, "review", IssueOf(w).holders, c))
  PROVE  Implements
<1>1. Abstract!Submit(w, c)
  BY Update, Look DEF LookWith, Abstract!Submit, Abstract!Becomes, Issues
<1> QED BY <1>1, AbstractStep DEF Abstract!IssueNext

\* A reviewed issue is handed to the publication.
LEMMA PublishStep ==
  ASSUME NEW w \in Works, IssueOf(w).stage = "review",
         OnlyLook(w, LookWith(w, "publishing", IssueOf(w).holders, IssueOf(w).handoff))
  PROVE  Implements
<1>1. Abstract!Publish(w)
  BY Update, Look DEF LookWith, Abstract!Publish, Abstract!Becomes, Issues
<1> QED BY <1>1, AbstractStep DEF Abstract!IssueNext

\* An issue becomes free.
LEMMA GiveBackStep ==
  ASSUME NEW w \in Works, IssueOf(w).stage # "free",
         OnlyLook(w, LookWith(w, "free", {}, IssueOf(w).handoff))
  PROVE  Implements
<1>1. Abstract!GiveBack(w)
  BY Update, Look DEF LookWith, Abstract!GiveBack, Abstract!Becomes, Issues
<1> QED BY <1>1, AbstractStep DEF Abstract!IssueNext
-----------------------------------------------------------------------------
(* The steps of Coordinator *)

\* The issue of a work with an active lease looks like that lease's row.
LEMMA ActiveLook ==
  ASSUME IInv, NEW l \in Leases, lease[l].state \in Active
  PROVE  /\ lease[l].work \in Works /\ lease[l].device \in Devices
         /\ work[lease[l].work].active = l
         /\ IssueOf(lease[l].work) =
              [stage |-> StageOf(lease[l]), holders |-> {Holder(l)},
               turn |-> work[lease[l].work].generation,
               handoff |-> work[lease[l].work].checkpoint]
<1>1. lease[l].work \in Works /\ lease[l].device \in Devices /\ l # NoLease
  BY DEF IInv, CInv, Safe, Born, Active, NoLease, Leases
<1>2. work[lease[l].work].active = l
  BY DEF IInv, CInv, Safe, ActiveIsCurrent
<1> QED BY <1>1, <1>2 DEF IssueOf

\* Pointers, fencing numbers and checkpoints of the works other than w stay, and so do
\* the devices of active leases and the stages of those of works other than w.
OthersStay(w) ==
  /\ \A v \in Works \ {w} :
       /\ work'[v].active = work[v].active /\ work'[v].generation = work[v].generation
       /\ work'[v].checkpoint = work[v].checkpoint
  /\ \A k \in Leases : lease[k].state \in Active /\ lease[k].work # w =>
       /\ lease'[k].device = lease[k].device
       /\ StageOf(lease'[k]) = StageOf(lease[k])

\* Then no issue but w changes its look.
LEMMA OthersLook ==
  ASSUME IInv, NEW w, OthersStay(w), NEW v \in Works \ {w}
  PROVE  IssueOf(v)' = IssueOf(v)
<1>1. CASE work[v].active = NoLease
  BY <1>1 DEF OthersStay, IssueOf
<1>2. CASE work[v].active # NoLease
  <2>1. /\ work[v].active \in Leases
        /\ lease[work[v].active].state \in Active /\ lease[work[v].active].work = v
    BY <1>2 DEF IInv, CInv, Safe, PointerKnown, Strict, PointerIsLive, Endable, TypeOK, WorkRows
  <2>2. /\ lease'[work[v].active].device = lease[work[v].active].device
        /\ StageOf(lease'[work[v].active]) = StageOf(lease[work[v].active])
    BY <2>1 DEF OthersStay
  <2>3. work'[v].active = work[v].active
    BY DEF OthersStay
  <2>4. Holder(work[v].active)' = Holder(work[v].active)
    BY <2>2, <2>3 DEF Holder
  <2> HIDE DEF StageOf
  <2> QED BY <2>2, <2>3, <2>4 DEF OthersStay, IssueOf
<1> QED BY <1>1, <1>2

\* A step after which every active lease looks the same changes no issue's look.
LEMMA SameLook ==
  ASSUME IInv,
         \A w \in Works :
           /\ work'[w].active = work[w].active /\ work'[w].generation = work[w].generation
           /\ work'[w].checkpoint = work[w].checkpoint,
         \A k \in Leases : lease[k].state \in Active =>
           /\ lease'[k].device = lease[k].device
           /\ StageOf(lease'[k]) = StageOf(lease[k])
  PROVE  Implements
<1>1. 0 \notin Works
  BY DEF Works
<1>2. OthersStay(0)
  BY DEF OthersStay
<1> QED BY <1>1, <1>2, OthersLook, Stutter

\* A step that changes the row of one active lease, and perhaps its checkpoint.
LEMMA RowLook ==
  ASSUME IInv, NEW l \in Leases, lease[l].state \in Active, NEW q,
         lease' = [lease EXCEPT ![l] = q], q.device = lease[l].device,
         NEW w, w = lease[l].work,
         \A v \in Works :
           /\ work'[v].active = work[v].active /\ work'[v].generation = work[v].generation
           /\ v # w => work'[v].checkpoint = work[v].checkpoint
  PROVE  /\ w \in Works
         /\ IssueOf(w).stage = StageOf(lease[l])
         /\ OnlyLook(w, LookWith(w, StageOf(q), IssueOf(w).holders, work'[w].checkpoint))
<1>1. /\ w \in Works /\ work[w].active = l
      /\ IssueOf(w) = [stage |-> StageOf(lease[l]), holders |-> {Holder(l)},
                       turn |-> work[w].generation, handoff |-> work[w].checkpoint]
  BY ActiveLook
<1>2. lease'[l] = q /\ \A k \in Leases : k # l => lease'[k] = lease[k]
  BY DEF IInv, CInv, TypeOK
<1>3. OthersStay(w)
  BY <1>2 DEF OthersStay
<1>4. work'[w].active = l /\ l # NoLease /\ Holder(l)' = Holder(l)
  BY <1>1, <1>2 DEF NoLease, Leases, Holder
<1>5. IssueOf(w)' = [stage |-> StageOf(q), holders |-> {Holder(l)},
                     turn |-> work[w].generation, handoff |-> work'[w].checkpoint]
  <2> HIDE DEF StageOf, Holder
  <2>1. StageOf(lease[l])' = StageOf(q)
    BY <1>2 DEF StageOf
  <2> QED BY <1>1, <1>4, <2>1 DEF IssueOf
<1>6. IssueOf(w)' = LookWith(w, StageOf(q), IssueOf(w).holders, work'[w].checkpoint)
  BY <1>1, <1>5 DEF LookWith
<1> QED BY <1>1, <1>3, <1>6, OthersLook DEF OnlyLook

\* An active lease that ends leaves its issue free.
LEMMA EndLook ==
  ASSUME IInv, NEW l \in Leases, lease[l].state \in Active,
         NEW w, w = lease[l].work,
         \A k \in Leases : k # l => lease'[k] = lease[k],
         \A v \in Works : v # w => work'[v] = work[v],
         work'[w].active = NoLease, work'[w].generation = work[w].generation,
         work'[w].checkpoint = work[w].checkpoint
  PROVE  Implements
<1>1. /\ w \in Works /\ work[w].active = l /\ l # NoLease
      /\ IssueOf(w) = [stage |-> StageOf(lease[l]), holders |-> {Holder(l)},
                       turn |-> work[w].generation, handoff |-> work[w].checkpoint]
  BY ActiveLook DEF Leases, NoLease
<1>2. StageOf(lease[l]) # "free"
  BY DEF StageOf
<1>3. IssueOf(w)' = [stage |-> "free", holders |-> {}, turn |-> work[w].generation,
                     handoff |-> work[w].checkpoint]
  BY DEF IssueOf
<1>4. OthersStay(w)
  BY DEF OthersStay
<1>5. OnlyLook(w, LookWith(w, "free", {}, IssueOf(w).handoff))
  BY <1>1, <1>3, <1>4, OthersLook DEF OnlyLook, LookWith
<1> QED BY <1>1, <1>2, <1>5, GiveBackStep

\* Coordinator.release frees the issue, or finds that the lease had lost it.
LEMMA ReleaseLook ==
  ASSUME IInv, NEW l \in Leases, lease[l].state # "none", NEW terminal,
         NEW requeue \in BOOLEAN, Release(l, terminal, requeue)
  PROVE  Implements
<1> DEFINE w == lease[l].work
<1>1. w \in Works
  BY DEF IInv, CInv, Safe, Born
<1>2. \A k \in Leases : k # l => lease'[k] = lease[k]
  BY DEF IInv, CInv, TypeOK, Release, EndLease
<1>3. CASE work[w].active = l
  <2>1. lease[l].state \in Active
    BY <1>1, <1>3 DEF IInv, CInv, Safe, PointerKnown, Strict, PointerIsLive, Endable, NoLease, Leases
  <2>2. work' = [work EXCEPT ![w].active = NoLease,
                             ![w].state = StateAfterRelease(l, requeue)]
    BY <1>3 DEF Release
  <2>3. /\ \A v \in Works : v # w => work'[v] = work[v]
        /\ work'[w].active = NoLease /\ work'[w].generation = work[w].generation
        /\ work'[w].checkpoint = work[w].checkpoint
    BY <1>1, <2>2 DEF IInv, CInv, TypeOK, WorkRows
  <2> QED BY <1>2, <2>1, <2>3, EndLook
<1>4. CASE work[w].active # l
  <2>1. lease[l].state \notin Active
    BY <1>4 DEF IInv, CInv, Safe, ActiveIsCurrent
  <2>2. work' = work
    BY <1>4 DEF Release
  <2>3. \A k \in Leases : lease[k].state \in Active => lease'[k] = lease[k]
    BY <1>2, <2>1
  <2> HIDE DEF w
  <2> QED BY <2>2, <2>3, SameLook
<1> QED BY <1>3, <1>4

\* An issue is taken up when it is free, by a person who has nothing.
LEMMA AllocateLook ==
  ASSUME IInv, NEW d \in Devices, NEW w \in Works, Allocate(d, w)
  PROVE  Implements
<1>1. PICK l \in Leases : lease[l].state = "none" /\ Grant(l, d, w)
  BY DEF Allocate, NextLease, Unborn
<1>2. /\ work[w].active = NoLease /\ HeldBy(UserOf[d]) = {} /\ UserOf[d] \in Users
  BY DevicesAssumption DEF Allocate, CanAllocate
<1>3. PICK q \in LeaseRows :
        /\ lease' = [lease EXCEPT ![l] = q]
        /\ q.state \in {"offered", "running"} /\ q.device = d /\ RowOK(q)
  BY <1>1, GrantRows DEF IInv
<1>4. PICK row \in WorkRows :
        /\ work' = [work EXCEPT ![w] = row]
        /\ row.active = l /\ row.generation = work[w].generation + 1
  BY <1>1, GrantRows DEF IInv
<1>5. \A v \in Works : UserOf[d] \notin IssueOf(v).holders
  <2> TAKE v \in Works
  <2>1. CASE work[v].active = NoLease
    BY <2>1 DEF IssueOf
  <2>2. CASE work[v].active # NoLease
    <3>1. work[v].active \in Leases /\ lease[work[v].active].state \in Active
      BY <2>2 DEF IInv, CInv, TypeOK, WorkRows, Safe, PointerKnown, Strict, PointerIsLive, Endable
    <3>2. Holder(work[v].active) # UserOf[d]
      BY <1>2, <3>1 DEF HeldBy
    <3> QED BY <2>2, <3>2 DEF IssueOf
  <2> QED BY <2>1, <2>2
<1>6. /\ lease'[l] = q /\ \A k \in Leases : k # l => lease'[k] = lease[k]
      /\ work'[w] = row /\ \A v \in Works : v # w => work'[v] = work[v]
  BY <1>3, <1>4 DEF IInv, CInv, TypeOK
<1>7. OthersStay(w)
  BY <1>1, <1>6 DEF OthersStay, Active
<1>8. StageOf(q) \in {"offered", "working"}
  BY <1>3 DEF StageOf, RowOK
<1>9. /\ IssueOf(w).stage = "free" /\ IssueOf(w).turn = work[w].generation
  BY <1>2 DEF IssueOf
<1>10. row.checkpoint \in Commits
  BY DEF WorkRows
<1>11. IssueOf(w)' = [stage |-> StageOf(q), holders |-> {UserOf[d]},
                      turn |-> IssueOf(w).turn + 1, handoff |-> row.checkpoint]
  <2>1. work'[w].active = l /\ l # NoLease /\ work'[w].generation = work[w].generation + 1
    BY <1>4, <1>6 DEF NoLease, Leases
  <2>2. Holder(l)' = UserOf[d]
    BY <1>3, <1>6 DEF Holder
  <2>3. StageOf(lease[l])' = StageOf(q)
    BY <1>6 DEF StageOf
  <2> HIDE DEF StageOf, Holder
  <2> QED BY <1>6, <1>9, <2>1, <2>2, <2>3 DEF IssueOf
<1>12. OnlyLook(w, [stage |-> StageOf(q), holders |-> {UserOf[d]},
                    turn |-> IssueOf(w).turn + 1, handoff |-> row.checkpoint])
  BY <1>7, <1>11, OthersLook DEF OnlyLook
<1> HIDE DEF StageOf
<1> QED BY <1>2, <1>5, <1>8, <1>9, <1>10, <1>12, TakeStep
-----------------------------------------------------------------------------
(* Steps that change the look of no issue *)

\* Steps that leave works and leases alone.
LEMMA RowsStay ==
  ASSUME IInv, UNCHANGED <<work, lease>>
  PROVE  Implements
BY SameLook

\* One lease's row changes, and neither its device nor its stage does.
LEMMA RowSame ==
  ASSUME IInv, NEW l \in Leases, NEW q, lease' = [lease EXCEPT ![l] = q],
         q.device = lease[l].device, StageOf(q) = StageOf(lease[l]), work' = work
  PROVE  Implements
<1>1. \A k \in Leases : lease'[k].device = lease[k].device /\ StageOf(lease'[k]) = StageOf(lease[k])
  BY DEF IInv, CInv, TypeOK
<1> QED BY <1>1, SameLook

LEMMA TickLook == ASSUME IInv, Tick PROVE Implements
<1>1. \A k \in Leases : /\ lease'[k].device = lease[k].device
                         /\ StageOf(lease'[k]) = StageOf(lease[k])
  <2> TAKE k \in Leases
  <2>1. lease[k] \in LeaseRows /\ lease'[k] = Aged(lease[k])
    BY DEF Tick, IInv, CInv, TypeOK
  <2>2. /\ Aged(lease[k]).device = lease[k].device /\ Aged(lease[k]).state = lease[k].state
        /\ Aged(lease[k]).reviewed = lease[k].reviewed
    BY <2>1 DEF Aged, LeaseRows
  <2> QED BY <2>1, <2>2 DEF StageOf
<1>2. work' = work
  BY DEF Tick
<1> QED BY <1>1, <1>2, SameLook

\* Pausing a device blocks what it runs, which is no stage of its own.
LEMMA ToggleLook ==
  ASSUME IInv, NEW d \in Devices, NEW enabled \in BOOLEAN, ToggleDevice(d, enabled)
  PROVE  Implements
<1>1. \A k \in Leases : /\ lease'[k].device = lease[k].device
                         /\ StageOf(lease'[k]) = StageOf(lease[k])
  <2> TAKE k \in Leases
  <2> DEFINE q == [lease[k] EXCEPT !.state = "blocked"]
  <2>1. lease[k] \in LeaseRows
    BY DEF IInv, CInv, TypeOK
  <2>2. lease'[k] = lease[k] \/ (lease[k].state = "running" /\ lease'[k] = q)
    BY DEF ToggleDevice
  <2>3. q.device = lease[k].device /\ q.state = "blocked" /\ q.reviewed = lease[k].reviewed
    BY <2>1 DEF LeaseRows
  <2> HIDE DEF q
  <2> QED BY <2>2, <2>3 DEF StageOf
<1>2. work' = work
  BY DEF ToggleDevice
<1> QED BY <1>1, <1>2, SameLook

LEMMA ValidateLook ==
  ASSUME IInv, NEW u \in Users, NEW w \in Works, Validate(u, w)
  PROVE  Implements
<1>1. \A v \in Works :
        /\ work'[v].active = work[v].active /\ work'[v].generation = work[v].generation
        /\ work'[v].checkpoint = work[v].checkpoint
  BY DEF Validate, IInv, CInv, TypeOK, WorkRows
<1>2. lease' = lease
  BY DEF Validate
<1> QED BY <1>1, <1>2, SameLook

LEMMA HeartbeatLook ==
  ASSUME IInv, NEW l \in Leases, NEW phase \in 0..LastPhase, Heartbeat(l, phase)
  PROVE  Implements
<1> DEFINE q == [lease[l] EXCEPT !.phase = phase, !.age = 0]
<1>1. lease[l] \in LeaseRows /\ lease' = [lease EXCEPT ![l] = q] /\ work' = work
  BY DEF Heartbeat, IInv, CInv, TypeOK
<1>2. /\ q.device = lease[l].device /\ q.state = lease[l].state
      /\ q.reviewed = lease[l].reviewed
  BY <1>1 DEF LeaseRows
<1>3. StageOf(q) = StageOf(lease[l])
  BY <1>2 DEF StageOf
<1> HIDE DEF q
<1> QED BY <1>1, <1>2, <1>3, RowSame

\* A report that reaches the reservation blocks a running lease.
LEMMA HeartbeatWithUsageLook ==
  ASSUME IInv, NEW l \in Leases, NEW phase \in 0..LastPhase, NEW usage,
         HeartbeatWithUsage(l, phase, usage)
  PROVE  Implements
<1> DEFINE s == IF Observed(usage) >= lease[l].reservation THEN "blocked" ELSE lease[l].state
           q == [lease[l] EXCEPT !.phase = phase, !.age = 0, !.usage = usage, !.state = s]
<1>1. /\ lease[l] \in LeaseRows /\ lease' = [lease EXCEPT ![l] = q] /\ work' = work
      /\ lease[l].state = "running"
  BY DEF HeartbeatWithUsage, Reports, Fence, IInv, CInv, TypeOK
<1>2. s \in {"running", "blocked"}
  BY <1>1
<1> HIDE DEF s
<1>3. q.device = lease[l].device /\ q.state = s /\ q.reviewed = lease[l].reviewed
  BY <1>1 DEF LeaseRows
<1>4. StageOf(q) = StageOf(lease[l])
  BY <1>1, <1>2, <1>3 DEF StageOf
<1> HIDE DEF q
<1> QED BY <1>1, <1>3, <1>4, RowSame

LEMMA BlockLook ==
  ASSUME IInv, NEW l \in Leases, Block(l)
  PROVE  Implements
<1> DEFINE q == [lease[l] EXCEPT !.state = "blocked", !.age = 0]
<1>1. /\ lease[l] \in LeaseRows /\ lease' = [lease EXCEPT ![l] = q] /\ work' = work
      /\ lease[l].state = "running"
  BY DEF Block, Fence, IInv, CInv, TypeOK
<1>2. q.device = lease[l].device /\ q.state = "blocked" /\ q.reviewed = lease[l].reviewed
  BY <1>1 DEF LeaseRows
<1>3. StageOf(q) = StageOf(lease[l])
  BY <1>1, <1>2 DEF StageOf
<1> HIDE DEF q
<1> QED BY <1>1, <1>2, <1>3, RowSame

\* A handover that is only asked for changes nothing yet.
LEMMA DibLook ==
  ASSUME IInv, NEW l \in Leases, NEW d \in Devices, Dib(l, d)
  PROVE  Implements
<1> DEFINE q == [lease[l] EXCEPT !.state = "dibbed", !.dibDevice = d,
                                 !.dibLeft = RecoveryWindow]
<1>1. /\ lease[l] \in LeaseRows /\ lease' = [lease EXCEPT ![l] = q] /\ work' = work
      /\ lease[l].state \in Staleable
  BY DEF Dib, Stale, IInv, CInv, TypeOK
<1>2. q.device = lease[l].device /\ q.state = "dibbed" /\ q.reviewed = lease[l].reviewed
  BY <1>1 DEF LeaseRows
<1>3. StageOf(q) = StageOf(lease[l])
  BY <1>1, <1>2 DEF StageOf, Staleable
<1> HIDE DEF q
<1> QED BY <1>1, <1>2, <1>3, RowSame

\* The holder's return, to a run or to the review the lease was in.
LEMMA RecoverLook ==
  ASSUME IInv, NEW l \in Leases, Recover(l)
  PROVE  Implements
<1> DEFINE s == IF lease[l].reviewed THEN "awaiting_review" ELSE "running"
           q == [lease[l] EXCEPT !.state = s, !.age = 0, !.dibDevice = NoDevice,
                                 !.dibLeft = 0]
<1>1. /\ lease[l] \in LeaseRows /\ lease' = [lease EXCEPT ![l] = q] /\ work' = work
      /\ lease[l].state \in {"dibbed", "blocked"} \cup Staleable
  BY DEF Recover, Stale, IInv, CInv, TypeOK
<1>2. s \in {"running", "awaiting_review"}
  OBVIOUS
<1> HIDE DEF s
<1>3. q.device = lease[l].device /\ q.state = s /\ q.reviewed = lease[l].reviewed
  BY <1>1 DEF LeaseRows
<1>4. StageOf(q) = StageOf(lease[l])
  BY <1>1, <1>2, <1>3 DEF StageOf, Staleable
<1> HIDE DEF q
<1> QED BY <1>1, <1>3, <1>4, RowSame
-----------------------------------------------------------------------------
(* Steps along the stages *)

LEMMA AcceptLook ==
  ASSUME IInv, NEW l \in Leases, Accept(l)
  PROVE  Implements
<1> DEFINE w == lease[l].work
           q == [lease[l] EXCEPT !.state = "running", !.age = 0]
<1>1. /\ lease[l] \in LeaseRows /\ lease' = [lease EXCEPT ![l] = q] /\ work' = work
      /\ lease[l].state = "offered" /\ RowOK(lease[l])
  BY DEF Accept, IInv, CInv, TypeOK, Safe, RowsOK
<1>2. q.device = lease[l].device /\ q.state = "running" /\ q.reviewed = lease[l].reviewed
  BY <1>1 DEF LeaseRows
<1>3. StageOf(q) = "working" /\ StageOf(lease[l]) = "offered"
  BY <1>1, <1>2 DEF StageOf, RowOK
<1>4. lease[l].state \in Active
  BY <1>1 DEF Active
<1> HIDE DEF q, w
<1>5. w = lease[l].work
  BY DEF w
<1>6. /\ w \in Works /\ IssueOf(w).stage = "offered"
      /\ OnlyLook(w, LookWith(w, "working", IssueOf(w).holders, work'[w].checkpoint))
  BY <1>1, <1>2, <1>3, <1>4, <1>5, RowLook
<1>7. work'[w].checkpoint = IssueOf(w).handoff
  BY <1>1 DEF IssueOf
<1> QED BY <1>6, <1>7, AcceptStep

LEMMA CheckpointLook ==
  ASSUME IInv, NEW l \in Leases, NEW v \in Versions, Checkpoint(l, v)
  PROVE  Implements
<1> DEFINE w == lease[l].work
           q == [lease[l] EXCEPT !.sha = v, !.age = 0]
<1>1. /\ lease[l] \in LeaseRows /\ lease' = [lease EXCEPT ![l] = q]
      /\ work' = [work EXCEPT ![w].checkpoint = <<l, v>>]
      /\ lease[l].state = "running" /\ RowOK(lease[l])
  BY DEF Checkpoint, Fence, IInv, CInv, TypeOK, Safe, RowsOK
<1>2. q.device = lease[l].device /\ q.state = "running" /\ q.reviewed = lease[l].reviewed
  BY <1>1 DEF LeaseRows
<1>3. StageOf(q) = "working" /\ StageOf(lease[l]) = "working"
  BY <1>1, <1>2 DEF StageOf, RowOK
<1>4. lease[l].state \in Active /\ w \in Works
  BY <1>1 DEF Active, IInv, CInv, Safe, Born
<1> HIDE DEF q, w
<1>5. w = lease[l].work
  BY DEF w
<1>6. /\ work'[w].checkpoint = <<l, v>>
      /\ \A x \in Works :
           /\ work'[x].active = work[x].active /\ work'[x].generation = work[x].generation
           /\ x # w => work'[x].checkpoint = work[x].checkpoint
  BY <1>1, <1>4 DEF IInv, CInv, TypeOK, WorkRows
<1>7. /\ IssueOf(w).stage = "working"
      /\ OnlyLook(w, LookWith(w, "working", IssueOf(w).holders, work'[w].checkpoint))
  BY <1>1, <1>2, <1>3, <1>4, <1>5, <1>6, RowLook
<1> QED BY <1>4, <1>6, <1>7, LeaseCommits, SaveStep

LEMMA CompleteLook ==
  ASSUME IInv, NEW l \in Leases, NEW v \in Versions, NEW usage \in Usages,
         Complete(l, v, usage)
  PROVE  Implements
<1> DEFINE w == lease[l].work
           q == [lease[l] EXCEPT !.sha = v, !.usage = usage, !.reviewed = TRUE,
                   !.approved = NoVersion, !.maintainer = NoVersion,
                   !.state = "awaiting_review", !.age = 0, !.settled = TRUE]
<1>1. /\ lease[l] \in LeaseRows /\ lease' = [lease EXCEPT ![l] = q]
      /\ work' = [work EXCEPT ![w].checkpoint = <<l, v>>, ![w].state = "review"]
      /\ lease[l].state = "running" /\ RowOK(lease[l])
  BY DEF Complete, Fence, IInv, CInv, TypeOK, Safe, RowsOK
<1>2. q.device = lease[l].device /\ q.state = "awaiting_review" /\ q.reviewed = TRUE
  BY <1>1 DEF LeaseRows
<1>3. StageOf(q) = "review" /\ StageOf(lease[l]) = "working"
  BY <1>1, <1>2 DEF StageOf, RowOK
<1>4. lease[l].state \in Active /\ w \in Works
  BY <1>1 DEF Active, IInv, CInv, Safe, Born
<1> HIDE DEF q, w
<1>5. w = lease[l].work
  BY DEF w
<1>6. /\ work'[w].checkpoint = <<l, v>>
      /\ \A x \in Works :
           /\ work'[x].active = work[x].active /\ work'[x].generation = work[x].generation
           /\ x # w => work'[x].checkpoint = work[x].checkpoint
  BY <1>1, <1>4 DEF IInv, CInv, TypeOK, WorkRows
<1>7. /\ IssueOf(w).stage = "working"
      /\ OnlyLook(w, LookWith(w, "review", IssueOf(w).holders, work'[w].checkpoint))
  <2>1. lease' = [lease EXCEPT ![l] = q] /\ q.device = lease[l].device
    BY <1>1, <1>2
  <2> QED BY <1>3, <1>4, <1>5, <1>6, <2>1, RowLook
<1> QED BY <1>4, <1>6, <1>7, LeaseCommits, SubmitStep

\* The approval that completes the policy's publishes; another changes no stage.
LEMMA ApproveLook ==
  ASSUME IInv, NEW u \in Users, NEW l \in Leases, NEW v \in Versions, Approve(u, l, v)
  PROVE  Implements
<1> DEFINE r == Approvals(u, l, v)
           w == lease[l].work
<1>1. /\ lease[l] \in LeaseRows /\ lease[l].state = "awaiting_review"
      /\ RowOK(lease[l]) /\ lease[l].state \in Active
  BY DEF Approve, IInv, CInv, TypeOK, Safe, RowsOK, Active
<1>2. lease[l].reviewed /\ StageOf(lease[l]) = "review" /\ w \in Works
  BY <1>1 DEF RowOK, StageOf, IInv, CInv, Safe, Born, Active
<1>3. /\ r \in [DOMAIN lease[l] -> UNION {{r[f]} : f \in DOMAIN lease[l]}]
      /\ r.device = lease[l].device /\ r.reviewed = lease[l].reviewed
      /\ r.state = lease[l].state
  BY <1>1 DEF Approvals, LeaseRows
<1>4. CASE FullyApproved(r)
  <2> DEFINE q == [r EXCEPT !.state = "publishing"]
  <2>1. lease' = [lease EXCEPT ![l] = q] /\ work' = [work EXCEPT ![w].state = "publishing"]
    BY <1>4 DEF Approve
  <2>2. q.device = lease[l].device /\ q.state = "publishing"
    BY <1>1, <1>3 DEF Approvals, LeaseRows
  <2>3. StageOf(q) = "publishing"
    BY <2>2 DEF StageOf
  <2> HIDE DEF q, w
  <2>4. w = lease[l].work
    BY DEF w
  <2>5. \A x \in Works :
          /\ work'[x].active = work[x].active /\ work'[x].generation = work[x].generation
          /\ work'[x].checkpoint = work[x].checkpoint
    BY <2>1 DEF IInv, CInv, TypeOK, WorkRows
  <2>6. /\ IssueOf(w).stage = "review"
        /\ OnlyLook(w, LookWith(w, "publishing", IssueOf(w).holders, work'[w].checkpoint))
    BY <1>1, <1>2, <2>1, <2>2, <2>3, <2>4, <2>5, RowLook
  <2>7. work'[w].checkpoint = IssueOf(w).handoff
    BY <1>2, <2>5 DEF IssueOf
  <2> QED BY <1>2, <2>6, <2>7, PublishStep
<1>5. CASE ~FullyApproved(r)
  <2>1. lease' = [lease EXCEPT ![l] = r] /\ work' = work
    BY <1>5 DEF Approve
  <2>2. StageOf(r) = StageOf(lease[l])
    BY <1>3 DEF StageOf
  <2> HIDE DEF r
  <2> QED BY <1>3, <2>1, <2>2, RowSame
<1> QED BY <1>4, <1>5

\* An issue that is closed, excluded or edited is freed; another keeps its look.
LEMMA IngestLook ==
  ASSUME IInv, NEW w \in Works, NEW e \in IssueEvents, Ingest(w, e)
  PROVE  Implements
<1> DEFINE l == work[w].active
           cancels == l # NoLease /\ (e.changed \/ Withdrawn(e))
           s == IngestedState(work[w].state, e)
           a == IF cancels THEN NoLease ELSE work[w].active
<1>1. work' = [work EXCEPT ![w].state = s, ![w].labels = e.labels, ![w].active = a]
  BY DEF Ingest, IInv, CInv, TypeOK
<1> HIDE DEF s, a
<1>2. /\ work'[w].active = a /\ work'[w].generation = work[w].generation
      /\ work'[w].checkpoint = work[w].checkpoint
      /\ \A x \in Works : x # w => work'[x] = work[x]
  BY <1>1 DEF IInv, CInv, TypeOK, WorkRows
<1>3. CASE cancels
  <2>1. l \in Leases /\ lease[l].state \in Active /\ lease[l].work = w
    BY <1>3 DEF IInv, CInv, TypeOK, WorkRows, Safe, PointerKnown, Strict, PointerIsLive, Endable
  <2>2. EndLease(l, "cancelled")
    BY <1>3 DEF Ingest
  <2>3. \A k \in Leases : k # l => lease'[k] = lease[k]
    BY <2>2 DEF EndLease, IInv, CInv, TypeOK
  <2>4. a = NoLease
    BY <1>3 DEF a
  <2> HIDE DEF l
  <2> QED BY <1>2, <2>1, <2>3, <2>4, EndLook
<1>4. CASE ~cancels
  <2>1. lease' = lease
    BY <1>4 DEF Ingest
  <2>2. a = work[w].active
    BY <1>4 DEF a
  <2> QED BY <1>2, <2>1, <2>2, SameLook
<1> QED BY <1>3, <1>4
-----------------------------------------------------------------------------
(* All steps *)

\* The rest of a transaction: releases, and perhaps one allocation.
LEMMA OpenTransactionLook ==
  ASSUME IInv, OpenTransaction
  PROVE  Implements
<1>1. ASSUME NEW l \in Leases, SweepOffer(l) \/ SweepHandover(l) \/ CancelNext(l)
      PROVE  Implements
  <2>1. lease[l].state # "none"
    BY <1>1 DEF SweepOffer, SweepHandover, CancelNext, OfferExpired, RecoveryExpired,
                IInv, CInv, TxnOK, Endable
  <2>2. \/ Release(l, "released", TRUE)
        \/ Release(l, "reassigned", TRUE)
        \/ Release(l, "cancelled", FALSE)
    BY <1>1 DEF SweepOffer, SweepHandover, CancelNext
  <2> QED BY <2>1, <2>2, ReleaseLook
<1>2. ASSUME NEW d \in Devices, TakeOldest(d) PROVE Implements
  BY <1>2, AllocateLook DEF TakeOldest
<1>3. CASE UNCHANGED workVars
  BY <1>3, RowsStay DEF workVars
<1>4. CASE AllocateHandover
  <2>1. txn.device \in Devices /\ txn.work \in Works
    BY <1>4 DEF AllocateHandover, IInv, CInv, TxnOK
  <2> QED BY <1>3, <1>4, <2>1, AllocateLook DEF AllocateHandover
<1>5. CASE EndSweep
  BY <1>5, RowsStay DEF EndSweep
<1>6. CASE PollGoesOn
  <2>1. txn.device \in Devices
    BY <1>6 DEF PollGoesOn, IInv, CInv, TxnOK
  <2> QED BY <1>2, <1>3, <1>6, <2>1 DEF PollGoesOn
<1> QED BY <1>1, <1>4, <1>5, <1>6 DEF OpenTransaction

LEMMA GovernanceLook ==
  ASSUME IInv, Governance
  PROVE  Implements
<1>1. ASSUME NEW u, NEW enabled, Watch(u, enabled) PROVE Implements
  BY <1>1, RowsStay DEF Watch, workVars
<1>2. ASSUME NEW a \in Users, NEW u \in Users, NEW setting \in MemberSettings,
             UpdateMember(a, u, setting)
      PROVE  Implements
  <2>1. CASE UNCHANGED <<work, lease, ledger, submission>>
    BY <2>1, RowsStay
  <2>2. CASE \E l \in HeldBy(u) : Release(l, "cancelled", TRUE)
    BY <2>2, ReleaseLook DEF HeldBy, Active
  <2> QED BY <1>2, <2>1, <2>2 DEF UpdateMember
<1>3. ASSUME NEW u, NEW policy, NEW budget, NEW active,
             UpdateProject(u, policy, budget, active)
      PROVE  Implements
  BY <1>3, RowsStay DEF UpdateProject
<1>4. CASE RevokeInstallation
  BY <1>4, RowsStay DEF RevokeInstallation
<1> QED BY <1>1, <1>2, <1>3, <1>4 DEF Governance

LEMMA DeviceLook ==
  ASSUME IInv, NEW d \in Devices, DeviceStep(d)
  PROVE  Implements
<1>1. CASE PollAllocates(d)
  BY <1>1, AllocateLook DEF PollAllocates, TakeOldest
<1>2. CASE PollReclaims(d)
  BY <1>2, ReleaseLook DEF PollReclaims, Orphaned, HeldBy
<1>3. CASE CreateDevice(d)
  BY <1>3, RowsStay DEF CreateDevice, workVars
<1>4. CASE RevokeDevice(d)
  <2>1. CASE UNCHANGED <<work, lease, ledger, submission>>
    BY <2>1, RowsStay
  <2>2. CASE \E l \in Leases : lease[l].state \in Active /\ Release(l, "cancelled", TRUE)
    BY <2>2, ReleaseLook DEF Active
  <2> QED BY <1>4, <2>1, <2>2 DEF RevokeDevice
<1> QED BY <1>1, <1>2, <1>3, <1>4, ToggleLook DEF DeviceStep

\* Every step of the coordinator is a step of the allocation, or none.
LEMMA NextImplements == IInv /\ [Next]_vars => Implements
<1> SUFFICES ASSUME IInv, [Next]_vars PROVE Implements
  OBVIOUS
<1>1. CASE Sweep
  BY <1>1, RowsStay DEF Sweep, workVars
<1>2. ASSUME NEW l \in Leases, WorkerStep(l) PROVE Implements
  BY <1>2, HeartbeatLook, HeartbeatWithUsageLook, CheckpointLook, CompleteLook, BlockLook
     DEF WorkerStep
<1>3. ASSUME NEW l \in Leases, HumanStep(l) PROVE Implements
  <2>1. CASE Deny(l)
    BY <2>1, ReleaseLook DEF Deny, Active
  <2> QED BY <1>3, <2>1, AcceptLook, RecoverLook, DibLook, ApproveLook DEF HumanStep
<1>4. ASSUME NEW w \in Works, IssueStep(w) PROVE Implements
  BY <1>4, ValidateLook, IngestLook DEF IssueStep
<1>5. CASE UNCHANGED vars
  BY <1>5, RowsStay DEF vars
<1> QED BY <1>1, <1>2, <1>3, <1>4, <1>5, TickLook, OpenTransactionLook, GovernanceLook,
           DeviceLook DEF Next

\* The empty tables are free issues.
LEMMA InitImplements == Init => Abstract!Init
BY DEF Init, Abstract!Init, Abstract!Free, IssueOf, NoLease

\* The coordinator keeps the promise of Allocation, whatever the users, devices,
\* policies, issue events and reports: no issue is ever taken up from under its
\* holder, skips or repeats a stage, or is handed on without a new turn.
THEOREM Refinement == Spec => ImplementsAllocation
<1>1. Implements => [Abstract!Next]_([w \in Works |-> IssueOf(w)])
  BY DEF Implements, Issues
<1> QED BY Invariance, InitImplements, NextImplements, <1>1, PTL
        DEF Spec, ImplementsAllocation, Abstract!Spec
=============================================================================
