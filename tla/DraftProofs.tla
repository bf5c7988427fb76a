---------------------------- MODULE DraftProofs ----------------------------
(***************************************************************************)
(* Proofs about DraftGeneration, for any number of overlapping runs, any   *)
(* building and any changes of the billing data.                           *)
(***************************************************************************)
EXTENDS DraftGeneration, TLAPS

\* A step of run r leaves every other run as it was.
LEMMA OtherRuns ==
    ASSUME NEW r \in Runs, NEW s \in Runs \ {r}, Orderly(s), Covered(s),
           data \in Versions, run[s].tariffs \in Versions,
           run'[s] = run[s], data' = data, changeLog' \subseteq changeLog \cup {r},
           \A u : OnRecord(s, u)' <=> OnRecord(s, u)
    PROVE  Orderly(s)' /\ Covered(s)'
<1>1. Orderly(s)' BY DEF Orderly
<1>2. Begun(s)' <=> Begun(s) BY DEF Begun
<1>3. ToRecord(s)' = ToRecord(s) BY DEF ToRecord
<1>4. Covered(s)' BY <1>2, <1>3 DEF Covered
<1> QED BY <1>1, <1>4

\* A step of run r that records nothing and leaves its meters and the units it has
\* still to record alone keeps what is on record.
LEMMA NothingRecorded ==
    ASSUME NEW r \in Runs, Covered(r), UNCHANGED snapshots,
           run'[r].meters = run[r].meters, Begun(r), Begun(r)',
           \A u \in Units : u \in ToRecord(r)' <=> u \in ToRecord(r),
           NoUnit \notin Units, UnitsOf(run[r].meters) \subseteq Units,
           ToRecord(r)' \subseteq Units \cup {NoUnit},
           \A s \in snapshots : s.draft.unit \in Units
    PROVE  Covered(r)'
<1>1. \A u : OnRecord(r, u)' <=> OnRecord(r, u) BY DEF OnRecord
<1>2. ~OnRecord(r, NoUnit) BY DEF OnRecord
<1>3. run'[r].pc \notin {"posted", "delete"} BY DEF Begun, Stages
<1> QED BY <1>1, <1>2, <1>3 DEF Covered

\* Recorded units are units.
LEMMA RecordType ==
    ASSUME TypeOK
    PROVE  /\ \A s \in snapshots : /\ s.draft \in Draft /\ s.linked \in BOOLEAN
                                   /\ s.draft.unit \in Units /\ s.draft.run \in Runs
           /\ \A d \in drafts : d.unit \in Units /\ d.run \in Runs
           /\ \A r \in Runs : UnitsOf(run[r].meters) \subseteq Units
           /\ \A r \in Runs : run[r] \in Run
<1>1. \A s \in Snapshot : s.draft \in Draft /\ s.linked \in BOOLEAN BY DEF Snapshot
<1>2. \A d \in Draft : d.unit \in Units /\ d.run \in Runs BY DEF Draft
<1>3. \A x \in Run : x.meters \subseteq Meters BY DEF Run
<1>4. \A r \in Runs : run[r] \in Run BY DEF TypeOK
<1>5. \A ms \in SUBSET Meters : UnitsOf(ms) \subseteq Units BY DEF UnitsOf, Units
<1>6. drafts \subseteq Draft /\ snapshots \subseteq Snapshot BY DEF TypeOK
<1> QED BY <1>1, <1>2, <1>3, <1>4, <1>5, <1>6

\* The fields of a run's record.
LEMMA RunType ==
    ASSUME NEW x \in Run
    PROVE  /\ x.pc \in Stages /\ x.meters \in SUBSET Meters /\ x.tariffs \in Versions
           /\ x.left \in SUBSET Meters /\ x.unit \in Units \cup {NoUnit}
           /\ x.basis \in SUBSET Versions
BY DEF Run

\* A run's record with its progress replaced (the shape of Compute's step).
Updated(x, pc, left, unit, basis) ==
    [x EXCEPT !.pc = pc, !.left = left, !.unit = unit, !.basis = basis]
\* The fields of such a record.
LEMMA RunUpdate ==
    ASSUME NEW x \in Run, NEW pc \in Stages, NEW left \in SUBSET Meters,
           NEW unit \in Units \cup {NoUnit}, NEW basis \in SUBSET Versions
    PROVE  LET y == Updated(x, pc, left, unit, basis) IN
           /\ y \in Run /\ y.pc = pc /\ y.left = left /\ y.unit = unit /\ y.basis = basis
           /\ y.meters = x.meters /\ y.tariffs = x.tariffs
BY RunType DEF Run, Updated

\* ... and of the record whose stage alone changes.
LEMMA PcUpdate ==
    ASSUME NEW x \in Run, NEW pc \in Stages, NEW y, y = [x EXCEPT !.pc = pc]
    PROVE  /\ y \in Run /\ y.pc = pc /\ y.left = x.left /\ y.unit = x.unit
           /\ y.basis = x.basis /\ y.meters = x.meters /\ y.tariffs = x.tariffs
BY RunType DEF Run

\* Run r, and only it, moves on between its deletion and its end.
Moves(r) ==
    /\ Active(r)
    /\ run' \in [Runs -> Run]
    /\ \A s \in Runs \ {r} : run'[s] = run[s]
    /\ run'[r].meters = run[r].meters /\ run'[r].tariffs = run[r].tariffs
    /\ Begun(r)' => Begun(r)
    /\ UNCHANGED <<data, meters, history>>
    /\ drafts \subseteq drafts'
    /\ changeLog' \subseteq changeLog \cup {r}

\* A lone run stays alone as it moves, and what it drafts is its own.
LEMMA LoneMoves ==
    ASSUME IInv, NEW r \in Runs, Moves(r),
           \A d \in drafts' \ drafts : /\ d.run = r /\ d.unit \in UnitsOf(run[r].meters)
                                       /\ \A v \in d.basis : v >= run[r].tariffs
    PROVE  LoneRunIsAlone'
<1> DEFINE l == history.latest
<1> SUFFICES ASSUME l \in history.alone
             PROVE  /\ \A s \in Runs \ {l} : ~Active(s)'
                    /\ Begun(l)' =>
                         /\ history.cleared = l
                         /\ \A d \in drafts' : /\ d.run = l /\ d.unit \in UnitsOf(run'[l].meters)
                                              /\ \A v \in d.basis : v >= run'[l].tariffs
  BY DEF LoneRunIsAlone, Moves
<1>1. l \in Runs BY DEF IInv, TypeOK
<1>2. /\ \A s \in Runs \ {l} : ~Active(s)
      /\ Begun(l) =>
             /\ history.cleared = l
             /\ \A d \in drafts : /\ d.run = l /\ d.unit \in UnitsOf(run[l].meters)
                                 /\ \A v \in d.basis : v >= run[l].tariffs
  BY DEF IInv, LoneRunIsAlone
<1>3. l = r BY <1>1, <1>2 DEF Moves
<1>4. \A s \in Runs \ {l} : ~Active(s)' BY <1>2, <1>3 DEF Moves, Active
<1>5. Begun(l)' =>
         /\ history.cleared = l
         /\ \A d \in drafts' : /\ d.run = l /\ d.unit \in UnitsOf(run'[l].meters)
                              /\ \A v \in d.basis : v >= run'[l].tariffs
  BY <1>2, <1>3 DEF Moves
<1> QED BY <1>4, <1>5

\* The units of the run that cleared the drafts stay drafted as runs move.
LEMMA CoverMoves ==
    ASSUME IInv, NEW r \in Runs, Moves(r),
           Begun(r)' => \A u \in UnitsOf(run[r].meters) \ ToDraft(r)' :
               u \in ToDraft(r) => \E d \in drafts' : d.unit = u
    PROVE  DraftsCover'
<1> DEFINE c == history.cleared
<1> SUFFICES ASSUME c # NoRun, Begun(c)', NEW u \in UnitsOf(run'[c].meters) \ ToDraft(c)'
             PROVE  \E d \in drafts' : d.unit = u
  BY DEF DraftsCover, Moves
<1>1. c \in Runs BY DEF IInv, TypeOK
<1>2. Begun(c) => \A w \in UnitsOf(run[c].meters) \ ToDraft(c) : \E d \in drafts : d.unit = w
  BY DEF IInv, DraftsCover
<1>3. CASE c = r BY <1>2, <1>3 DEF Moves
<1>4. CASE c # r
  <2>1. run'[c] = run[c] BY <1>1, <1>4 DEF Moves
  <2>2. Begun(c) /\ ToDraft(c)' = ToDraft(c) BY <2>1 DEF Moves, Begun, ToDraft
  <2> QED BY <1>2, <2>1, <2>2 DEF Moves
<1> QED BY <1>3, <1>4

\* What is said of each other run stays as long as nothing is recorded for it.
LEMMA OthersKeep ==
    ASSUME IInv, NEW r \in Runs, \A s \in Runs \ {r} : run'[s] = run[s],
           data' = data, changeLog' \subseteq changeLog \cup {r},
           \A s \in Runs \ {r} : \A u : OnRecord(s, u)' <=> OnRecord(s, u),
           Orderly(r)', Covered(r)'
    PROVE  RunsHold'
<1>1. \A s \in Runs \ {r} : Orderly(s)' /\ Covered(s)'
  <2> TAKE s \in Runs \ {r}
  <2>1. data \in Versions /\ run[s].tariffs \in Versions BY RecordType, RunType DEF IInv, TypeOK
  <2>2. Orderly(s) /\ Covered(s) BY DEF IInv, RunsHold
  <2> QED BY <2>1, <2>2, OtherRuns
<1> QED BY <1>1 DEF RunsHold

\* So, for a run that moves, it remains to look at the run itself, the types and the
\* snapshots.
LEMMA MovesKeep ==
    ASSUME IInv, NEW r \in Runs, Moves(r),
           \A d \in drafts' \ drafts : /\ d.run = r /\ d.unit \in UnitsOf(run[r].meters)
                                       /\ \A v \in d.basis : v >= run[r].tariffs,
           Begun(r)' => \A u \in UnitsOf(run[r].meters) \ ToDraft(r)' :
               u \in ToDraft(r) => \E d \in drafts' : d.unit = u,
           \A s \in Runs \ {r} : \A u : OnRecord(s, u)' <=> OnRecord(s, u),
           Orderly(r)', Covered(r)', SnapshotMatchesDraft',
           drafts' \subseteq Draft, snapshots' \subseteq Snapshot
    PROVE  IInv'
<1>2. RunsHold' BY OthersKeep DEF Moves
<1>3. TypeOK' BY DEF IInv, TypeOK, Moves
<1> QED BY <1>2, <1>3, LoneMoves, CoverMoves DEF IInv

\* The initial state satisfies the invariant.
LEMMA InitHolds == Init => IInv
<1> SUFFICES ASSUME Init PROVE IInv OBVIOUS
<1>1. 0 \in Versions BY DraftAssumption DEF Versions
<1>2. /\ Posted \in Run /\ Posted.pc = "posted" /\ Posted.left = {} /\ Posted.meters = {}
      /\ Posted.unit = NoUnit /\ Posted.tariffs = 0 /\ Posted.basis = {}
  BY <1>1 DEF Posted, Run, Stages
<1>3. TypeOK BY <1>1, <1>2, DraftAssumption DEF Init, TypeOK
<1>4. \A r \in Runs : Orderly(r) BY <1>2 DEF Init, Orderly
<1>5. \A r \in Runs : ~Begun(r) BY <1>2 DEF Init, Begun
<1>6. \A r \in Runs : Covered(r) BY <1>5 DEF Init, Covered, OnRecord
<1>7. DraftsCover BY DEF Init, DraftsCover
<1>8. LoneRunIsAlone BY DraftAssumption DEF Init, LoneRunIsAlone
<1>9. SnapshotMatchesDraft BY DEF Init, SnapshotMatchesDraft
<1> QED BY <1>3, <1>4, <1>6, <1>7, <1>8, <1>9 DEF IInv, RunsHold

\* What the invariant says of a run that is about to move.
LEMMA RunFacts ==
    ASSUME IInv, NEW r \in Runs
    PROVE  /\ TypeOK /\ run \in [Runs -> Run] /\ run[r] \in Run
           /\ Orderly(r) /\ Covered(r)
           /\ run[r].pc \in Stages /\ run[r].meters \in SUBSET Meters
           /\ run[r].tariffs \in Versions /\ run[r].left \in SUBSET Meters
           /\ run[r].unit \in Units \cup {NoUnit} /\ run[r].basis \in SUBSET Versions
           /\ data \in Versions /\ NoUnit \notin Units
<1>1. TypeOK /\ run \in [Runs -> Run] /\ run[r] \in Run BY DEF IInv, TypeOK
<1>2. Orderly(r) /\ Covered(r) BY DEF IInv, RunsHold
<1>3. data \in Versions BY <1>1 DEF TypeOK
<1> QED BY <1>1, <1>2, <1>3, RunType, DraftAssumption

\* The meter computed belongs to the group's unit: no unit leaves what is to be done.
LEMMA ComputeKeeps ==
    ASSUME IInv, NEW r \in Runs, Compute(r)
    PROVE  IInv'
<1>1. PICK m \in run[r].left :
         LET left == run[r].left \ {m} IN
         /\ InGroup(r, m)
         /\ run' = [run EXCEPT ![r].left = left, ![r].unit = Unit[m],
                ![r].basis = @ \cup {data},
                ![r].pc = IF \E n \in left : Unit[n] = Unit[m] THEN "compute" ELSE "draft"]
  BY DEF Compute
<1> DEFINE left == run[r].left \ {m}
           pc == IF \E n \in left : Unit[n] = Unit[m] THEN "compute" ELSE "draft"
           basis == run[r].basis \cup {data}
<1>2. run[r].pc = "compute" /\ UNCHANGED <<data, meters, drafts, snapshots, changeLog, history>>
  BY DEF Compute
<1>3. /\ TypeOK /\ run \in [Runs -> Run] /\ run[r] \in Run
      /\ Orderly(r) /\ Covered(r)
      /\ run[r].meters \in SUBSET Meters /\ run[r].tariffs \in Versions
      /\ run[r].left \in SUBSET Meters
      /\ run[r].unit \in Units \cup {NoUnit} /\ run[r].basis \in SUBSET Versions
      /\ data \in Versions /\ NoUnit \notin Units
  BY RunFacts
<1>4. /\ m \in Meters /\ Unit[m] \in Units /\ left \in SUBSET Meters
      /\ basis \in SUBSET Versions /\ pc \in Stages /\ pc \in {"compute", "draft"}
  BY <1>1, <1>3 DEF Units, Stages
<1>22. /\ run[r].pc \in Stages /\ DOMAIN run = Runs BY <1>3, RunType
<1>5. run'[r] = Updated(run[r], pc, left, Unit[m], basis)
  BY <1>1, <1>3 DEF Run, Updated
<1>6. \A s \in Runs \ {r} : run'[s] = run[s] BY <1>1, <1>3
<1>23. pc = "draft" => Unit[m] \notin UnitsOf(left) BY DEF UnitsOf
<1> HIDE DEF left, basis, pc
<1>7. /\ run'[r] \in Run /\ run'[r].pc = pc /\ run'[r].left = left
      /\ run'[r].unit = Unit[m] /\ run'[r].basis = basis
      /\ run'[r].meters = run[r].meters /\ run'[r].tariffs = run[r].tariffs
  BY <1>3, <1>4, <1>5, RunUpdate
<1>8. run' \in [Runs -> Run] BY <1>1, <1>3, <1>6, <1>7
<1>9. Begun(r) /\ Begun(r)' /\ Active(r) BY <1>2, <1>4, <1>7 DEF Begun, Stages, Active, Ended
<1>10. Moves(r) BY <1>2, <1>6, <1>7, <1>8, <1>9 DEF Moves
<1>11. Orderly(r)'
  <2>1. left \subseteq run[r].meters BY <1>3 DEF left, Orderly
  <2>2. \A v \in basis : v >= run[r].tariffs BY <1>3 DEF basis, Orderly
  <2>3. Unit[m] \in UnitsOf(run[r].meters) BY <1>1, <1>3 DEF Orderly, UnitsOf
  <2>5. r \notin changeLog BY <1>2, <1>3 DEF Orderly
  <2>6. run[r].tariffs <= data BY <1>3 DEF Orderly
  <2> QED BY <1>2, <1>3, <1>4, <1>7, <1>23, <2>1, <2>2, <2>3, <2>5, <2>6 DEF Orderly
<1>12. UnitsOf(run[r].left) = UnitsOf(left) \cup {Unit[m]} BY <1>1 DEF left, UnitsOf
<1>13. \A u \in Units : u \in UnitsOf(run[r].left) \cup {run[r].unit}
                           <=> u \in UnitsOf(left) \cup {Unit[m]}
  BY <1>1, <1>3, <1>12 DEF InGroup
<1>14. ToRecord(r) = UnitsOf(run[r].left) \cup {run[r].unit} /\ ToDraft(r) = ToRecord(r)
  BY <1>2 DEF ToRecord, ToDraft
<1>15. ToRecord(r)' = UnitsOf(left) \cup {Unit[m]} /\ ToDraft(r)' = ToRecord(r)'
  BY <1>4, <1>7 DEF ToRecord, ToDraft
<1>16. UnitsOf(run[r].meters) \subseteq Units /\ UnitsOf(left) \subseteq Units
       /\ \A s \in snapshots : s.draft.unit \in Units
  BY <1>3, <1>4, RecordType DEF UnitsOf, Units
<1>17. Covered(r)'
  BY <1>2, <1>3, <1>4, <1>7, <1>9, <1>13, <1>14, <1>15, <1>16, NothingRecorded
<1>18. \A u \in UnitsOf(run[r].meters) \ ToDraft(r)' : u \notin ToDraft(r)
  BY <1>13, <1>14, <1>15, <1>16
<1>19. \A s \in Runs \ {r} : \A u : OnRecord(s, u)' <=> OnRecord(s, u) BY <1>2 DEF OnRecord
<1>20. SnapshotMatchesDraft' BY <1>2 DEF IInv, SnapshotMatchesDraft
<1>21. drafts' \subseteq Draft /\ snapshots' \subseteq Snapshot BY <1>2, <1>3 DEF TypeOK
<1> QED BY <1>2, <1>10, <1>11, <1>17, <1>18, <1>19, <1>20, <1>21, MovesKeep

\* The group's unit is drafted: the new draft has it.
LEMMA CreateDraftKeeps ==
    ASSUME IInv, NEW r \in Runs, CreateDraft(r)
    PROVE  IInv'
<1>1. /\ run[r].pc = "draft" /\ drafts' = drafts \cup {DraftOf(r)}
      /\ run' = [run EXCEPT ![r].pc = "snapshot"]
      /\ UNCHANGED <<data, meters, snapshots, changeLog, history>>
  BY DEF CreateDraft
<1>2. /\ TypeOK /\ run \in [Runs -> Run] /\ run[r] \in Run
      /\ Orderly(r) /\ Covered(r)
      /\ run[r].unit \in Units \cup {NoUnit} /\ run[r].basis \in SUBSET Versions
      /\ NoUnit \notin Units
  BY RunFacts
<1>3. "snapshot" \in Stages /\ run'[r] = [run[r] EXCEPT !.pc = "snapshot"]
  BY <1>1, <1>2 DEF Stages
<1>4. /\ run'[r] \in Run /\ run'[r].pc = "snapshot" /\ run'[r].left = run[r].left
      /\ run'[r].unit = run[r].unit /\ run'[r].basis = run[r].basis
      /\ run'[r].meters = run[r].meters /\ run'[r].tariffs = run[r].tariffs
  BY <1>2, <1>3, PcUpdate
<1>5. Begun(r) /\ Begun(r)' /\ Active(r) BY <1>1, <1>4 DEF Begun, Stages, Active, Ended
<1>6. Moves(r) BY <1>1, <1>2, <1>4, <1>5 DEF Moves
<1>7. Orderly(r)' BY <1>1, <1>2, <1>4 DEF Orderly
<1>8. run[r].unit \in UnitsOf(run[r].meters) /\ run[r].unit \in Units
  BY <1>1, <1>2 DEF Orderly
<1>9. DraftOf(r) \in Draft /\ DraftOf(r).run = r /\ DraftOf(r).unit = run[r].unit
      /\ DraftOf(r).basis = run[r].basis
  BY <1>2, <1>8 DEF DraftOf, Draft
<1>10. ToRecord(r)' = ToRecord(r) BY <1>1, <1>4 DEF ToRecord
<1>11. \A u \in ToDraft(r) \ ToDraft(r)' : u = run[r].unit BY <1>1, <1>4 DEF ToDraft
<1>12. \A u : \A s \in Runs : OnRecord(s, u)' <=> OnRecord(s, u) BY <1>1 DEF OnRecord
<1>13. Covered(r)' BY <1>2, <1>4, <1>5, <1>10, <1>12 DEF Covered
<1>14. SnapshotMatchesDraft' BY <1>1 DEF IInv, SnapshotMatchesDraft
<1>15. drafts' \subseteq Draft /\ snapshots' \subseteq Snapshot BY <1>1, <1>2, <1>9 DEF TypeOK
<1>16. \A d \in drafts' \ drafts : /\ d.run = r /\ d.unit \in UnitsOf(run[r].meters)
                                  /\ \A v \in d.basis : v >= run[r].tariffs
  BY <1>1, <1>2, <1>8, <1>9 DEF Orderly
<1>17. \A u \in UnitsOf(run[r].meters) \ ToDraft(r)' :
         u \in ToDraft(r) => \E d \in drafts' : d.unit = u
  BY <1>1, <1>9, <1>11
<1> QED BY <1>6, <1>7, <1>12, <1>13, <1>14, <1>15, <1>16, <1>17, MovesKeep

\* The run after a group: its next group, or the logs.
LEMMA AfterGroupType ==
    ASSUME IInv, NEW r \in Runs
    PROVE  LET y == AfterGroup(r) IN
           /\ y \in Run /\ y.pc = (IF run[r].left = {} THEN "audit" ELSE "compute")
           /\ y.left = run[r].left /\ y.unit = NoUnit /\ y.basis = {run[r].tariffs}
           /\ y.meters = run[r].meters /\ y.tariffs = run[r].tariffs
<1>1. run[r] \in Run /\ run[r].tariffs \in Versions BY RunFacts
<1> DEFINE x == NextGroup(r)
<1>2. x = [run[r] EXCEPT !.pc = "compute", !.unit = NoUnit, !.basis = {run[r].tariffs}]
  BY DEF NextGroup
<1>3. /\ x \in Run /\ x.pc = "compute" /\ x.left = run[r].left /\ x.unit = NoUnit
      /\ x.basis = {run[r].tariffs} /\ x.meters = run[r].meters
      /\ x.tariffs = run[r].tariffs
  <2>1. "compute" \in Stages /\ {run[r].tariffs} \in SUBSET Versions
        /\ NoUnit \in Units \cup {NoUnit} /\ run[r].left \in SUBSET Meters
    BY <1>1, RunType DEF Stages
  <2>2. x = Updated(run[r], "compute", run[r].left, NoUnit, {run[r].tariffs})
    BY <1>1, <1>2 DEF Run, Updated
  <2> HIDE DEF x
  <2> QED BY <1>1, <2>1, <2>2, RunUpdate
<1> HIDE DEF x
<1>4. CASE run[r].left = {}
  <2>1. AfterGroup(r) = [x EXCEPT !.pc = "audit"] BY <1>4 DEF AfterGroup, x
  <2>2. "audit" \in Stages BY DEF Stages
  <2> QED BY <1>3, <1>4, <2>1, <2>2, PcUpdate
<1>5. CASE run[r].left # {}
  <2>1. AfterGroup(r) = x BY <1>5 DEF AfterGroup, x
  <2> QED BY <1>3, <1>5, <2>1
<1> QED BY <1>4, <1>5

\* The snapshot of a group whose draft is there: the unit goes from what is to be
\* recorded to the record, where it was not yet.
LEMMA SnapshotStored ==
    ASSUME IInv, NEW r \in Runs, CreateSnapshot(r), DraftOf(r) \in drafts
    PROVE  IInv'
<1> DEFINE new == [draft |-> DraftOf(r), linked |-> TRUE]
           unit == run[r].unit
<1>1. /\ run[r].pc = "snapshot" /\ snapshots' = snapshots \cup {new}
      /\ run' = [run EXCEPT ![r] = AfterGroup(r)]
      /\ UNCHANGED <<data, meters, drafts, changeLog, history>>
  BY DEF CreateSnapshot
<1>2. /\ TypeOK /\ run \in [Runs -> Run] /\ run[r] \in Run
      /\ Orderly(r) /\ Covered(r)
      /\ run[r].meters \in SUBSET Meters /\ run[r].tariffs \in Versions
      /\ run[r].left \in SUBSET Meters /\ data \in Versions /\ NoUnit \notin Units
  BY RunFacts
<1>3. /\ run'[r] \in Run
      /\ run'[r].pc = (IF run[r].left = {} THEN "audit" ELSE "compute")
      /\ run'[r].left = run[r].left /\ run'[r].unit = NoUnit
      /\ run'[r].basis = {run[r].tariffs}
      /\ run'[r].meters = run[r].meters /\ run'[r].tariffs = run[r].tariffs
  BY <1>1, <1>2, AfterGroupType
<1>4. Begun(r) /\ Begun(r)' /\ Active(r) BY <1>1, <1>3 DEF Begun, Stages, Active, Ended
<1>5. Moves(r) BY <1>1, <1>2, <1>3, <1>4 DEF Moves
<1>6. Orderly(r)'
  <2>1. run[r].tariffs \in Int BY <1>2 DEF Versions
  <2>2. r \notin changeLog BY <1>1, <1>2 DEF Orderly
  <2> QED BY <1>1, <1>2, <1>3, <2>1, <2>2 DEF Orderly
<1>7. /\ new.draft = DraftOf(r) /\ new.linked = TRUE
      /\ DraftOf(r).run = r /\ DraftOf(r).unit = unit /\ DraftOf(r) \in Draft
      /\ new \in Snapshot
  BY <1>2 DEF DraftOf, Snapshot, TypeOK
<1> HIDE DEF new
<1>8. unit # NoUnit /\ unit \notin UnitsOf(run[r].left) /\ unit \in UnitsOf(run[r].meters)
  BY <1>1, <1>2 DEF Orderly
<1>9. ToRecord(r) = UnitsOf(run[r].left) \cup {unit} /\ ToDraft(r) = UnitsOf(run[r].left)
  BY <1>1 DEF ToRecord, ToDraft
<1>10. /\ UnitsOf(run[r].left) \subseteq ToRecord(r)'
       /\ ToRecord(r)' \subseteq UnitsOf(run[r].left) \cup {NoUnit}
       /\ ToDraft(r) \subseteq ToDraft(r)'
  BY <1>3, <1>9 DEF ToRecord, ToDraft
<1>11. \A u : OnRecord(r, u)' <=> OnRecord(r, u) \/ u = unit BY <1>1, <1>7 DEF OnRecord
<1>12. \A s \in Runs \ {r} : \A u : OnRecord(s, u)' <=> OnRecord(s, u)
  BY <1>1, <1>7 DEF OnRecord
<1>13. ~OnRecord(r, NoUnit) BY <1>2, RecordType DEF OnRecord
<1>14. \A u \in ToRecord(r) : ~OnRecord(r, u) BY <1>2, <1>4 DEF Covered
<1>15. Covered(r)'
  <2>1. \A u \in UnitsOf(run[r].meters) : OnRecord(r, u)' \/ u \in ToRecord(r)'
    BY <1>2, <1>4, <1>9, <1>10, <1>11 DEF Covered
  <2>2. \A u \in ToRecord(r)' : ~OnRecord(r, u)'
    BY <1>8, <1>9, <1>10, <1>11, <1>13, <1>14
  <2> QED BY <1>3, <2>1, <2>2 DEF Covered
<1>16. SnapshotMatchesDraft'
  <2>1. /\ \A s \in snapshots : s.linked => s.draft \in drafts
        /\ \A s, t \in snapshots :
             (s.draft.run = t.draft.run /\ s.draft.unit = t.draft.unit) => s = t
    BY DEF IInv, SnapshotMatchesDraft
  <2>2. \A s \in snapshots : ~(s.draft.run = r /\ s.draft.unit = unit)
    BY <1>9, <1>14 DEF OnRecord
  <2>3. \A s \in snapshots' : s.linked => s.draft \in drafts' BY <1>1, <1>7, <2>1
  <2>4. \A s, t \in snapshots' :
             (s.draft.run = t.draft.run /\ s.draft.unit = t.draft.unit) => s = t
    BY <1>1, <1>7, <2>1, <2>2
  <2> QED BY <2>3, <2>4 DEF SnapshotMatchesDraft
<1>17. drafts' \subseteq Draft /\ snapshots' \subseteq Snapshot /\ drafts' \ drafts = {}
  BY <1>1, <1>2, <1>7 DEF TypeOK
<1> QED BY <1>5, <1>6, <1>10, <1>12, <1>15, <1>16, <1>17, MovesKeep

\* A step of run r that ends it, or takes it to the next log, and stores nothing but
\* the log.
LEMMA EndingKeeps ==
    ASSUME IInv, NEW r \in Runs, NEW pc \in {"log", "done", "failed"},
           run' = [run EXCEPT ![r].pc = pc], Active(r),
           pc # "failed" => run[r].pc \in {"audit", "log"},
           UNCHANGED <<data, meters, drafts, snapshots, history>>,
           changeLog' = changeLog \/ (pc = "done" /\ changeLog' = changeLog \cup {r})
    PROVE  IInv'
<1>1. /\ run \in [Runs -> Run] /\ run[r] \in Run /\ Orderly(r) /\ Covered(r) /\ TypeOK
      /\ NoUnit \notin Units
  BY RunFacts
<1>2. run'[r] = [run[r] EXCEPT !.pc = pc] /\ pc \in Stages BY <1>1 DEF Stages
<1>3. /\ run'[r] \in Run /\ run'[r].pc = pc /\ run'[r].left = run[r].left
      /\ run'[r].unit = run[r].unit /\ run'[r].basis = run[r].basis
      /\ run'[r].meters = run[r].meters /\ run'[r].tariffs = run[r].tariffs
  BY <1>1, <1>2, PcUpdate
<1>4. run[r].pc # "done" BY DEF Active, Ended
<1>5. Begun(r)' => Begun(r) /\ run[r].pc \in {"audit", "log"} BY <1>3 DEF Begun, Stages
<1>6. Moves(r) BY <1>1, <1>3, <1>5 DEF Moves
<1>7. r \notin changeLog BY <1>1, <1>4 DEF Orderly
<1>8. Orderly(r)'
  <2>1. run[r].pc \in {"audit", "log"} => run[r].left = {} BY <1>1 DEF Orderly
  <2> QED BY <1>1, <1>3, <1>7, <2>1 DEF Orderly
<1>9. \A s \in Runs : \A u : OnRecord(s, u)' <=> OnRecord(s, u) BY DEF OnRecord
<1>10. run[r].pc \in {"audit", "log"} =>
          ToRecord(r)' = ToRecord(r) /\ ToDraft(r)' = ToDraft(r)
  BY <1>3 DEF ToRecord, ToDraft
<1>11. Covered(r)' BY <1>1, <1>3, <1>5, <1>9, <1>10 DEF Covered
<1>12. SnapshotMatchesDraft' BY DEF IInv, SnapshotMatchesDraft
<1>13. drafts' \subseteq Draft /\ snapshots' \subseteq Snapshot BY <1>1 DEF TypeOK
<1> QED BY <1>5, <1>6, <1>8, <1>9, <1>10, <1>11, <1>12, <1>13, MovesKeep

\* A run that starts has nothing on record and nothing to cover yet; if another one
\* is active, neither is alone.
LEMMA StartKeeps ==
    ASSUME IInv, NEW r \in Runs, Start(r)
    PROVE  IInv'
<1>1. /\ run[r].pc = "posted" /\ UNCHANGED <<data, meters, drafts, snapshots, changeLog>>
  BY DEF Start
<1>2. /\ TypeOK /\ run \in [Runs -> Run] /\ run[r] \in Run /\ Orderly(r) /\ Covered(r)
      /\ data \in Versions /\ meters \in SUBSET Meters /\ run[r].tariffs \in Versions
  BY RunFacts DEF TypeOK
<1>3. \A s \in Runs : \A u : OnRecord(s, u)' <=> OnRecord(s, u) BY <1>1 DEF OnRecord
<1>4. SnapshotMatchesDraft' BY <1>1 DEF IInv, SnapshotMatchesDraft
<1>5. r \notin changeLog BY <1>1, <1>2 DEF Orderly
<1>6. ~Begun(r) /\ ~Active(r) BY <1>1 DEF Begun, Active
<1>7. ASSUME run' \in [Runs -> Run], \A s \in Runs \ {r} : run'[s] = run[s], ~Begun(r)',
             history'.cleared = history.cleared
      PROVE  DraftsCover'
  <2> DEFINE c == history.cleared
  <2> SUFFICES ASSUME c # NoRun, Begun(c)'
               PROVE  \A u \in UnitsOf(run'[c].meters) \ ToDraft(c)' : \E d \in drafts : d.unit = u
    BY <1>1, <1>7 DEF DraftsCover
  <2>1. c \in Runs /\ c # r BY <1>2, <1>7 DEF TypeOK
  <2>2. run'[c] = run[c] BY <1>7, <2>1
  <2>3. Begun(c) /\ ToDraft(c)' = ToDraft(c) BY <1>7, <2>2 DEF Begun, ToDraft
  <2> QED BY <2>2, <2>3 DEF IInv, DraftsCover
<1>8. CASE meters = {}
  <2>1. run' = [run EXCEPT ![r].pc = "failed"] /\ history' = history BY <1>8 DEF Start
  <2>2. run'[r] = [run[r] EXCEPT !.pc = "failed"] /\ "failed" \in Stages
    BY <1>2, <2>1 DEF Stages
  <2>3. /\ run'[r] \in Run /\ run'[r].pc = "failed" /\ run'[r].left = run[r].left
        /\ run'[r].unit = run[r].unit /\ run'[r].basis = run[r].basis
        /\ run'[r].meters = run[r].meters /\ run'[r].tariffs = run[r].tariffs
    BY <1>2, <2>2, PcUpdate
  <2>4. run' \in [Runs -> Run] /\ \A s \in Runs \ {r} : run'[s] = run[s]
    BY <1>2, <2>1, <2>3
  <2>5. ~Begun(r)' /\ ~Active(r)' BY <2>3 DEF Begun, Active, Ended
  <2>6. Orderly(r)' /\ Covered(r)' BY <1>1, <1>2, <1>5, <2>3, <2>5 DEF Orderly, Covered
  <2>7. RunsHold' BY <1>1, <1>3, <2>4, <2>6, OthersKeep
  <2>8. LoneRunIsAlone'
    <3>1. \A s \in Runs : Active(s)' => Active(s) BY <2>4, <2>5 DEF Active
    <3>2. \A s \in Runs : Begun(s)' => Begun(s) /\ run'[s] = run[s] BY <2>4, <2>5 DEF Begun
    <3>3. history.latest \in history.alone => history.latest \in Runs BY <1>2 DEF TypeOK
    <3> QED BY <1>1, <2>1, <3>1, <3>2, <3>3 DEF IInv, LoneRunIsAlone
  <2>9. TypeOK' BY <1>1, <1>2, <2>1, <2>4 DEF TypeOK
  <2> QED BY <1>4, <1>7, <2>1, <2>4, <2>5, <2>7, <2>8, <2>9 DEF IInv
<1>9. CASE meters # {}
  <2> DEFINE started == [Posted EXCEPT !.pc = "delete", !.meters = meters, !.tariffs = data]
             alone == IF Others = {} THEN history.alone
                      ELSE history.alone \ (Others \cup {r})
  <2>1. /\ run' = [run EXCEPT ![r] = started]
        /\ history' = [history EXCEPT !.latest = r, !.alone = alone]
    BY <1>2, <1>9 DEF Start, TypeOK
  <2>2. /\ started \in Run /\ started.pc = "delete" /\ started.meters = meters
        /\ started.left = {} /\ started.unit = NoUnit /\ started.basis = {}
        /\ started.tariffs = data
    BY <1>2 DEF Posted, Run, Stages
  <2> HIDE DEF started
  <2>3. run'[r] = started /\ \A s \in Runs \ {r} : run'[s] = run[s] BY <1>2, <2>1
  <2>4. run' \in [Runs -> Run] BY <1>2, <2>1, <2>2
  <2>5. ~Begun(r)' BY <2>2, <2>3 DEF Begun
  <2>6. Orderly(r)'
    <3>1. data \in Int BY <1>2 DEF Versions
    <3> QED BY <1>1, <1>5, <2>2, <2>3, <3>1 DEF Orderly
  <2>7. Covered(r)' BY <1>1, <1>2, <1>3, <2>5 DEF Covered
  <2>8. RunsHold' BY <1>1, <1>3, <2>3, <2>6, <2>7, OthersKeep
  <2>9. /\ alone \in SUBSET Runs /\ history'.latest = r /\ history'.alone = alone
        /\ history'.cleared = history.cleared
        /\ history' \in [latest: Runs \cup {NoRun}, cleared: Runs \cup {NoRun},
                         alone: SUBSET Runs]
    BY <1>2, <2>1 DEF TypeOK
  <2>10. LoneRunIsAlone'
    <3> SUFFICES ASSUME r \in alone PROVE \A s \in Runs \ {r} : ~Active(s)'
      BY <2>5, <2>9 DEF LoneRunIsAlone
    <3>1. \A s \in Runs : ~Active(s) BY DEF Others
    <3> QED BY <2>3, <3>1 DEF Active
  <2>11. TypeOK' BY <1>1, <1>2, <2>4, <2>9 DEF TypeOK
  <2> QED BY <1>4, <1>7, <2>3, <2>4, <2>5, <2>8, <2>9, <2>10, <2>11 DEF IInv
<1> QED BY <1>8, <1>9

\* The deletion leaves every snapshot on record without its link; the run has all its
\* units to draft and to record.
LEMMA DeleteDraftsKeeps ==
    ASSUME IInv, NEW r \in Runs, DeleteDrafts(r)
    PROVE  IInv'
<1> DEFINE unlinked(s) == [s EXCEPT !.linked = FALSE]
<1>1. /\ run[r].pc = "delete" /\ drafts' = {}
      /\ snapshots' = {unlinked(s) : s \in snapshots}
      /\ run' = [run EXCEPT ![r] = [NextGroup(r) EXCEPT !.left = run[r].meters]]
      /\ history' = [history EXCEPT !.cleared = r]
      /\ UNCHANGED <<data, meters, changeLog>>
  BY DEF DeleteDrafts
<1>2. /\ TypeOK /\ run \in [Runs -> Run] /\ run[r] \in Run /\ Orderly(r) /\ Covered(r)
      /\ run[r].meters \in SUBSET Meters /\ run[r].tariffs \in Versions
      /\ data \in Versions /\ NoUnit \notin Units
  BY RunFacts
<1>3. \A s \in snapshots : /\ unlinked(s) \in Snapshot /\ unlinked(s).linked = FALSE
                           /\ unlinked(s).draft = s.draft
  BY <1>2 DEF TypeOK, Snapshot
<1>4. \A s, t \in snapshots : s.draft = t.draft => unlinked(s) = unlinked(t)
  BY <1>2 DEF TypeOK, Snapshot
<1>5. run'[r] = Updated(run[r], "compute", run[r].meters, NoUnit, {run[r].tariffs})
  BY <1>1, <1>2 DEF NextGroup, Updated, Run
<1>6. /\ run'[r] \in Run /\ run'[r].pc = "compute" /\ run'[r].left = run[r].meters
      /\ run'[r].unit = NoUnit /\ run'[r].basis = {run[r].tariffs}
      /\ run'[r].meters = run[r].meters /\ run'[r].tariffs = run[r].tariffs
  <2>1. "compute" \in Stages /\ {run[r].tariffs} \in SUBSET Versions
        /\ NoUnit \in Units \cup {NoUnit}
    BY <1>2 DEF Stages
  <2> QED BY <1>2, <1>5, <2>1, RunUpdate
<1> HIDE DEF unlinked
<1>7. run' \in [Runs -> Run] /\ \A s \in Runs \ {r} : run'[s] = run[s] BY <1>1, <1>2, <1>6
<1>8. \A s \in Runs : \A u : OnRecord(s, u)' <=> OnRecord(s, u) BY <1>1, <1>3 DEF OnRecord
<1>9. Orderly(r)'
  <2>1. run[r].tariffs \in Int BY <1>2 DEF Versions
  <2>2. r \notin changeLog BY <1>1, <1>2 DEF Orderly
  <2> QED BY <1>1, <1>2, <1>6, <2>1, <2>2 DEF Orderly
<1>10. ToRecord(r)' = UnitsOf(run[r].meters) \cup {NoUnit} /\ ToDraft(r)' = ToRecord(r)'
  BY <1>6 DEF ToRecord, ToDraft
<1>11. Covered(r)'
  <2>1. \A u \in Units : ~OnRecord(r, u) BY <1>1, <1>2 DEF Covered
  <2>2. ~OnRecord(r, NoUnit) BY <1>2, RecordType DEF OnRecord
  <2>3. UnitsOf(run[r].meters) \subseteq Units BY <1>2, RecordType
  <2> QED BY <1>6, <1>8, <1>10, <2>1, <2>2, <2>3 DEF Covered
<1>12. RunsHold' BY <1>1, <1>7, <1>8, <1>9, <1>11, OthersKeep
<1>13. /\ history'.cleared = r /\ history'.latest = history.latest
       /\ history'.alone = history.alone
       /\ history' \in [latest: Runs \cup {NoRun}, cleared: Runs \cup {NoRun},
                        alone: SUBSET Runs]
  BY <1>1, <1>2 DEF TypeOK
<1>14. DraftsCover' BY <1>6, <1>10, <1>13 DEF DraftsCover
<1>15. LoneRunIsAlone'
  <2> DEFINE l == history.latest
  <2> SUFFICES ASSUME l \in history.alone
               PROVE  /\ \A s \in Runs \ {l} : ~Active(s)'
                      /\ Begun(l)' => history'.cleared = l
    BY <1>1, <1>13 DEF LoneRunIsAlone
  <2>1. \A s \in Runs \ {l} : ~Active(s) BY DEF IInv, LoneRunIsAlone
  <2>2. Active(r) BY <1>1 DEF Active, Ended
  <2>3. l = r BY <2>1, <2>2
  <2> QED BY <1>7, <1>13, <2>1, <2>3 DEF Active
<1>16. SnapshotMatchesDraft'
  <2>1. \A s, t \in snapshots :
             (s.draft.run = t.draft.run /\ s.draft.unit = t.draft.unit) => s = t
    BY DEF IInv, SnapshotMatchesDraft
  <2>2. \A s \in snapshots' : ~s.linked BY <1>1, <1>3
  <2>3. \A s, t \in snapshots' :
             (s.draft.run = t.draft.run /\ s.draft.unit = t.draft.unit) => s = t
    BY <1>1, <1>3, <2>1
  <2> QED BY <2>2, <2>3 DEF SnapshotMatchesDraft
<1>17. TypeOK' BY <1>1, <1>2, <1>3, <1>7, <1>13 DEF TypeOK
<1> QED BY <1>12, <1>14, <1>15, <1>16, <1>17 DEF IInv

\* What other requests do to the data and the meters does not concern the runs.
LEMMA OthersChange ==
    ASSUME IInv, UNCHANGED <<drafts, snapshots, changeLog, run, history>>,
           data' \in Versions, data <= data', meters' \subseteq Meters
    PROVE  IInv'
<1>1. TypeOK' BY DEF IInv, TypeOK
<1>2. RunsHold'
  <2> SUFFICES ASSUME NEW r \in Runs PROVE Orderly(r)' /\ Covered(r)' BY DEF RunsHold
  <2>1. /\ Orderly(r) /\ Covered(r) /\ data \in Versions /\ run[r].tariffs \in Versions
    BY RunFacts
  <2>2. Orderly(r)'
    <3>1. run[r].tariffs <= data' BY <2>1 DEF Orderly, Versions
    <3> QED BY <2>1, <3>1 DEF Orderly
  <2>3. Covered(r)' BY <2>1 DEF Covered, Begun, OnRecord, ToRecord
  <2> QED BY <2>2, <2>3
<1>3. DraftsCover' BY DEF IInv, DraftsCover, Begun, ToDraft
<1>4. LoneRunIsAlone' BY DEF IInv, LoneRunIsAlone, Begun, Active
<1>5. SnapshotMatchesDraft' BY DEF IInv, SnapshotMatchesDraft
<1> QED BY <1>1, <1>2, <1>3, <1>4, <1>5 DEF IInv

\* The steps of a run that end it or write a log.
LEMMA LogSteps ==
    ASSUME IInv, NEW r \in Runs,
           \/ CreateSnapshot(r) /\ DraftOf(r) \notin drafts
           \/ WriteAuditLog(r) \/ WriteBillingChangeLog(r) \/ Fail(r)
    PROVE  IInv'
<1>1. CASE CreateSnapshot(r) /\ DraftOf(r) \notin drafts
  BY <1>1, EndingKeeps DEF CreateSnapshot, Active, Ended
<1>2. CASE WriteAuditLog(r) BY <1>2, EndingKeeps DEF WriteAuditLog, Active, Ended
<1>3. CASE WriteBillingChangeLog(r)
  BY <1>3, EndingKeeps DEF WriteBillingChangeLog, Active, Ended
<1>4. CASE Fail(r) BY <1>4, EndingKeeps DEF Fail
<1> QED BY <1>1, <1>2, <1>3, <1>4

\* Every step keeps the invariant.
LEMMA StepHolds == IInv /\ [Next]_vars => IInv'
<1> SUFFICES ASSUME IInv, [Next]_vars PROVE IInv' OBVIOUS
<1>1. ASSUME NEW r \in Runs, Handle(r) \/ Fail(r) PROVE IInv'
  <2>1. CASE CreateSnapshot(r) /\ DraftOf(r) \in drafts BY <2>1, SnapshotStored
  <2>2. CASE \/ CreateSnapshot(r) /\ DraftOf(r) \notin drafts
             \/ WriteAuditLog(r) \/ WriteBillingChangeLog(r) \/ Fail(r)
    BY <2>2, LogSteps
  <2> QED BY <1>1, <2>1, <2>2, StartKeeps, DeleteDraftsKeeps, ComputeKeeps, CreateDraftKeeps
      DEF Handle
<1>2. data \in Versions /\ meters \subseteq Meters BY DEF IInv, TypeOK
<1>3. CASE ChangeData
  <2>1. data' = data + 1 /\ data < MaxData /\ meters' = meters BY <1>3 DEF ChangeData
  <2>2. data' \in Versions /\ data <= data' BY <1>2, <2>1, DraftAssumption DEF Versions
  <2> QED BY <1>2, <1>3, <2>1, <2>2, OthersChange DEF ChangeData
<1>4. CASE \E m \in Meters : CreateMeter(m)
  <2>1. data' = data /\ data <= data BY <1>2, <1>4 DEF CreateMeter, Versions
  <2>2. meters' \subseteq Meters BY <1>2, <1>4 DEF CreateMeter
  <2>3. UNCHANGED <<drafts, snapshots, changeLog, run, history>> BY <1>4 DEF CreateMeter
  <2> QED BY <1>2, <2>1, <2>2, <2>3, OthersChange
<1>5. CASE UNCHANGED vars
  <2>1. data <= data BY <1>2 DEF Versions
  <2> QED BY <1>2, <1>5, <2>1, OthersChange DEF vars
<1> QED BY <1>1, <1>3, <1>4, <1>5 DEF Next

\* Snapshots lose their link at most, whatever step it is.
LEMMA StepKeepsSnapshots == TypeOK /\ [Next]_vars => KeepsSnapshots
<1> SUFFICES ASSUME TypeOK, [Next]_vars, NEW s \in snapshots
             PROVE  s \in snapshots' \/ [s EXCEPT !.linked = FALSE] \in snapshots'
  BY DEF KeepsSnapshots
<1>1. ASSUME NEW r \in Runs, DeleteDrafts(r)
      PROVE  [s EXCEPT !.linked = FALSE] \in snapshots'
  BY <1>1 DEF DeleteDrafts
<1>2. ASSUME NEW r \in Runs, CreateSnapshot(r) PROVE s \in snapshots'
  BY <1>2 DEF CreateSnapshot
<1>3. ASSUME NEW r \in Runs,
             \/ Start(r) \/ Compute(r) \/ CreateDraft(r) \/ WriteAuditLog(r)
             \/ WriteBillingChangeLog(r) \/ Fail(r)
      PROVE  s \in snapshots'
  BY <1>3 DEF Start, Compute, CreateDraft, WriteAuditLog, WriteBillingChangeLog, Fail
<1>4. CASE ChangeData \/ (\E m \in Meters : CreateMeter(m)) \/ UNCHANGED vars
  BY <1>4 DEF ChangeData, CreateMeter, vars
<1> QED BY <1>1, <1>2, <1>3, <1>4 DEF Next, Handle

\* A run is in the change log only when it is done, with nothing left to record.
LEMMA LoggedIsRecorded == IInv => LoggedRunIsOnRecord
<1> SUFFICES ASSUME IInv, NEW r \in changeLog, NEW u \in UnitsOf(run[r].meters)
             PROVE  OnRecord(r, u)
  BY DEF LoggedRunIsOnRecord, OnRecord
<1>1. r \in Runs BY DEF IInv, TypeOK
<1>2. Orderly(r) /\ Covered(r) BY <1>1, RunFacts
<1>3. run[r].pc = "done" /\ run[r].left = {} BY <1>2 DEF Orderly
<1>4. ToRecord(r) = {} BY <1>3 DEF ToRecord, UnitsOf
<1>5. Begun(r) BY <1>3 DEF Begun, Stages
<1> QED BY <1>2, <1>4, <1>5 DEF Covered

\* A run that is done has no unit left to draft.
LEMMA DoneIsDrafted ==
    ASSUME IInv, NEW r \in Runs, r = history.cleared, run[r].pc = "done"
    PROVE  \A u \in UnitsOf(run[r].meters) : \E d \in drafts : d.unit = u
<1>1. run[r].left = {} BY RunFacts DEF Orderly
<1>2. ToDraft(r) = {} BY <1>1 DEF ToDraft, UnitsOf
<1>3. Begun(r) BY DEF Begun, Stages
<1>4. r # NoRun BY DraftAssumption
<1> QED BY <1>2, <1>3, <1>4 DEF IInv, DraftsCover

\* The inductive invariant: types, the progress of each run with the units it has
\* recorded and has still to record, the drafts of the run that deleted last, the
\* privacy of a lone run, and the snapshots.
THEOREM InvariantHolds == Spec => []IInv
<1> QED BY InitHolds, StepHolds, PTL DEF Spec

\* Every variable of draft generation keeps its type.
THEOREM TypeCorrect == Spec => []TypeOK
<1>1. IInv => TypeOK BY DEF IInv
<1> QED BY <1>1, InvariantHolds, PTL

\* For any building and any number of overlapping, failing runs: when the run that
\* deleted last has completed, each of its units has a draft (billing/route.ts:59-140).
THEOREM NoUnitIsForgotten == Spec => []NoUnitForgotten
<1>1. IInv => NoUnitForgotten
  <2> SUFFICES ASSUME IInv, history.cleared # NoRun, run[history.cleared].pc = "done"
               PROVE  \A u \in UnitsOf(run[history.cleared].meters) : \E d \in drafts : d.unit = u
    BY DEF NoUnitForgotten
  <2>1. history.cleared \in Runs BY DEF IInv, TypeOK
  <2> QED BY <2>1, DoneIsDrafted
<1> QED BY <1>1, InvariantHolds, PTL

\* A run that no other one overlapped leaves exactly the drafts of its units, made
\* from data no older than it.
THEOREM UndisturbedRunIsExact == Spec => []LoneRunIsExact
<1>1. IInv => LoneRunIsExact
  <2> DEFINE r == history.latest
  <2> SUFFICES ASSUME IInv, r \in history.alone, run[r].pc = "done"
               PROVE  /\ {d.unit : d \in drafts} = UnitsOf(run[r].meters)
                      /\ \A d \in drafts : d.run = r /\ \A v \in d.basis : v >= run[r].tariffs
    BY DEF LoneRunIsExact
  <2>1. r \in Runs BY DEF IInv, TypeOK
  <2>2. Begun(r) BY DEF Begun, Stages
  <2>3. /\ history.cleared = r
        /\ \A d \in drafts : /\ d.run = r /\ d.unit \in UnitsOf(run[r].meters)
                            /\ \A v \in d.basis : v >= run[r].tariffs
    BY <2>2 DEF IInv, LoneRunIsAlone
  <2>4. \A u \in UnitsOf(run[r].meters) : \E d \in drafts : d.unit = u
    BY <2>1, <2>3, DoneIsDrafted
  <2> QED BY <2>3, <2>4
<1> QED BY <1>1, InvariantHolds, PTL

\* A linked snapshot carries its draft's calculation, and a draft has at most one.
THEOREM SnapshotsMatch == Spec => []SnapshotMatchesDraft
<1>1. IInv => SnapshotMatchesDraft BY DEF IInv
<1> QED BY <1>1, InvariantHolds, PTL

\* Each unit of a run in the billing change log has a snapshot of that run.
THEOREM LoggedRunsAreOnRecord == Spec => []LoggedRunIsOnRecord
<1> QED BY LoggedIsRecorded, InvariantHolds, PTL

\* No step removes or changes a snapshot, but for the link to a deleted draft.
THEOREM SnapshotsStay == Spec => SnapshotsAreImmutable
<1>1. TypeOK /\ [Next]_vars => [KeepsSnapshots]_vars BY StepKeepsSnapshots
<1> QED BY <1>1, TypeCorrect, PTL DEF Spec, SnapshotsAreImmutable
=============================================================================
