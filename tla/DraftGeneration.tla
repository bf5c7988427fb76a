---------------------------- MODULE DraftGeneration ----------------------------
(***************************************************************************)
(* POST /api/v1/billing/generate-drafts (billing/route.ts) for one billing *)
(* period of one building: delete the period's invoice drafts, then        *)
(* compute and store a draft and its calculation snapshot for each unit.   *)
(*                                                                         *)
(* Nothing is a transaction and nothing excludes a second request, so runs *)
(* overlap, stop half way, and read billing data that others change.  Data *)
(* (readings, corrections, tariffs) is a version number; the basis of a    *)
(* draft is the set of versions its computation read.                      *)
(***************************************************************************)
EXTENDS Integers, FiniteSets

CONSTANTS
    Runs,           \* bound: requests to generate drafts
    Meters,         \* meters of the building
    Unit,           \* Unit[m]: unit of m ("__building__" is a unit like others)
    InitialMeters,  \* meters that exist at the start
    MaxData,        \* bound: changes of the billing data
    NoUnit, NoRun

Units == {Unit[m] : m \in Meters}
UnitsOf(ms) == {Unit[m] : m \in ms}

ASSUME DraftAssumption ==
    /\ IsFiniteSet(Runs) /\ IsFiniteSet(Meters)
    /\ DOMAIN Unit = Meters
    /\ InitialMeters \subseteq Meters
    /\ MaxData \in Nat
    /\ NoUnit \notin Units /\ NoRun \notin Runs

VARIABLES
    data,       \* version of the billing data
    meters,     \* the building's meters
    drafts,     \* invoice_drafts of the period; <<run, unit>> is the id
    snapshots,  \* calculation_breakdown_snapshots of the period
    changeLog,  \* runs that billing_change_logs reports
    run,        \* what each request is doing
    history     \* [latest: the run that started last, cleared: the run that deleted
                \*  drafts last, alone: the runs that no other one overlapped]

vars == <<data, meters, drafts, snapshots, changeLog, run, history>>

Versions == 0..MaxData
Draft == [run: Runs, unit: Units, basis: SUBSET Versions]
\* linked: invoice_draft_id is set (and not yet nulled by ON DELETE SET NULL).
Snapshot == [draft: Draft, linked: BOOLEAN]

Stages == {"posted", "delete", "compute", "draft", "snapshot", "audit", "log",
           "done", "failed"}
\* meters, tariffs: as read at the start; left: meters still to compute; unit and
\* basis: the group being computed.
Run == [pc: Stages, meters: SUBSET Meters, tariffs: Versions,
        left: SUBSET Meters, unit: Units \cup {NoUnit}, basis: SUBSET Versions]
Posted == [pc |-> "posted", meters |-> {}, tariffs |-> 0, left |-> {},
           unit |-> NoUnit, basis |-> {}]

Ended == {"done", "failed"}
Active(r) == run[r].pc \notin Ended \cup {"posted"}
DraftOf(r) == [run |-> r, unit |-> run[r].unit, basis |-> run[r].basis]
InGroup(r, m) == run[r].unit \in {NoUnit, Unit[m]}
Others == {s \in Runs : Active(s)}

\* The run reads period, meters and tariffs.  Without meters it answers 400.
Start(r) ==
    /\ run[r].pc = "posted"
    /\ IF meters = {}
       THEN run' = [run EXCEPT ![r].pc = "failed"] /\ UNCHANGED history
       ELSE /\ run' = [run EXCEPT ![r] = [Posted EXCEPT
                            !.pc = "delete", !.meters = meters, !.tariffs = data]]
            /\ history' = [history EXCEPT !.latest = r,
                   !.alone = IF Others = {} THEN @ ELSE @ \ (Others \cup {r})]
    /\ UNCHANGED <<data, meters, drafts, snapshots, changeLog>>

\* The run goes on with its next group; what it read so far are the tariffs.
NextGroup(r) == [run[r] EXCEPT !.pc = "compute", !.unit = NoUnit, !.basis = {run[r].tariffs}]

\* Variants of the next action: only some drafts (those of one status) are deleted;
\* the snapshots go with the drafts.
DeleteSomeDrafts(r) ==
    /\ run[r].pc = "delete"
    /\ drafts' \in SUBSET drafts
    /\ snapshots' = {[s EXCEPT !.linked = @ /\ s.draft \in drafts'] : s \in snapshots}
    /\ run' = [run EXCEPT ![r] = [NextGroup(r) EXCEPT !.left = run[r].meters]]
    /\ history' = [history EXCEPT !.cleared = r]
    /\ UNCHANGED <<data, meters, changeLog>>
DeleteWithSnapshots(r) ==
    /\ run[r].pc = "delete"
    /\ drafts' = {} /\ snapshots' = {}
    /\ run' = [run EXCEPT ![r] = [NextGroup(r) EXCEPT !.left = run[r].meters]]
    /\ history' = [history EXCEPT !.cleared = r]
    /\ UNCHANGED <<data, meters, changeLog>>

\* invoiceDraft.deleteMany; the snapshots stay and lose their link.
DeleteDrafts(r) ==
    /\ run[r].pc = "delete"
    /\ drafts' = {}
    /\ snapshots' = {[s EXCEPT !.linked = FALSE] : s \in snapshots}
    /\ run' = [run EXCEPT ![r] = [NextGroup(r) EXCEPT !.left = run[r].meters]]
    /\ history' = [history EXCEPT !.cleared = r]
    /\ UNCHANGED <<data, meters, changeLog>>

\* Variant of the next action: a group without an active tariff is skipped.
ComputeOrSkip(r) ==
    /\ run[r].pc = "compute"
    /\ \E m \in run[r].left, pc \in {"draft", "compute", "audit"} :
         /\ pc = "audit" => run[r].left = {m}
         /\ run' = [run EXCEPT ![r].pc = pc, ![r].left = @ \ {m}, ![r].unit = Unit[m],
                               ![r].basis = @ \cup {data}]
    /\ UNCHANGED <<data, meters, drafts, snapshots, changeLog, history>>

\* computeMeterConsumption of the next meter of the group (buildInvoiceDraftComputation;
\* a cumulative meter's two parallel reads are one step, the ports read nothing);
\* after the last meter the group's draft can be made.
Compute(r) ==
    /\ run[r].pc = "compute"
    /\ \E m \in run[r].left :
         LET left == run[r].left \ {m} IN
         /\ InGroup(r, m)
         /\ run' = [run EXCEPT ![r].left = left, ![r].unit = Unit[m],
                ![r].basis = @ \cup {data},
                ![r].pc = IF \E n \in left : Unit[n] = Unit[m] THEN "compute" ELSE "draft"]
    /\ UNCHANGED <<data, meters, drafts, snapshots, changeLog, history>>

CreateDraft(r) ==
    /\ run[r].pc = "draft"
    /\ drafts' = drafts \cup {DraftOf(r)}
    /\ run' = [run EXCEPT ![r].pc = "snapshot"]
    /\ UNCHANGED <<data, meters, snapshots, changeLog, history>>

AfterGroup(r) == IF run[r].left = {} THEN [NextGroup(r) EXCEPT !.pc = "audit"] ELSE NextGroup(r)

\* Variants of the next action: the breakdown is computed again; a snapshot that
\* cannot be stored is passed over.
CreateFreshSnapshot(r) ==
    LET s == [draft |-> [DraftOf(r) EXCEPT !.basis = @ \cup {data}], linked |-> TRUE] IN
    /\ run[r].pc = "snapshot"
    /\ DraftOf(r) \in drafts
    /\ snapshots' = snapshots \cup {s}
    /\ run' = [run EXCEPT ![r] = AfterGroup(r)]
    /\ UNCHANGED <<data, meters, drafts, changeLog, history>>
TrySnapshot(r) ==
    LET s == [draft |-> DraftOf(r), linked |-> TRUE] IN
    /\ run[r].pc = "snapshot"
    /\ snapshots' = IF DraftOf(r) \in drafts THEN snapshots \cup {s} ELSE snapshots
    /\ run' = [run EXCEPT ![r] = AfterGroup(r)]
    /\ UNCHANGED <<data, meters, drafts, changeLog, history>>

\* calculationBreakdownSnapshot.create.  The foreign key needs the draft, which
\* another run may have deleted by now: then the request fails.
CreateSnapshot(r) ==
    LET s == [draft |-> DraftOf(r), linked |-> TRUE] IN
    /\ run[r].pc = "snapshot"
    /\ IF DraftOf(r) \in drafts
       THEN snapshots' = snapshots \cup {s} /\ run' = [run EXCEPT ![r] = AfterGroup(r)]
       ELSE run' = [run EXCEPT ![r].pc = "failed"] /\ UNCHANGED snapshots
    /\ UNCHANGED <<data, meters, drafts, changeLog, history>>

WriteAuditLog(r) ==
    /\ run[r].pc = "audit"
    /\ run' = [run EXCEPT ![r].pc = "log"]
    /\ UNCHANGED <<data, meters, drafts, snapshots, changeLog, history>>

WriteBillingChangeLog(r) ==
    /\ run[r].pc = "log"
    /\ changeLog' = changeLog \cup {r}
    /\ run' = [run EXCEPT ![r].pc = "done"]
    /\ UNCHANGED <<data, meters, drafts, snapshots, history>>

\* A database call throws, or the process dies: what is written stays.
Fail(r) ==
    /\ Active(r)
    /\ run' = [run EXCEPT ![r].pc = "failed"]
    /\ UNCHANGED <<data, meters, drafts, snapshots, changeLog, history>>

\* Other requests store readings, correct them, add tariffs, register meters.
ChangeData ==
    /\ data < MaxData
    /\ data' = data + 1
    /\ UNCHANGED <<meters, drafts, snapshots, changeLog, run, history>>

CreateMeter(m) ==
    /\ m \notin meters
    /\ meters' = meters \cup {m}
    /\ UNCHANGED <<data, drafts, snapshots, changeLog, run, history>>

Init ==
    /\ data = 0 /\ meters = InitialMeters
    /\ drafts = {} /\ snapshots = {} /\ changeLog = {}
    /\ run = [r \in Runs |-> Posted]
    /\ history = [latest |-> NoRun, cleared |-> NoRun, alone |-> Runs]

Handle(r) ==
    \/ Start(r) \/ DeleteDrafts(r) \/ Compute(r) \/ CreateDraft(r)
    \/ CreateSnapshot(r) \/ WriteAuditLog(r) \/ WriteBillingChangeLog(r)

Next ==
    \/ \E r \in Runs : Handle(r) \/ Fail(r)
    \/ ChangeData
    \/ \E m \in Meters : CreateMeter(m)

Spec == Init /\ [][Next]_vars

-----------------------------------------------------------------------------
\* Every variable has its type.
TypeOK ==
    /\ data \in Versions /\ meters \subseteq Meters
    /\ drafts \subseteq Draft /\ snapshots \subseteq Snapshot
    /\ changeLog \subseteq Runs
    /\ run \in [Runs -> Run]
    /\ history \in [latest: Runs \cup {NoRun}, cleared: Runs \cup {NoRun}, alone: SUBSET Runs]

\* However runs overlap, no unit is forgotten: if the run that deleted last has
\* completed, each unit it found meters in has a draft.
NoUnitForgotten ==
    LET r == history.cleared IN
    r # NoRun /\ run[r].pc = "done" =>
        \A u \in UnitsOf(run[r].meters) : \E d \in drafts : d.unit = u

\* A run that nobody disturbed leaves exactly one draft for each unit, whatever an
\* earlier run that failed half way had left; and no draft is older than the run.
LoneRunIsExact ==
    LET r == history.latest IN
    r \in history.alone /\ run[r].pc = "done" =>
        /\ {d.unit : d \in drafts} = UnitsOf(run[r].meters)
        /\ \A d \in drafts : d.run = r /\ \A v \in d.basis : v >= run[r].tariffs

\* A snapshot that is linked to a draft carries that draft's own calculation, also
\* when readings change between the two inserts; a draft has at most one.
SnapshotMatchesDraft ==
    /\ \A s \in snapshots : s.linked => s.draft \in drafts
    /\ \A s, t \in snapshots :
         (s.draft.run = t.draft.run /\ s.draft.unit = t.draft.unit) => s = t

\* A run in the billing change log can be reproduced: each of its units has its
\* snapshot, even after later runs deleted its drafts.
LoggedRunIsOnRecord ==
    \A r \in changeLog : \A u \in UnitsOf(run[r].meters) :
        \E s \in snapshots : s.draft.run = r /\ s.draft.unit = u

\* Snapshots are immutable (docs/data-model.md): none disappears or changes, except
\* that it loses the link to a deleted draft, for good.
KeepsSnapshots ==
    \A s \in snapshots : s \in snapshots' \/ [s EXCEPT !.linked = FALSE] \in snapshots'
SnapshotsAreImmutable == [][KeepsSnapshots]_vars

\* What the safety properties rest on.  A run in progress has stages behind it and
\* units ahead of it: those still to draft, those still to record in a snapshot.
Begun(r) == run[r].pc \in Stages \ {"posted", "delete", "failed"}
ToDraft(r) ==
    UnitsOf(run[r].left) \cup (IF run[r].pc \in {"compute", "draft"} THEN {run[r].unit} ELSE {})
ToRecord(r) == UnitsOf(run[r].left)
    \cup (IF run[r].pc \in {"compute", "draft", "snapshot"} THEN {run[r].unit} ELSE {})
OnRecord(r, u) == \E s \in snapshots : s.draft.run = r /\ s.draft.unit = u

Orderly(r) ==
    /\ run[r].left \subseteq run[r].meters
    /\ run[r].tariffs <= data
    /\ \A v \in run[r].basis : v >= run[r].tariffs
    /\ run[r].unit \in UnitsOf(run[r].meters) \cup {NoUnit}
    /\ run[r].pc \in {"draft", "snapshot"} =>
         run[r].unit # NoUnit /\ run[r].unit \notin UnitsOf(run[r].left)
    /\ run[r].pc \in {"audit", "log", "done"} => run[r].left = {}
    /\ r \in changeLog => run[r].pc = "done"

\* Each unit of a run is recorded once or still to be recorded, never both.
Covered(r) ==
    /\ Begun(r) => \A u \in UnitsOf(run[r].meters) : OnRecord(r, u) \/ u \in ToRecord(r)
    /\ Begun(r) => \A u \in ToRecord(r) : ~OnRecord(r, u)
    /\ run[r].pc \in {"posted", "delete"} => \A u \in Units : ~OnRecord(r, u)

RunsHold == \A r \in Runs : Orderly(r) /\ Covered(r)

\* Each unit of the run that deleted last is drafted or still to be drafted.
DraftsCover ==
    LET r == history.cleared IN
    r # NoRun /\ Begun(r) =>
        \A u \in UnitsOf(run[r].meters) \ ToDraft(r) : \E d \in drafts : d.unit = u

\* Beside a lone run no other is active, and from its deletion on the drafts are its.
LoneRunIsAlone ==
    LET r == history.latest IN
    r \in history.alone =>
        /\ \A s \in Runs \ {r} : ~Active(s)
        /\ Begun(r) =>
             /\ history.cleared = r
             /\ \A d \in drafts : /\ d.run = r /\ d.unit \in UnitsOf(run[r].meters)
                                 /\ \A v \in d.basis : v >= run[r].tariffs

IInv ==
    /\ TypeOK
    /\ RunsHold
    /\ DraftsCover
    /\ LoneRunIsAlone
    /\ SnapshotMatchesDraft
=============================================================================
