--------------------------------- MODULE Startup ---------------------------------
(***************************************************************************)
(* How the API container starts (docker-compose.yml): it migrates the      *)
(* database, runs the seed (packages/db/prisma/seed.ts) and then serves;   *)
(* whatever fails ends the container, which is started again.  The seed is *)
(* also run by hand, while the API serves.  It is a sequence of single     *)
(* statements without a transaction, and rewrites the demo tenant's data   *)
(* whatever is in it.                                                      *)
(***************************************************************************)
EXTENDS Integers, FiniteSets

CONSTANTS
    Readings,   \* of gateways and users
    Demo,       \* the seed's own readings, all of them
    Seeds,      \* runs of the seed
    Boot,       \* the container's own
    Drafts,     \* invoice drafts, of which
    Seeded      \* the seed's own, with a fixed id

ASSUME StartupAssumption ==
    Demo \notin Readings /\ Boot \in Seeds /\ Seeded \in Drafts

VARIABLES
    container,  \* what the API container is doing
    step,       \* per run of the seed: the statement it comes to next
    alone,      \* history: nothing else has happened since it began (until it is over)
    readings,   \* meter_readings
    corrected,  \* those in reading_correction_events
    drafts,     \* invoice_drafts of the demo period
    snapshots,  \* number of snapshots linked to each
    preset      \* whether the seed's tax profile and allocation key are defaults

tables == <<readings, corrected, drafts, snapshots, preset>>
startVars == <<container, step, alone, tables>>

Steps == {"idle", "master data", "delete readings", "create readings", "billing data",
          "delete drafts", "create draft", "create snapshot", "logs", "done"}
Running(s) == step[s] \notin {"idle", "done"}

\* A step of run s, or of nobody: the other runs are no longer alone.
Disturb(others) == alone' = [s \in Seeds |-> alone[s] /\ s \notin others]
Moves(s, from, to) ==
    /\ step[s] = from
    /\ step' = [step EXCEPT ![s] = to]
    /\ Disturb(Seeds \ {s})
    /\ UNCHANGED container

-----------------------------------------------------------------------------
\* The statements of the seed.

\* Tenant, administrator, buildings, units, gateways, meters: upserts, which leave
\* what users added.  (The gateways' status: see Stack.)
UpsertMasterData(s) == Moves(s, "master data", "delete readings") /\ UNCHANGED tables

\* Variant of the next action: ON DELETE CASCADE.
DeleteReadingsCascading(s) ==
    /\ Moves(s, "delete readings", "create readings")
    /\ readings' = {} /\ corrected' = {}
    /\ UNCHANGED <<drafts, snapshots, preset>>

\* ON DELETE RESTRICT: with a correction event of any of them, none is deleted, and
\* the statement fails.
DeleteReadings(s) ==
    /\ corrected = {}
    /\ Moves(s, "delete readings", "create readings")
    /\ readings' = {}
    /\ UNCHANGED <<corrected, drafts, snapshots, preset>>

CreateReadings(s) ==
    /\ Moves(s, "create readings", "billing data")
    /\ readings' = readings \cup {Demo}
    /\ UNCHANGED <<corrected, drafts, snapshots, preset>>

\* Tax profile, allocation key (whose entries are deleted and created again), cost
\* component, tariff, billing period.  The first two are made defaults; those that took
\* the flag from them keep it as well (Registry's UpsertDefault).
UpsertBillingData(s) ==
    /\ Moves(s, "billing data", "delete drafts")
    /\ preset' = TRUE
    /\ UNCHANGED <<readings, corrected, drafts, snapshots>>

\* Variants of the next action: only users' drafts are deleted, or only
\* the seed's own.
KeepDrafts(s) ==
    /\ Moves(s, "delete drafts", "create draft")
    /\ drafts' = drafts \cap {Seeded}
    /\ snapshots' = [d \in Drafts |-> IF d = Seeded THEN snapshots[d] ELSE 0]
    /\ UNCHANGED <<readings, corrected, preset>>

DeleteOwnDraft(s) ==
    /\ Moves(s, "delete drafts", "create draft")
    /\ drafts' = drafts \ {Seeded} /\ snapshots' = [snapshots EXCEPT ![Seeded] = 0]
    /\ UNCHANGED <<readings, corrected, preset>>

\* ON DELETE SET NULL for their snapshots.
DeleteDrafts(s) ==
    /\ Moves(s, "delete drafts", "create draft")
    /\ drafts' = {} /\ snapshots' = [d \in Drafts |-> 0]
    /\ UNCHANGED <<readings, corrected, preset>>

\* Fails if a draft with the fixed id is there.
CreateDraft(s) ==
    /\ Seeded \notin drafts
    /\ Moves(s, "create draft", "create snapshot")
    /\ drafts' = drafts \cup {Seeded}
    /\ UNCHANGED <<readings, corrected, snapshots, preset>>

\* Fails if the draft is gone.
CreateSnapshot(s) ==
    /\ Seeded \in drafts
    /\ Moves(s, "create snapshot", "logs")
    /\ snapshots' = [snapshots EXCEPT ![Seeded] = @ + 1]
    /\ UNCHANGED <<readings, corrected, drafts, preset>>

\* The API key, the audit log, the change log.
WriteLogs(s) == Moves(s, "logs", "done") /\ UNCHANGED tables

SeedStep(s) ==
    \/ UpsertMasterData(s) \/ DeleteReadings(s) \/ CreateReadings(s)
    \/ UpsertBillingData(s) \/ DeleteDrafts(s) \/ CreateDraft(s) \/ CreateSnapshot(s)
    \/ WriteLogs(s)

\* A constraint fails the statement: always the one, depending on the data.
Refused(s) ==
    \/ step[s] = "delete readings" /\ corrected # {}
    \/ step[s] = "create draft" /\ Seeded \in drafts
    \/ step[s] = "create snapshot" /\ Seeded \notin drafts

\* exit(1), and the container's command ends with it.
Abort(s) ==
    /\ step' = [step EXCEPT ![s] = "idle"]
    /\ alone' = [alone EXCEPT ![s] = FALSE]
    /\ container' = IF s = Boot THEN "down" ELSE container
    /\ UNCHANGED tables
SeedRefused(s) == Refused(s) /\ Abort(s)
SeedFails(s) == Running(s) /\ ~Refused(s) /\ Abort(s)

-----------------------------------------------------------------------------
\* The container: migrate && seed && start.

Begin(s) ==
    /\ step' = [step EXCEPT ![s] = "master data"]
    /\ alone' = [x \in Seeds |-> IF x = s THEN \A y \in Seeds \ {s} : ~Running(y)
                                 ELSE FALSE]
    /\ UNCHANGED tables

Up == container = "down" /\ container' = "migrate" /\ UNCHANGED <<step, alone, tables>>

\* prisma db push and post-migrate.ts, whose statements may all be repeated.
Migrate == container = "migrate" /\ container' = "seed" /\ Begin(Boot)

MigrateFails ==
    container = "migrate" /\ container' = "down" /\ UNCHANGED <<step, alone, tables>>

Serve ==
    /\ container = "seed" /\ step[Boot] = "done"
    /\ container' = "serving"
    /\ step' = [step EXCEPT ![Boot] = "idle"]
    /\ alone' = [alone EXCEPT ![Boot] = FALSE]
    /\ UNCHANGED tables

Stop ==
    /\ container = "serving" /\ container' = "down"
    /\ UNCHANGED <<step, alone, tables>>

\* npm run db:seed, run-local.sh start.
RunByHand(s) ==
    /\ s # Boot /\ ~Running(s)
    /\ Begin(s)
    /\ UNCHANGED container

-----------------------------------------------------------------------------
\* What the API does meanwhile (ReadingHistory, DraftGeneration, Registry): each commit.

Commit == container = "serving" /\ Disturb(Seeds) /\ UNCHANGED <<container, step>>

StoreReading(r) ==
    /\ Commit
    /\ r \notin readings
    /\ readings' = readings \cup {r}
    /\ UNCHANGED <<corrected, drafts, snapshots, preset>>

Correct(original, r) ==
    /\ Commit
    /\ original \in readings /\ r \notin readings
    /\ readings' = readings \cup {r}
    /\ corrected' = corrected \cup {original, r}
    /\ UNCHANGED <<drafts, snapshots, preset>>

GenerateDelete ==
    /\ Commit
    /\ drafts' = {} /\ snapshots' = [d \in Drafts |-> 0]
    /\ UNCHANGED <<readings, corrected, preset>>

GenerateDraft(d) ==
    /\ Commit
    /\ d \notin drafts
    /\ drafts' = drafts \cup {d} /\ snapshots' = [snapshots EXCEPT ![d] = 1]
    /\ UNCHANGED <<readings, corrected, preset>>

\* Another default, of the tax profiles or of the keys of the seed's building.
MakeDefault ==
    /\ Commit
    /\ preset' = FALSE
    /\ UNCHANGED <<readings, corrected, drafts, snapshots>>

StartInit ==
    /\ container = "down"
    /\ step = [s \in Seeds |-> "idle"] /\ alone = [s \in Seeds |-> FALSE]
    /\ readings = {} /\ corrected = {}
    /\ drafts = {} /\ snapshots = [d \in Drafts |-> 0] /\ preset = FALSE

ByHand == \E s \in Seeds : RunByHand(s)
Users ==
    \/ \E r \in Readings : StoreReading(r)
    \/ \E o \in Readings \cup {Demo}, r \in Readings : Correct(o, r)
    \/ GenerateDelete \/ \E d \in Drafts \ {Seeded} : GenerateDraft(d)
    \/ MakeDefault
ContainerStep == Up \/ Migrate \/ Serve

-----------------------------------------------------------------------------
StartTypeOK ==
    /\ container \in {"down", "migrate", "seed", "serving"}
    /\ step \in [Seeds -> Steps] /\ alone \in [Seeds -> BOOLEAN]
    /\ readings \subseteq Readings \cup {Demo} /\ corrected \subseteq Readings \cup {Demo}
    /\ drafts \subseteq Drafts /\ snapshots \in [Drafts -> Nat]
    /\ preset \in BOOLEAN

\* A run of the seed that nothing disturbed leaves exactly its data, whatever earlier
\* runs left that died at any statement, and whatever users made of it since.
SeededIsExact == \A s \in Seeds : step[s] = "done" /\ alone[s] =>
    /\ readings = {Demo} /\ corrected = {}
    /\ drafts = {Seeded} /\ snapshots[Seeded] = 1 /\ preset

\* No start of the API and no seed beside it takes away a reading that a correction
\* event refers to, or the event.
KeepsLineage ==
    corrected \subseteq corrected' /\ (corrected \subseteq readings => corrected \subseteq readings')
=============================================================================
