------------------------------- MODULE StackProofs -------------------------------
(***************************************************************************)
(* Proofs about Stack: the inductive invariant IInv, part by part (the     *)
(* database under the seed, the gateway's row under its handlers and the   *)
(* worker), and the safety properties that follow from it for every number *)
(* of seed runs, readings and drafts, every window and every delay.        *)
(***************************************************************************)
EXTENDS Stack, TLAPS

StartInv ==
    /\ StartTypeOK
    /\ corrected \subseteq readings
    /\ \A s \in Seeds : alone[s] => SeededSoFar(s)

HealthInv == HealthTypeOK /\ HeardLags /\ HeardIsOnline

StartStep ==
    \/ \E s \in Seeds : SeedStep(s) \/ SeedRefused(s) \/ SeedFails(s)
    \/ ContainerStep \/ MigrateFails \/ Stop \/ ByHand \/ Users

\* The two writes of the gateway's row that are not the gateway's own: the seed's, and
\* the end of the handlers when the API stops.
Touched ==
    \/ lastSeen' = 0 /\ heard' = 0 /\ status' = "online" /\ UNCHANGED <<beats, updates>>
    \/ beats' = {} /\ UNCHANGED <<lastSeen, heard, status, updates>>

-----------------------------------------------------------------------------
\* The steps of the composition are steps of its parts.
LEMMA StepsOfParts ==
    ASSUME StackNext
    PROVE  /\ StartStep \/ UNCHANGED startVars
           /\ HealthNext \/ Touched \/ UNCHANGED healthVars
<1>1. CASE Contact \/ \E now \in 0..MaxDelay : Handler(now)
      BY <1>1 DEF Contact, Handler, HealthNext
<1>2. CASE Tick \/ UpdateOnline \/ UpdateOffline \/ UpdateFails
      BY <1>2 DEF Tick, UpdateOnline, UpdateOffline, UpdateFails, HealthNext
<1>3. CASE \E s \in Seeds : Seeding(s) \/ Refusing(s)
      BY <1>3 DEF Seeding, Refusing, SeedGateways, OtherSeedStep, SeedStep, StartStep, Touched
<1>4. CASE Clock
      BY <1>4 DEF Clock, HealthNext
<1>5. CASE Starting
      BY <1>5 DEF Starting, StartStep
<1>6. CASE Fault
      BY <1>6 DEF Fault, StopServing, StartStep, Touched
<1>7. CASE (ByHand \/ Users) /\ UNCHANGED healthVars
      BY <1>7 DEF StartStep
<1> QED BY <1>1, <1>2, <1>3, <1>4, <1>5, <1>6, <1>7 DEF StackNext

-----------------------------------------------------------------------------
\* The database.

\* The snapshot of the seed's draft keeps the invariant: the first, if the run is alone.
LEMMA CreateSnapshotKeeps ==
    ASSUME StartInv, NEW s \in Seeds, CreateSnapshot(s)
    PROVE  StartInv'
<1>1. /\ step[s] = "create snapshot" /\ step' = [step EXCEPT ![s] = "logs"]
      /\ alone' = [x \in Seeds |-> alone[x] /\ x \notin Seeds \ {s}]
      /\ snapshots' = [snapshots EXCEPT ![Seeded] = snapshots[Seeded] + 1]
      /\ UNCHANGED <<container, readings, corrected, drafts, preset>>
      BY DEF CreateSnapshot, Moves, Disturb
<1>2. StartTypeOK /\ corrected \subseteq readings /\ (alone[s] => SeededSoFar(s))
      BY DEF StartInv
<1>3. snapshots \in [Drafts -> Nat] /\ Seeded \in Drafts /\ step \in [Seeds -> Steps]
      BY <1>2, StartupAssumption DEF StartTypeOK
<1>4. /\ snapshots' \in [Drafts -> Nat]
      /\ snapshots[Seeded] = 0 => snapshots'[Seeded] = 1
      <2> DEFINE n == snapshots[Seeded] + 1
      <2>1. n \in Nat /\ (snapshots[Seeded] = 0 => n = 1)
            BY <1>3
      <2>2. snapshots' = [snapshots EXCEPT ![Seeded] = n]
            BY <1>1
      <2> HIDE DEF n
      <2> QED BY <1>3, <2>1, <2>2
<1>5. step' \in [Seeds -> Steps] /\ step'[s] = "logs"
      BY <1>1, <1>3 DEF Steps
<1>6. alone' \in [Seeds -> BOOLEAN]
      BY <1>1, <1>2 DEF StartTypeOK
<1>7. StartTypeOK'
      BY <1>1, <1>2, <1>4, <1>5, <1>6 DEF StartTypeOK
<1>8. ASSUME NEW x \in Seeds, alone'[x]
      PROVE  SeededSoFar(x)'
      <2>1. x = s /\ alone[s]
            BY <1>1, <1>8
      <2>2. /\ readings = {Demo} /\ corrected = {} /\ drafts = {Seeded}
            /\ snapshots[Seeded] = 0 /\ preset
            BY <1>1, <1>2, <2>1 DEF SeededSoFar, AfterReadings, AfterBillingData
      <2>3. /\ readings' = {Demo} /\ corrected' = {} /\ drafts' = {Seeded}
            /\ snapshots'[Seeded] = 1 /\ step'[x] = "logs" /\ preset'
            BY <1>1, <1>4, <1>5, <2>1, <2>2
      <2> QED BY <2>3 DEF SeededSoFar
<1> QED BY <1>1, <1>2, <1>7, <1>8 DEF StartInv

\* A statement of the seed keeps the invariant: it takes its own run one statement on,
\* and the other runs are no longer alone.
LEMMA SeedStepKeeps ==
    ASSUME StartInv, NEW s \in Seeds, SeedStep(s)
    PROVE  StartInv'
<1> USE DEF StartInv, StartTypeOK, SeededSoFar, AfterReadings, AfterBillingData, Moves, Disturb, Steps, tables
<1>1. CASE UpsertMasterData(s)
      BY <1>1 DEF UpsertMasterData
<1>2. CASE DeleteReadings(s)
      BY <1>2 DEF DeleteReadings
<1>3. CASE CreateReadings(s)
      BY <1>3 DEF CreateReadings
<1>4. CASE UpsertBillingData(s)
      BY <1>4 DEF UpsertBillingData
<1>5. CASE DeleteDrafts(s)
      <2>1. ASSUME NEW x \in Seeds, alone'[x]
            PROVE  SeededSoFar(x)'
            BY <1>5, <2>1, StartupAssumption DEF DeleteDrafts
      <2> QED BY <1>5, <2>1 DEF DeleteDrafts
<1>6. CASE CreateDraft(s)
      <2>1. ASSUME NEW x \in Seeds, alone'[x]
            PROVE  SeededSoFar(x)'
            BY <1>6, <2>1, StartupAssumption DEF CreateDraft
      <2> QED BY <1>6, <2>1, StartupAssumption DEF CreateDraft
<1>7. CASE CreateSnapshot(s)
      BY <1>7, CreateSnapshotKeeps
<1>8. CASE WriteLogs(s)
      BY <1>8 DEF WriteLogs
<1> QED BY <1>1, <1>2, <1>3, <1>4, <1>5, <1>6, <1>7, <1>8 DEF SeedStep

\* So does the end of a run: it is alone no more.
LEMMA AbortKeeps ==
    ASSUME StartInv, NEW s \in Seeds, Abort(s), container' \in {"down", container}
    PROVE  StartInv'
BY DEF StartInv, StartTypeOK, SeededSoFar, AfterReadings, AfterBillingData, Abort, Steps,
   tables

\* So does the beginning of one, which has done nothing yet.
LEMMA BeginKeeps ==
    ASSUME StartInv, NEW s \in Seeds, Begin(s), container' \in {"seed", container}
    PROVE  StartInv'
BY DEF StartInv, StartTypeOK, SeededSoFar, AfterReadings, AfterBillingData, Begin, Steps,
   tables

\* So does a commit of the API, after which no run is alone.
LEMMA UsersKeep ==
    ASSUME StartInv, Users
    PROVE  StartInv'
<1> USE DEF StartInv, StartTypeOK, Commit, Disturb
<1>1. ASSUME NEW r \in Readings, StoreReading(r)
      PROVE  StartInv'
      BY <1>1 DEF StoreReading
<1>2. ASSUME NEW o \in Readings \cup {Demo}, NEW r \in Readings, Correct(o, r)
      PROVE  StartInv'
      BY <1>2 DEF Correct
<1>3. CASE GenerateDelete
      BY <1>3 DEF GenerateDelete
<1>4. ASSUME NEW d \in Drafts \ {Seeded}, GenerateDraft(d)
      PROVE  StartInv'
      BY <1>4 DEF GenerateDraft
<1>5. CASE MakeDefault
      BY <1>5 DEF MakeDefault
<1> QED BY <1>1, <1>2, <1>3, <1>4, <1>5 DEF Users

\* Every step of the database keeps its part of the invariant.
LEMMA StartStepKeeps ==
    ASSUME StartInv, StartStep \/ UNCHANGED startVars
    PROVE  StartInv'
<1>1. ASSUME NEW s \in Seeds, SeedStep(s)
      PROVE  StartInv'
      BY <1>1, SeedStepKeeps
<1>2. ASSUME NEW s \in Seeds, SeedRefused(s) \/ SeedFails(s)
      PROVE  StartInv'
      BY <1>2, AbortKeeps DEF SeedRefused, SeedFails, Abort
<1>3. CASE Up
      BY <1>3 DEF Up, StartInv, StartTypeOK, SeededSoFar, tables
<1>4. CASE Migrate
      BY <1>4, BeginKeeps, StartupAssumption DEF Migrate
<1>5. CASE Serve
      BY <1>5, StartupAssumption DEF Serve, StartInv, StartTypeOK, SeededSoFar, AfterReadings,
         AfterBillingData, Steps, tables
<1>6. CASE MigrateFails \/ Stop
      BY <1>6 DEF MigrateFails, Stop, StartInv, StartTypeOK, SeededSoFar, tables
<1>7. CASE ByHand
      BY <1>7, BeginKeeps DEF ByHand, RunByHand
<1>8. CASE Users
      BY <1>8, UsersKeep
<1>9. CASE UNCHANGED startVars
      BY <1>9 DEF startVars, StartInv, StartTypeOK, SeededSoFar, tables
<1> QED BY <1>1, <1>2, <1>3, <1>4, <1>5, <1>6, <1>7, <1>8, <1>9 DEF StartStep, ContainerStep

-----------------------------------------------------------------------------
\* The gateway's row.

\* A handler keeps the invariant: last_seen_at is set back by no more than it took.
LEMMA HandlerKeeps ==
    ASSUME HealthInv, NEW now \in beats, Heartbeat(now) \/ HandlerFails(now)
    PROVE  HealthInv'
<1> USE HealthAssumption
<1>1. now \in 0..MaxDelay
      BY DEF HealthInv, HealthTypeOK
<1>2. CASE Heartbeat(now)
      <2>1. lastSeen' = now /\ heard' \in {now, heard} /\ status' = "online"
            BY <1>2 DEF Heartbeat, Records
      <2>2. now <= heard' + MaxDelay
            <3>1. heard \in Nat
                  BY DEF HealthInv, HealthTypeOK, Ages, Old
            <3>2. CASE heard' = now
                  BY <1>1, <3>2
            <3>3. CASE heard' = heard
                  BY <1>1, <3>1, <3>3
            <3> QED BY <2>1, <3>2, <3>3
      <2>3. HealthTypeOK'
            BY <1>1, <1>2, <2>1 DEF HealthInv, HealthTypeOK, Heartbeat, Records, Ages, Old
      <2> QED BY <2>1, <2>2, <2>3 DEF HealthInv, HeardLags, HeardIsOnline
<1>3. CASE HandlerFails(now)
      BY <1>3 DEF HandlerFails, HealthInv, HealthTypeOK, HeardLags, HeardIsOnline
<1> QED BY <1>2, <1>3

\* An update of the worker does: one that finds the gateway silent since before its
\* window finds it unheard for longer than the window less a handler's time.
LEMMA UpdateKeeps ==
    ASSUME HealthInv, NEW now \in 0..MaxUpdate,
           MarkOnline(now) \/ MarkOffline(now) \/ TickFails(now)
    PROVE  HealthInv'
<1> USE DEF Updated
<1>1. HealthTypeOK'
      BY DEF HealthInv, HealthTypeOK, MarkOnline, MarkOffline, TickFails
<1>2. UNCHANGED <<lastSeen, heard>>
      BY DEF MarkOnline, MarkOffline, TickFails
<1>3. HeardLags'
      BY <1>2 DEF HealthInv, HeardLags
<1>4. HeardIsOnline'
      <2> SUFFICES ASSUME heard + MaxDelay <= Window
                   PROVE  status' = "online"
          BY <1>2 DEF HeardIsOnline
      <2>1. status = "online"
            BY DEF HealthInv, HeardIsOnline
      <2>2. IsOnline(lastSeen, now)
            BY HealthAssumption DEF HealthInv, HealthTypeOK, HeardLags, IsOnline, Ages, Old
      <2> QED BY <2>1, <2>2 DEF MarkOnline, MarkOffline, TickFails
<1> QED BY <1>1, <1>3, <1>4 DEF HealthInv

\* The clock does: both ages grow, to Old at most.
LEMMA PassKeeps ==
    ASSUME HealthInv, Pass
    PROVE  HealthInv'
<1> USE HealthAssumption DEF HealthInv, HealthTypeOK
<1>1. lastSeen' \in Ages /\ heard' \in Ages /\ HeardLags' /\ HeardIsOnline'
      BY DEF Pass, Older, Ages, Old, HeardLags, HeardIsOnline
<1>2. beats' \subseteq 0..MaxDelay
      <2> SUFFICES ASSUME NEW now \in beats
                   PROVE  now + 1 \in 0..MaxDelay
          BY DEF Pass
      <2>1. now \in 0..MaxDelay /\ now # MaxDelay
            BY DEF Pass
      <2> QED BY <2>1
<1>3. updates' \subseteq (0..MaxUpdate) \X {"online", "offline"}
      <2> SUFFICES ASSUME NEW u \in updates
                   PROVE  <<u[1] + 1, u[2]>> \in (0..MaxUpdate) \X {"online", "offline"}
          BY DEF Pass
      <2>1. u[1] \in 0..MaxUpdate /\ u[1] # MaxUpdate /\ u[2] \in {"online", "offline"}
            BY DEF Pass
      <2> QED BY <2>1
<1>4. status' \in {"online", "offline"}
      BY DEF Pass
<1> QED BY <1>1, <1>2, <1>3, <1>4

\* Every step of the gateway's row keeps its part of the invariant.
LEMMA HealthNextKeeps ==
    ASSUME HealthInv, HealthNext \/ Touched \/ UNCHANGED healthVars
    PROVE  HealthInv'
<1> USE HealthAssumption
<1>1. CASE ReceiveReadings
      BY <1>1 DEF ReceiveReadings, HealthInv, HealthTypeOK, HeardLags, HeardIsOnline
<1>2. CASE StartTick
      <2>1. HealthTypeOK'
            BY <1>2 DEF StartTick, HealthInv, HealthTypeOK
      <2> QED BY <1>2, <2>1 DEF StartTick, HealthInv, HeardLags, HeardIsOnline
<1>3. ASSUME NEW now \in beats, Heartbeat(now) \/ HandlerFails(now)
      PROVE  HealthInv'
      BY <1>3, HandlerKeeps
<1>4. ASSUME NEW now \in 0..MaxUpdate, MarkOnline(now) \/ MarkOffline(now) \/ TickFails(now)
      PROVE  HealthInv'
      BY <1>4, UpdateKeeps
<1>5. CASE Pass
      BY <1>5, PassKeeps
<1>6. CASE Touched
      <2>1. CASE beats' = {} /\ UNCHANGED <<lastSeen, heard, status, updates>>
            BY <2>1 DEF HealthInv, HealthTypeOK, HeardLags, HeardIsOnline
      <2>2. CASE /\ lastSeen' = 0 /\ heard' = 0 /\ status' = "online"
                 /\ UNCHANGED <<beats, updates>>
            BY <2>2 DEF HealthInv, HealthTypeOK, HeardLags, HeardIsOnline, Ages, Old
      <2> QED BY <1>6, <2>1, <2>2 DEF Touched
<1>7. CASE UNCHANGED healthVars
      BY <1>7 DEF healthVars, HealthInv, HealthTypeOK, HeardLags, HeardIsOnline
<1> QED BY <1>1, <1>2, <1>3, <1>4, <1>5, <1>6, <1>7 DEF HealthNext

-----------------------------------------------------------------------------
\* IInv is an invariant of the stack.
THEOREM StackInvariant == StackSpec => []IInv
<1>1. IInv <=> StartInv /\ HealthInv
      BY DEF IInv, StartInv, HealthInv, StackTypeOK
<1>2. StackInit => IInv
      <2> SUFFICES ASSUME StackInit PROVE StartInv /\ HealthInv
          BY <1>1
      <2>1. StartInv
            BY DEF StackInit, StartInit, StartInv, StartTypeOK, SeededSoFar, Steps
      <2>2. HealthInv
            BY HealthAssumption
            DEF StackInit, HealthInit, HealthInv, HealthTypeOK, HeardLags, HeardIsOnline, Ages, Old
      <2> QED BY <2>1, <2>2
<1>3. IInv /\ [StackNext]_stackVars => IInv'
      <2> SUFFICES ASSUME IInv, [StackNext]_stackVars
                   PROVE  IInv'
          OBVIOUS
      <2>1. /\ StartStep \/ UNCHANGED startVars
            /\ HealthNext \/ Touched \/ UNCHANGED healthVars
            BY StepsOfParts DEF stackVars
      <2>2. StartInv' /\ HealthInv'
            BY <1>1, <2>1, StartStepKeeps, HealthNextKeeps
      <2> QED BY <2>2 DEF IInv, StartInv, HealthInv, StackTypeOK
<1> QED BY <1>2, <1>3, PTL DEF StackSpec

\* A run of the seed that nothing disturbed leaves exactly the demo data (seed.ts).
THEOREM SeedIsExact == StackSpec => []SeededIsExact
<1>1. IInv => SeededIsExact
      BY DEF IInv, SeededSoFar, AfterReadings, AfterBillingData, SeededIsExact
<1> QED BY <1>1, StackInvariant, PTL

\* A gateway heard well within the window is online (ingestion/route.ts, apps/worker).
THEOREM HeardGatewaysAreOnline == StackSpec => []HeardIsOnline
<1>1. IInv => HeardIsOnline
      BY DEF IInv
<1> QED BY <1>1, StackInvariant, PTL

\* No start of the API, no seed and no commit takes away a reading of a correction, or
\* the correction (ON DELETE RESTRICT, schema.prisma).
THEOREM LineageIsKept == StackSpec => LineageSurvivesSeed
<1>1. StartStep => KeepsLineage
      <2> USE DEF KeepsLineage, tables
      <2>1. ASSUME NEW s \in Seeds, SeedStep(s)
            PROVE  KeepsLineage
            BY <2>1 DEF SeedStep, UpsertMasterData, DeleteReadings, CreateReadings,
               UpsertBillingData, DeleteDrafts, CreateDraft, CreateSnapshot, WriteLogs
      <2>2. ASSUME NEW s \in Seeds, SeedRefused(s) \/ SeedFails(s)
            PROVE  KeepsLineage
            BY <2>2 DEF SeedRefused, SeedFails, Abort
      <2>3. CASE ContainerStep \/ MigrateFails \/ Stop \/ ByHand
            BY <2>3 DEF ContainerStep, Up, Migrate, Serve, MigrateFails, Stop, ByHand,
               RunByHand, Begin
      <2>4. CASE Users
            BY <2>4 DEF Users, StoreReading, Correct, GenerateDelete, GenerateDraft, MakeDefault
      <2> QED BY <2>1, <2>2, <2>3, <2>4 DEF StartStep
<1>2. [StackNext]_stackVars => [KeepsLineage]_stackVars
      BY <1>1, StepsOfParts DEF stackVars, startVars, tables, KeepsLineage
<1> QED BY <1>2, PTL DEF StackSpec, LineageSurvivesSeed
=============================================================================
