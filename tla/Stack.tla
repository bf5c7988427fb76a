---------------------------------- MODULE Stack ----------------------------------
(***************************************************************************)
(* The containers of docker-compose.yml together: the API that starts by   *)
(* way of the seed, the worker, and a gateway of the demo tenant.  They    *)
(* meet in the gateway's row, which the seed overwrites as well.           *)
(***************************************************************************)
EXTENDS Startup, GatewayHealth

stackVars == <<startVars, healthVars>>

\* The seed sets lastSeenAt to the present and the status to online.
SeedGateways(s) ==
    /\ UpsertMasterData(s)
    /\ lastSeen' = 0 /\ heard' = 0 /\ status' = "online"
    /\ UNCHANGED <<beats, updates>>

OtherSeedStep(s) ==
    SeedStep(s) /\ step[s] # "master data" /\ UNCHANGED healthVars

\* Requests are received while the API serves, and end with it.
Contact == container = "serving" /\ ReceiveReadings /\ UNCHANGED startVars
StopServing ==
    /\ Stop
    /\ beats' = {}
    /\ UNCHANGED <<lastSeen, heard, status, updates>>

Handler(now) ==
    now \in beats /\ (Heartbeat(now) \/ HandlerFails(now)) /\ UNCHANGED startVars
Tick == StartTick /\ UNCHANGED startVars
UpdateOnline == (\E now \in 0..MaxUpdate : MarkOnline(now)) /\ UNCHANGED startVars
UpdateOffline == (\E now \in 0..MaxUpdate : MarkOffline(now)) /\ UNCHANGED startVars
UpdateFails == (\E now \in 0..MaxUpdate : TickFails(now)) /\ UNCHANGED startVars
Clock == Pass /\ UNCHANGED startVars
Seeding(s) == SeedGateways(s) \/ OtherSeedStep(s)
Starting == ContainerStep /\ UNCHANGED healthVars
Refusing(s) == SeedRefused(s) /\ UNCHANGED healthVars

Fault ==
    \/ StopServing
    \/ (MigrateFails \/ \E s \in Seeds : SeedFails(s)) /\ UNCHANGED healthVars

StackInit == StartInit /\ HealthInit

StackNext ==
    \/ Contact \/ \E now \in 0..MaxDelay : Handler(now)
    \/ Tick \/ UpdateOnline \/ UpdateOffline \/ UpdateFails
    \/ \E s \in Seeds : Seeding(s) \/ Refusing(s)
    \/ Clock \/ Starting \/ Fault
    \/ (ByHand \/ Users) /\ UNCHANGED healthVars

StackSpec == StackInit /\ [][StackNext]_stackVars

\* The API container's own process: the runtime restarts it whenever it has ended.
Container == Starting \/ Seeding(Boot) \/ Refusing(Boot)

\* Time passes, and no handler outlasts MaxDelay, no update MaxUpdate.  (Where nothing ages
\* any more, a clock step changes nothing.)
Aged == lastSeen = Old /\ heard = Old /\ beats = {} /\ updates = {}
TimePasses == []<><<Clock>>_stackVars \/ []<>Aged

\* The container takes its next step, the worker's interval recurs and not all of its
\* updates fail.
LiveSpec ==
    /\ StackSpec
    /\ WF_stackVars(Container)
    /\ WF_stackVars(Tick) /\ SF_stackVars(UpdateOffline)
    /\ TimePasses

-----------------------------------------------------------------------------
StackTypeOK == StartTypeOK /\ HealthTypeOK

\* What a run of the seed that is alone has done so far.
AfterBillingData == {"delete drafts", "create draft", "create snapshot", "logs", "done"}
AfterReadings == {"billing data"} \cup AfterBillingData
SeededSoFar(s) ==
    /\ step[s] = "create readings" => readings = {} /\ corrected = {}
    /\ step[s] \in AfterReadings => readings = {Demo} /\ corrected = {}
    /\ step[s] \in AfterBillingData => preset
    /\ step[s] = "create draft" => drafts = {}
    /\ step[s] \in {"create snapshot", "logs", "done"} => drafts = {Seeded}
    /\ step[s] \in {"create draft", "create snapshot"} => snapshots[Seeded] = 0
    /\ step[s] \in {"logs", "done"} => snapshots[Seeded] = 1

\* last_seen_at lags behind the latest time ever recorded by no more than a handler
\* takes.
HeardLags == lastSeen <= heard + MaxDelay

\* The inductive invariant behind the safety properties.
IInv ==
    /\ StackTypeOK
    /\ corrected \subseteq readings
    /\ \A s \in Seeds : alone[s] => SeededSoFar(s)
    /\ HeardLags /\ HeardIsOnline

LineageSurvivesSeed == [][KeepsLineage]_stackVars

\* Once faults stop, the API is up for good, or users have corrected a reading (which
\* the seed cannot get past).
FaultsStop == <>[][~Fault /\ ~ByHand]_stackVars
ServesUnlessCorrected ==
    FaultsStop => <>[](container = "serving") \/ <>(corrected # {})

\* A gateway that falls silent, and whose row no seed touches, is offline in the end,
\* however the worker's updates overlap and whichever of them fail.
Heard == (\E now \in beats : Heartbeat(now)) \/ \E s \in Seeds : SeedGateways(s)
SilentGoesOffline == <>[][~Heard]_stackVars => <>[](status = "offline")

\* README.md, "Docker deployment": `docker compose up -d --build` starts the api.
ServesAgain == FaultsStop => <>[](container = "serving")
=============================================================================
