----------------------------- MODULE GatewayHealth -----------------------------
(***************************************************************************)
(* When a gateway counts as online: the ingestion handler records the time *)
(* it read a request (ingestion/route.ts), and the worker (apps/worker)    *)
(* sets the status from it with two updates that run at once.  A tick does *)
(* not wait for the one before it.                                         *)
(*                                                                         *)
(* A point in time is its age, in clock steps, up to Old: from there on,   *)
(* and without a value (null), everything is decided alike.                *)
(***************************************************************************)
EXTENDS Integers, FiniteSets

CONSTANTS
    Window,     \* five minutes
    MaxDelay,   \* bound: how long a handler may take
    MaxUpdate   \* bound: how long an update of the worker may take

ASSUME HealthAssumption == Window \in Nat /\ MaxDelay \in Nat /\ MaxUpdate \in Nat

VARIABLES
    lastSeen,   \* gateways.last_seen_at
    heard,      \* history: the latest time ever recorded
    status,     \* gateways.status
    beats,      \* ingestion requests in flight: each one's `now`
    updates     \* the worker's updates in flight: <<its tick's `now`, new status>>

healthVars == <<lastSeen, heard, status, beats, updates>>

Old == Window + MaxDelay + MaxUpdate + 1
Ages == 0..Old
Older(age) == IF age < Old THEN age + 1 ELSE Old

\* A request is read: `now`, before anything else is done.  (Requests read in one clock
\* step count as one: what they record is the same.)
ReceiveReadings ==
    /\ beats' = beats \cup {0}
    /\ UNCHANGED <<lastSeen, heard, status, updates>>

Records(now, age) ==
    /\ beats' = beats \ {now}
    /\ lastSeen' = age
    /\ heard' = IF now < heard THEN now ELSE heard
    /\ status' = "online"
    /\ UNCHANGED updates

\* Variant of the next action: the time of the newest reading.
HeartbeatOfReading(now) == \E age \in now..Old : Records(now, age)

\* gateway.update, whatever a faster handler has recorded meanwhile.
Heartbeat(now) == Records(now, now)

HandlerFails(now) ==
    /\ beats' = beats \ {now}
    /\ UNCHANGED <<lastSeen, heard, status, updates>>

\* markGatewayHealth: the threshold is computed when the tick begins.
StartTick ==
    /\ updates' = updates \cup ({0} \X {"online", "offline"})
    /\ UNCHANGED <<lastSeen, heard, status, beats>>

IsOnline(age, now) == age <= Window + now

Updated(now, new) ==
    /\ <<now, new>> \in updates
    /\ updates' = updates \ {<<now, new>>}
    /\ UNCHANGED <<lastSeen, heard, beats>>

MarkOnline(now) ==
    /\ Updated(now, "online")
    /\ status' = IF IsOnline(lastSeen, now) THEN "online" ELSE status

\* Variant of the next action: only gateways whose window has just ended.
MarkNewlyOffline(now) ==
    /\ Updated(now, "offline")
    /\ status' = IF lastSeen = Window + now + 1 THEN "offline" ELSE status

MarkOffline(now) ==
    /\ Updated(now, "offline")
    /\ status' = IF ~IsOnline(lastSeen, now) THEN "offline" ELSE status

\* An update fails, or the worker dies first (and is restarted).
TickFails(now) ==
    /\ \E new \in {"online", "offline"} :
         <<now, new>> \in updates /\ updates' = updates \ {<<now, new>>}
    /\ UNCHANGED <<lastSeen, heard, status, beats>>

\* The clock.
Pass ==
    /\ MaxDelay \notin beats
    /\ \A u \in updates : u[1] # MaxUpdate
    /\ lastSeen' = Older(lastSeen) /\ heard' = Older(heard)
    /\ beats' = {now + 1 : now \in beats}
    /\ updates' = {<<u[1] + 1, u[2]>> : u \in updates}
    /\ UNCHANGED status

HealthInit ==
    /\ lastSeen = Old /\ heard = Old /\ status = "offline"
    /\ beats = {} /\ updates = {}

HealthNext ==
    \/ ReceiveReadings \/ \E now \in beats : Heartbeat(now) \/ HandlerFails(now)
    \/ StartTick
    \/ \E now \in 0..MaxUpdate : MarkOnline(now) \/ MarkOffline(now) \/ TickFails(now)
    \/ Pass

HealthTypeOK ==
    /\ lastSeen \in Ages /\ heard \in Ages
    /\ status \in {"online", "offline"}
    /\ beats \subseteq 0..MaxDelay
    /\ updates \subseteq (0..MaxUpdate) \X {"online", "offline"}

\* A gateway heard well within the window is not offline, however handlers overtake each
\* other (a slow one sets last_seen_at back) and the worker's updates fall between.
HeardIsOnline == heard + MaxDelay <= Window => status = "online"
=============================================================================
