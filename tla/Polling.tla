------------------------------- MODULE Polling -------------------------------
(***************************************************************************)
(* How readings get into the gateway's buffer: the scheduler's poll        *)
(* (gateway/app/scheduler.py) over the two adapters that have input of     *)
(* their own, MQTT (mqtt_adapter.py, a queue filled by the client's        *)
(* thread) and CSV drop (csv_drop.py, a watch folder filled by others).    *)
(*                                                                         *)
(* Only the SQLite table and the folders outlive the process.  fetch       *)
(* removes its input from queue and folder before insert_readings commits. *)
(* The two folders are two volumes (gateway/docker-compose.yml), so that a *)
(* file moves by being copied and then unlinked; a file of the archive is  *)
(* here the first complete copy of it, and the time in its name, and the   *)
(* copies that were cut off, are left out.                                 *)
(***************************************************************************)
EXTENDS Integers, FiniteSets

CONSTANTS
    Files,      \* CSV files, as numbers in the order of their names
    Content,    \* Content[f]: the readings in file f
    Malformed,  \* files with a row that does not parse
    Messages,   \* readings published on the MQTT topic
    MaxDrain    \* max_drain_batch

Readings == Messages \cup UNION {Content[f] : f \in Files}

ASSUME PollingAssumption ==
    /\ Files \subseteq Nat /\ IsFiniteSet(Files)
    /\ DOMAIN Content = Files
    /\ IsFiniteSet(Readings)
    /\ Malformed \subseteq Files
    /\ MaxDrain \in Nat \ {0}

VARIABLES
    unread,     \* files that will still be dropped, messages still to publish
    folder,     \* files in watch_dir
    archive,    \* files in processed_dir
    queue,      \* the MQTT adapter's queue
    buffer,     \* readings in buffered_readings
    pc,         \* rest, mqtt, mqtt_store, csv, csv_copy, csv_unlink, csv_store, down
    listing,    \* the sorted glob of this fetch, what is left of it
    fetched,    \* readings this fetch has collected
    lost        \* history: readings that a crash or an exception dropped

vars == <<unread, folder, archive, queue, buffer, pc, listing, fetched, lost>>
inputs == <<unread, folder, archive, queue>>

InFiles(files) == UNION {Content[f] : f \in files}

Drop(f) ==
    /\ f \in unread.files
    /\ unread' = [unread EXCEPT !.files = @ \ {f}]
    /\ folder' = folder \cup {f}
    /\ UNCHANGED <<archive, queue, buffer, pc, listing, fetched, lost>>

\* on_message, on the client's thread; while the gateway is down the broker drops
\* the message (QoS 0).
Publish(m) ==
    /\ m \in unread.messages
    /\ unread' = [unread EXCEPT !.messages = @ \ {m}]
    /\ IF pc = "down" THEN lost' = lost \cup {m} /\ UNCHANGED queue
       ELSE queue' = queue \cup {m} /\ UNCHANGED lost
    /\ UNCHANGED <<folder, archive, buffer, pc, listing, fetched>>

StartPoll ==
    /\ pc = "rest"
    /\ pc' = "mqtt"
    /\ UNCHANGED <<inputs, buffer, listing, fetched, lost>>

\* Variant of the next action: the rest of the queue is thrown away.
FetchMqttOnce ==
    /\ pc = "mqtt"
    /\ \E drained \in SUBSET queue :
         /\ Cardinality(drained) <= MaxDrain
         /\ drained = queue \/ Cardinality(drained) = MaxDrain
         /\ queue' = {}
         /\ fetched' = drained
    /\ pc' = "mqtt_store"
    /\ UNCHANGED <<unread, folder, archive, buffer, listing, lost>>

\* Drain at most MaxDrain readings; more may arrive while it drains.
FetchMqtt ==
    /\ pc = "mqtt"
    /\ \E drained \in SUBSET queue :
         /\ Cardinality(drained) <= MaxDrain
         /\ drained = queue \/ Cardinality(drained) = MaxDrain
         /\ queue' = queue \ drained
         /\ fetched' = drained
    /\ pc' = "mqtt_store"
    /\ UNCHANGED <<unread, folder, archive, buffer, listing, lost>>

\* insert_readings: one transaction, readings already there are ignored.
Commit ==
    /\ buffer' = buffer \cup fetched
    /\ fetched' = {}
    /\ UNCHANGED lost

\* An exception out of fetch or insert_readings is logged; the readings of this
\* fetch are garbage, and gone unless a file still in the folder has them.
Abandon ==
    /\ lost' = lost \cup (fetched \ (buffer \cup InFiles(folder)))
    /\ fetched' = {}
    /\ UNCHANGED buffer

\* Variant of the next action: one try around both adapters.
StoreMqttOrEnd ==
    /\ pc = "mqtt_store"
    /\ \/ Commit /\ pc' = "csv" /\ listing' = folder
       \/ Abandon /\ pc' = "rest" /\ UNCHANGED listing
    /\ UNCHANGED inputs

StoreMqtt ==
    /\ pc = "mqtt_store"
    /\ Commit \/ Abandon
    /\ listing' = folder
    /\ pc' = "csv"
    /\ UNCHANGED inputs

First(files) == CHOOSE f \in files : \A g \in files : f <= g

\* One round of the loop over the sorted files: parse and collect.  A file that does
\* not parse raises: it stays, and so do the files behind it.
ParseFile ==
    /\ pc = "csv"
    /\ listing # {}
    /\ LET f == First(listing) IN
       IF f \in Malformed
       THEN Abandon /\ listing' = {} /\ pc' = "rest"
       ELSE /\ fetched' = fetched \cup Content[f]
            /\ pc' = "csv_copy"
            /\ UNCHANGED <<listing, buffer, lost>>
    /\ UNCHANGED inputs

\* Variant of the next action: the file is unlinked first, to be written out after.
CopyFileAfterUnlink ==
    /\ pc = "csv_copy"
    /\ folder' = folder \ {First(listing)}
    /\ pc' = "csv_unlink"
    /\ UNCHANGED <<unread, archive, queue, buffer, listing, fetched, lost>>

\* shutil.move between two volumes copies the file,
CopyFile ==
    /\ pc = "csv_copy"
    /\ archive' = archive \cup {First(listing)}
    /\ pc' = "csv_unlink"
    /\ UNCHANGED <<unread, folder, queue, buffer, listing, fetched, lost>>

\* and unlinks it where it was.
UnlinkFile ==
    /\ pc = "csv_unlink"
    /\ folder' = folder \ {First(listing)}
    /\ listing' = listing \ {First(listing)}
    /\ pc' = "csv"
    /\ UNCHANGED <<unread, archive, queue, buffer, fetched, lost>>

\* The copy or the unlink raises (a full disk, a read-only volume): the file stays.
MoveFails ==
    /\ pc \in {"csv_copy", "csv_unlink"}
    /\ Abandon
    /\ listing' = {}
    /\ pc' = "rest"
    /\ UNCHANGED inputs

FetchCsvDone ==
    /\ pc = "csv"
    /\ listing = {}
    /\ pc' = "csv_store"
    /\ UNCHANGED <<inputs, buffer, listing, fetched, lost>>

StoreCsv ==
    /\ pc = "csv_store"
    /\ Commit \/ Abandon
    /\ pc' = "rest"
    /\ UNCHANGED <<inputs, listing>>

\* The process ends (also in an orderly stop): queue and fetched are memory.
Crash ==
    /\ pc # "down"
    /\ lost' = lost \cup ((queue \cup fetched) \ (buffer \cup InFiles(folder)))
    /\ queue' = {} /\ fetched' = {} /\ listing' = {}
    /\ pc' = "down"
    /\ UNCHANGED <<unread, folder, archive, buffer>>

Restart ==
    /\ pc = "down"
    /\ pc' = "rest"
    /\ UNCHANGED <<inputs, buffer, listing, fetched, lost>>

Init ==
    /\ unread = [files |-> Files, messages |-> Messages]
    /\ folder = {} /\ archive = {} /\ queue = {} /\ buffer = {}
    /\ pc = "rest" /\ listing = {} /\ fetched = {} /\ lost = {}

Poll ==
    \/ StartPoll \/ FetchMqtt \/ StoreMqtt
    \/ ParseFile \/ CopyFile \/ UnlinkFile \/ FetchCsvDone \/ StoreCsv

Next ==
    \/ \E f \in Files : Drop(f)
    \/ \E m \in Messages : Publish(m)
    \/ Poll \/ MoveFails \/ Crash \/ Restart

Spec == Init /\ [][Next]_vars

\* The scheduler loops, and docker restarts it.
LiveSpec == Spec /\ WF_vars(Poll) /\ WF_vars(Restart)

-----------------------------------------------------------------------------
Stages == {"rest", "mqtt", "mqtt_store", "csv", "csv_copy", "csv_unlink", "csv_store", "down"}

\* Every variable has its type.
TypeOK ==
    /\ unread \in [files: SUBSET Files, messages: SUBSET Messages]
    /\ folder \subseteq Files /\ archive \subseteq Files /\ listing \subseteq Files
    /\ queue \subseteq Messages
    /\ buffer \subseteq Readings /\ fetched \subseteq Readings /\ lost \subseteq Readings
    /\ pc \in Stages

\* A reading that entered the gateway waits in the folder or the queue, is in the
\* poll's hands, or is persisted; what is none of these was dropped by a crash or a
\* logged exception.
Conservation ==
    (Messages \ unread.messages) \cup InFiles(Files \ unread.files) \subseteq
        InFiles(folder) \cup queue \cup fetched \cup buffer \cup lost

\* However a move is interrupted, no file is lost: it leaves the watch folder only
\* when all of it is in the archive, so that every file dropped is in one of the two
\* (in both while it moves, and after an interrupted move until the next fetch).
NoFileIsLost == folder \cup archive = Files \ unread.files

\* The gateway works off its folder: once it stops crashing and its moves succeed, a
\* file leaves the folder unless a malformed one is in its way.
FolderIsConsumed ==
    <>[][~Crash /\ ~MoveFails]_vars => \A f \in Files : f \in folder ~>
        (f \notin folder \/ \E g \in Malformed \cap folder : g <= f)

=============================================================================
