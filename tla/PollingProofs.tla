------------------------------ MODULE PollingProofs ------------------------------
(***************************************************************************)
(* Proofs about Polling: no reading leaves the gateway unaccounted for and *)
(* no file is lost between the folders, for any files, messages and batch. *)
(***************************************************************************)
EXTENDS Polling, WellFoundedInduction, TLAPS

\* Only a fetch has readings in hand, from its drain or its first file on.
HandsAreEmpty == pc \in {"rest", "mqtt", "down"} => fetched = {}

\* The loop has files of the folder; the one it moves is in hand, and once copied in
\* the archive.
Moving ==
    /\ listing \subseteq folder
    /\ pc \in {"csv_copy", "csv_unlink"} =>
           First(listing) \in listing /\ Content[First(listing)] \subseteq fetched
    /\ pc = "csv_unlink" => First(listing) \in archive

IInv == TypeOK /\ Conservation /\ NoFileIsLost /\ Moving /\ HandsAreEmpty

\* Some file is the first.
Less == {ss \in Nat \X Nat : ss[1] < ss[2]}

LEMMA LessIsWellFounded == IsWellFoundedOn(Less, Nat)
BY NatLessThanWellFounded DEF OpToRel, Less

\* The first of some files is one of them.
LEMMA FirstIsOne ==
    ASSUME NEW files \in SUBSET Nat, files # {}
    PROVE  First(files) \in files
<1>1. PICK f \in files : \A g \in files : ~(<<g, f>> \in Less)
      BY LessIsWellFounded, WFMin
<1>2. \A g \in files : f <= g
      <2> SUFFICES ASSUME NEW g \in files
                   PROVE  f <= g
          OBVIOUS
      <2>1. <<g, f>> \in Nat \X Nat /\ <<g, f>> \notin Less
            BY <1>1
      <2>2. ~(<<g, f>>[1] < <<g, f>>[2])
            BY <2>1 DEF Less
      <2> QED BY <2>1, <2>2
<1> QED BY <1>2 DEF First

\* Publishing and dropping change one field of unread.
FilesLeft(u, f) == [u EXCEPT !.files = @ \ {f}]
MessagesLeft(u, m) == [u EXCEPT !.messages = @ \ {m}]

LEMMA Left ==
    ASSUME NEW u \in [files: SUBSET Files, messages: SUBSET Messages], NEW x
    PROVE  /\ FilesLeft(u, x) \in [files: SUBSET Files, messages: SUBSET Messages]
           /\ FilesLeft(u, x).files = u.files \ {x} /\ FilesLeft(u, x).messages = u.messages
           /\ MessagesLeft(u, x) \in [files: SUBSET Files, messages: SUBSET Messages]
           /\ MessagesLeft(u, x).files = u.files
           /\ MessagesLeft(u, x).messages = u.messages \ {x}
BY DEF FilesLeft, MessagesLeft

\* The readings of a file are in its folder's.
LEMMA ContentIsInFiles ==
    ASSUME NEW files, NEW f \in files
    PROVE  /\ Content[f] \subseteq InFiles(files)
           /\ InFiles(files) = InFiles(files \ {f}) \cup Content[f]
BY DEF InFiles

-----------------------------------------------------------------------------
\* Input arrives.
LEMMA InputKeeps ==
    ASSUME IInv, (\E f \in Files : Drop(f)) \/ (\E m \in Messages : Publish(m))
    PROVE  IInv'
<1> USE DEF IInv, TypeOK, HandsAreEmpty
<1>1. ASSUME NEW f \in Files, Drop(f)
      PROVE  IInv'
      <2>1. /\ unread' = FilesLeft(unread, f) /\ f \in unread.files
            /\ folder' = folder \cup {f}
            /\ UNCHANGED <<archive, queue, buffer, pc, listing, fetched, lost>>
            BY <1>1 DEF Drop, FilesLeft
      <2>2. /\ unread' \in [files: SUBSET Files, messages: SUBSET Messages]
            /\ unread'.files = unread.files \ {f} /\ unread'.messages = unread.messages
            BY <2>1, Left
      <2>3. NoFileIsLost' /\ Moving'
            BY <2>1, <2>2 DEF NoFileIsLost, Moving
      <2>4. InFiles(Files \ unread'.files) \subseteq InFiles(Files \ unread.files) \cup Content[f]
            BY <2>2 DEF InFiles
      <2>5. InFiles(folder') = InFiles(folder) \cup Content[f]
            BY <2>1 DEF InFiles
      <2>6. Conservation'
            BY <2>1, <2>2, <2>4, <2>5 DEF Conservation
      <2> QED BY <2>1, <2>2, <2>3, <2>6
<1>2. ASSUME NEW m \in Messages, Publish(m)
      PROVE  IInv'
      <2>1. /\ unread' = MessagesLeft(unread, m) /\ m \in unread.messages
            /\ \/ queue' = queue \cup {m} /\ UNCHANGED lost
               \/ lost' = lost \cup {m} /\ UNCHANGED queue
            /\ UNCHANGED <<folder, archive, buffer, pc, listing, fetched>>
            BY <1>2 DEF Publish, MessagesLeft
      <2>2. /\ unread' \in [files: SUBSET Files, messages: SUBSET Messages]
            /\ unread'.files = unread.files /\ unread'.messages = unread.messages \ {m}
            BY <2>1, Left
      <2>3. NoFileIsLost' /\ Moving'
            BY <2>1, <2>2 DEF NoFileIsLost, Moving
      <2>4. Conservation'
            BY <2>1, <2>2 DEF Conservation
      <2>5. m \in Readings
            BY DEF Readings
      <2> QED BY <2>1, <2>2, <2>3, <2>4, <2>5
<1> QED BY <1>1, <1>2

\* What a commit or an exception does to the readings in hand: all of them are in the
\* table, in a file of the folder, or among the lost.
LEMMA HandsAreEmptied ==
    ASSUME TypeOK, Commit \/ Abandon
    PROVE  /\ fetched' = {} /\ buffer \subseteq buffer' /\ lost \subseteq lost'
           /\ fetched \subseteq buffer' \cup InFiles(folder) \cup lost'
           /\ buffer' \subseteq Readings /\ lost' \subseteq Readings
BY DEF TypeOK, Commit, Abandon

\* MQTT: drained readings pass from the queue into the poll's hands.
LEMMA MqttKeeps ==
    ASSUME IInv, StartPoll \/ FetchMqtt \/ StoreMqtt
    PROVE  IInv'
<1> USE DEF IInv, TypeOK, HandsAreEmpty, inputs, Stages
<1>1. CASE StartPoll
      BY <1>1 DEF StartPoll, Conservation, NoFileIsLost, Moving
<1>2. CASE FetchMqtt
      <2>1. PICK drained \in SUBSET queue : queue' = queue \ drained /\ fetched' = drained
            BY <1>2 DEF FetchMqtt
      <2>2. /\ pc = "mqtt" /\ pc' = "mqtt_store" /\ fetched = {}
            /\ UNCHANGED <<unread, folder, archive, buffer, listing, lost>>
            BY <1>2 DEF FetchMqtt
      <2>3. Conservation'
            BY <2>1, <2>2 DEF Conservation
      <2>4. queue' \subseteq Messages /\ fetched' \subseteq Readings
            BY <2>1 DEF Readings
      <2> QED BY <2>2, <2>3, <2>4 DEF NoFileIsLost, Moving
<1>3. CASE StoreMqtt
      BY <1>3, HandsAreEmptied DEF StoreMqtt, Conservation, NoFileIsLost, Moving
<1> QED BY <1>1, <1>2, <1>3

\* CSV: a file's readings are in the poll's hands before it is in the archive, and it
\* is in the archive before it leaves the folder.
LEMMA CsvKeeps ==
    ASSUME IInv, ParseFile \/ CopyFile \/ UnlinkFile \/ MoveFails \/ FetchCsvDone \/ StoreCsv
    PROVE  IInv'
<1> USE DEF IInv, TypeOK, HandsAreEmpty, inputs, Stages
<1> DEFINE f == First(listing)
<1>1. CASE ParseFile
      <2>1. pc = "csv" /\ listing # {} /\ listing \in SUBSET Nat /\ UNCHANGED inputs
            BY <1>1, PollingAssumption DEF ParseFile
      <2>2. f \in listing /\ f \in Files
            <3>1. f \in listing
                  BY <2>1, FirstIsOne
            <3> QED BY <3>1
      <2>3. CASE f \in Malformed
            BY <1>1, <2>3, HandsAreEmptied DEF ParseFile, Conservation, NoFileIsLost, Moving
      <2>4. CASE f \notin Malformed
            <3>1. /\ fetched' = fetched \cup Content[f] /\ pc' = "csv_copy"
                  /\ UNCHANGED <<listing, buffer, lost>>
                  BY <1>1, <2>4 DEF ParseFile
            <3>2. Content[f] \subseteq Readings
                  BY <2>2 DEF Readings
            <3>3. Moving'
                  BY <2>1, <2>2, <3>1 DEF Moving
            <3>4. Conservation' /\ NoFileIsLost'
                  BY <2>1, <3>1 DEF Conservation, NoFileIsLost
            <3> QED BY <2>1, <3>1, <3>2, <3>3, <3>4
      <2> QED BY <2>3, <2>4
<1>2. CASE CopyFile
      <2>1. /\ pc = "csv_copy" /\ pc' = "csv_unlink" /\ archive' = archive \cup {f}
            /\ UNCHANGED <<unread, folder, queue, buffer, listing, fetched, lost>>
            BY <1>2 DEF CopyFile
      <2>2. f \in listing /\ f \in folder
            BY <2>1 DEF Moving
      <2>3. NoFileIsLost' /\ Moving'
            BY <2>1, <2>2 DEF NoFileIsLost, Moving
      <2>4. Conservation'
            BY <2>1 DEF Conservation
      <2> QED BY <2>1, <2>2, <2>3, <2>4
<1>3. CASE UnlinkFile
      <2>1. /\ pc = "csv_unlink" /\ pc' = "csv" /\ folder' = folder \ {f} /\ listing' = listing \ {f}
            /\ UNCHANGED <<unread, archive, queue, buffer, fetched, lost>>
            BY <1>3 DEF UnlinkFile
      <2>2. f \in folder /\ f \in archive /\ Content[f] \subseteq fetched
            BY <2>1 DEF Moving
      <2>3. InFiles(folder) = InFiles(folder') \cup Content[f]
            BY <2>1, <2>2, ContentIsInFiles
      <2>4. Conservation'
            BY <2>1, <2>2, <2>3 DEF Conservation
      <2>5. NoFileIsLost' /\ Moving'
            BY <2>1, <2>2 DEF NoFileIsLost, Moving
      <2> QED BY <2>1, <2>4, <2>5
<1>4. CASE MoveFails
      BY <1>4, HandsAreEmptied DEF MoveFails, Conservation, NoFileIsLost, Moving
<1>5. CASE FetchCsvDone
      BY <1>5 DEF FetchCsvDone, Conservation, NoFileIsLost, Moving
<1>6. CASE StoreCsv
      BY <1>6, HandsAreEmptied DEF StoreCsv, Conservation, NoFileIsLost, Moving
<1> QED BY <1>1, <1>2, <1>3, <1>4, <1>5, <1>6

\* The process ends, and comes back.
LEMMA CrashKeeps ==
    ASSUME IInv, Crash \/ Restart
    PROVE  IInv'
<1> USE DEF IInv, TypeOK, HandsAreEmpty, inputs, Stages
<1>1. CASE Crash
      <2>1. Messages \subseteq Readings
            BY DEF Readings
      <2> QED BY <1>1, <2>1 DEF Crash, Conservation, NoFileIsLost, Moving
<1>2. CASE Restart
      BY <1>2 DEF Restart, Conservation, NoFileIsLost, Moving
<1> QED BY <1>1, <1>2

-----------------------------------------------------------------------------
\* What every state of the gateway's input side satisfies.
THEOREM PollingInvariant == Spec => []IInv
<1>1. Init => IInv
      BY DEF Init, IInv, TypeOK, HandsAreEmpty, Conservation, NoFileIsLost, Moving, InFiles, Stages
<1>2. IInv /\ [Next]_vars => IInv'
      <2>1. IInv /\ UNCHANGED vars => IInv'
            BY DEF IInv, TypeOK, HandsAreEmpty, Conservation, NoFileIsLost, Moving, vars
      <2> QED BY <2>1, InputKeeps, MqttKeeps, CsvKeeps, CrashKeeps DEF Next, Poll
<1> QED BY <1>1, <1>2, PTL DEF Spec

\* A reading that entered the gateway is waiting, in hand, persisted, or was dropped by
\* a crash or a logged exception (scheduler.py, csv_drop.py, mqtt_adapter.py).
THEOREM NothingVanishes == Spec => []Conservation
<1>1. IInv => Conservation
      BY DEF IInv
<1> QED BY <1>1, PollingInvariant, PTL

\* Every file dropped is in the watch folder or, whole, in the archive, wherever a move
\* between the two volumes fails or is cut off (csv_drop.py).
THEOREM FilesAreKept == Spec => []NoFileIsLost
<1>1. IInv => NoFileIsLost
      BY DEF IInv
<1> QED BY <1>1, PollingInvariant, PTL
=============================================================================
