--------------------------- MODULE Lifecycle_proofs ---------------------------
(***************************************************************************)
(* For any number of processes, starting, dying and following each other   *)
(* under the same pids: a daemon that came up alone is the one the pid     *)
(* file names for as long as it serves, and has all the defaults.          *)
(***************************************************************************)
EXTENDS Lifecycle, SequenceTheorems, TLAPS

(* An insert is made for one of the defaults, beginning with the first.    *)
ItemInv ==
    \A p \in Pids :
        /\ pc[p] = "insert" => AtItem(p)
        /\ ~SignalsBlocked(p) => item[p] = 1

(* Who is alone and not serving yet has the machine to itself.             *)
AloneInv ==
    \A p \in Pids : alone[p] =>
        /\ Instance(p)
        /\ Starting(p) => \A q \in Pids \ {p} : ~Instance(q)

FileWritten == {"signals", "open", "lookup", "insert", "load", "bind", "serving"}

(* Nobody takes away the file of a daemon that is alone.                   *)
FileInv ==
    \A p \in Pids : alone[p] /\ mode[p] = "DAEMON" =>
        /\ pc[p] = "write" => linked[p]
        /\ pc[p] \in FileWritten => file = p

(* The starts that come after it get as far as check_pid.                  *)
KeptOutInv ==
    \A p, q \in Pids :
        /\ p # q /\ alone[p] /\ mode[p] = "DAEMON" /\ pc[p] = "serving"
        /\ Instance(q)
        => /\ pc[q] \in {"check", "test"}
           /\ pc[q] = "test" => seen[q] = p

(* The defaults it has passed are there, and none was skipped.             *)
DefaultsInv ==
    \A p \in Pids : alone[p] =>
        /\ \A i \in 1 .. item[p] - 1 : Found(Defaults[i])
        /\ pc[p] \in {"load", "bind", "serving"} => ~AtItem(p)
        /\ pc[p] \in {"bind", "serving"} => loaded[p] = Named("rooms")

IInv == TypeOK /\ ItemInv /\ AloneInv /\ FileInv /\ KeptOutInv /\ DefaultsInv

-----------------------------------------------------------------------------
LEMMA DefaultAt ==
    ASSUME NEW i \in DOMAIN Defaults
    PROVE  /\ Defaults[i][1] \in {"users", "rooms"}
           /\ Defaults[i][2] \in Named(Defaults[i][1])
<1>1. Defaults[i] \in {"users", "rooms"} \X STRING
    BY LifecycleAssumption
<1>2. Defaults[i][1] \in {"users", "rooms"}
    BY <1>1
<1> QED
    BY <1>2 DEF Named

LEMMA ItemAt ==
    ASSUME TypeOK, NEW p \in Pids, AtItem(p)
    PROVE  item[p] \in DOMAIN Defaults
<1>1. DOMAIN Defaults = 1 .. Len(Defaults) /\ Len(Defaults) \in Nat
    BY LifecycleAssumption
<1> QED
    BY <1>1 DEF AtItem, TypeOK

LEMMA InitIInv == Init => IInv
<1> SUFFICES ASSUME Init PROVE IInv
    OBVIOUS
<1>1. Len(Defaults) \in Nat
    BY LifecycleAssumption
<1>2. TypeOK
    BY <1>1 DEF Init, TypeOK
<1>3. ItemInv /\ AloneInv /\ FileInv /\ KeptOutInv /\ DefaultsInv
    BY DEF Init, ItemInv, SignalsBlocked, AloneInv, FileInv, KeptOutInv, DefaultsInv
<1> QED
    BY <1>2, <1>3 DEF IInv

(* Whatever becomes of one process, the others' entries stay.              *)
LEMMA GoneType ==
    ASSUME TypeOK, NEW p \in Pids, Gone(p)
    PROVE  /\ pc' \in [Pids -> {"none", "other", "check", "test", "unlink", "save",
                        "write", "signals", "open", "lookup", "insert",
                        "load", "bind", "serving"}]
           /\ mode' \in [Pids -> {"DAEMON", "DEBUG"}]
           /\ linked' \in [Pids -> BOOLEAN]
           /\ seen' \in [Pids -> Pids \cup {Empty}]
           /\ pending' \in [Pids -> BOOLEAN]
           /\ item' \in [Pids -> 1 .. Len(Defaults) + 1]
           /\ loaded' \in [Pids -> SUBSET Named("rooms")]
           /\ port' \in Pids \cup {NoServer, TimeWait}
           /\ alone' \in [Pids -> BOOLEAN]
<1>1. Len(Defaults) \in Nat
    BY LifecycleAssumption
<1> QED
    BY <1>1 DEF Gone, TypeOK

LEMMA InsertType ==
    ASSUME TypeOK, NEW i \in DOMAIN Defaults, InsertRow(Defaults[i])
    PROVE  users' \subseteq Named("users") /\ rooms' \in Seq(Named("rooms"))
<1>1. CASE Defaults[i][1] = "users"
    BY <1>1, DefaultAt DEF InsertRow, TypeOK
<1>2. CASE Defaults[i][1] # "users"
    <2>1. Defaults[i][2] \in Named("rooms")
        BY <1>2, DefaultAt
    <2>2. rooms' = Append(rooms, Defaults[i][2]) /\ users' = users
        BY <1>2 DEF InsertRow
    <2>3. rooms \in Seq(Named("rooms")) /\ users \subseteq Named("users")
        BY DEF TypeOK
    <2>4. Append(rooms, Defaults[i][2]) \in Seq(Named("rooms"))
        BY <2>1, <2>3, AppendProperties
    <2> QED
        BY <2>2, <2>3, <2>4
<1> QED
    BY <1>1, <1>2

LEMMA NextType == TypeOK /\ ItemInv /\ [Next]_vars => TypeOK' /\ ItemInv'
<1> SUFFICES ASSUME TypeOK, ItemInv, [Next]_vars PROVE TypeOK' /\ ItemInv'
    OBVIOUS
<1> USE DEF fileVars, dbVars, own, SignalsBlocked, InDatabase
<1>1. CASE UNCHANGED vars
    BY <1>1 DEF vars, TypeOK, ItemInv, AtItem
<1>2. CASE TimeWaitEnds
    BY <1>2 DEF TimeWaitEnds, TypeOK, ItemInv, AtItem
<1>3. ASSUME NEW p \in Pids, Start(p)
      PROVE  TypeOK' /\ ItemInv'
    BY <1>3 DEF Start, Step, TypeOK, ItemInv, AtItem
<1>4. ASSUME NEW p \in Pids, ReadPidFile(p)
      PROVE  TypeOK' /\ ItemInv'
    <2>1. seen' \in [Pids -> Pids \cup {Empty}]
        BY <1>4 DEF ReadPidFile, TypeOK
    <2> QED
        BY <1>4, <2>1 DEF ReadPidFile, Step, TypeOK, ItemInv, AtItem
<1>5. ASSUME NEW p \in Pids, TestPid(p)
      PROVE  TypeOK' /\ ItemInv'
    <2>1. CASE Gone(p) /\ UNCHANGED <<file, dbVars>>
        BY <2>1, GoneType DEF Gone, TypeOK, ItemInv, AtItem
    <2>2. CASE Step(p, "test", "unlink") /\ UNCHANGED <<mode, fileVars, own, pending, dbVars, port, alone>>
        BY <2>2 DEF Step, TypeOK, ItemInv, AtItem
    <2> QED
        BY <1>5, <2>1, <2>2 DEF TestPid
<1>6. ASSUME NEW p \in Pids, Unlink(p)
      PROVE  TypeOK' /\ ItemInv'
    BY <1>6 DEF Unlink, Step, TypeOK, ItemInv, AtItem
<1>7. ASSUME NEW p \in Pids, OpenPidFile(p)
      PROVE  TypeOK' /\ ItemInv'
    BY <1>7 DEF OpenPidFile, Step, TypeOK, ItemInv, AtItem
<1>8. ASSUME NEW p \in Pids, WritePid(p)
      PROVE  TypeOK' /\ ItemInv'
    BY <1>8 DEF WritePid, Step, TypeOK, ItemInv, AtItem
<1>9. ASSUME NEW p \in Pids, InstallSignalsHandler(p)
      PROVE  TypeOK' /\ ItemInv'
    BY <1>9 DEF InstallSignalsHandler, Step, TypeOK, ItemInv, AtItem
<1>17. ASSUME NEW p \in Pids, OpenDb(p)
       PROVE  TypeOK' /\ ItemInv'
    BY <1>17 DEF OpenDb, Step, TypeOK, ItemInv, AtItem
<1>10. ASSUME NEW p \in Pids, Lookup(p)
       PROVE  TypeOK' /\ ItemInv'
    <2>1. AtItem(p) => item[p] + 1 \in 1 .. Len(Defaults) + 1
        BY ItemAt, LifecycleAssumption DEF AtItem, TypeOK
    <2> QED
        BY <1>10, <2>1 DEF Lookup, NextItem, Step, TypeOK, ItemInv, AtItem
<1>11. ASSUME NEW p \in Pids, Insert(p)
       PROVE  TypeOK' /\ ItemInv'
    <2>1. item[p] \in DOMAIN Defaults
        BY <1>11, ItemAt DEF Insert, Step, ItemInv
    <2>2. item[p] + 1 \in 1 .. Len(Defaults) + 1
        BY <2>1, LifecycleAssumption
    <2>3. users' \subseteq Named("users") /\ rooms' \in Seq(Named("rooms"))
        BY <1>11, <2>1, InsertType DEF Insert, TypeOK
    <2> QED
        BY <1>11, <2>2, <2>3 DEF Insert, NextItem, Step, TypeOK, ItemInv, AtItem
<1>12. ASSUME NEW p \in Pids, LoadRooms(p)
       PROVE  TypeOK' /\ ItemInv'
    <2>1. \A found \in ListRooms(p) : found \subseteq Named("rooms")
        BY DEF ListRooms, ToSet, TypeOK
    <2> QED
        BY <1>12, <2>1 DEF LoadRooms, Step, TypeOK, ItemInv, AtItem
<1>13. ASSUME NEW p \in Pids, Bind(p)
       PROVE  TypeOK' /\ ItemInv'
    <2>1. CASE Gone(p) /\ UNCHANGED <<file, dbVars>>
        BY <2>1, GoneType DEF Gone, TypeOK, ItemInv, AtItem
    <2>2. CASE Step(p, "bind", "serving") /\ port' = p
               /\ UNCHANGED <<mode, fileVars, own, pending, dbVars, alone>>
        BY <2>2 DEF Step, TypeOK, ItemInv, AtItem
    <2> QED
        BY <1>13, <2>1, <2>2 DEF Bind
<1>14. ASSUME NEW p \in Pids, Terminate(p)
       PROVE  TypeOK' /\ ItemInv'
    <2>1. CASE Gone(p) /\ UNCHANGED <<file, dbVars>>
        BY <2>1, GoneType DEF Gone, TypeOK, ItemInv, AtItem
    <2>2. CASE /\ pending' = [pending EXCEPT ![p] = TRUE]
               /\ UNCHANGED <<pc, mode, fileVars, own, dbVars, port, alone>>
        BY <2>2 DEF TypeOK, ItemInv, AtItem
    <2> QED
        BY <1>14, <2>1, <2>2 DEF Terminate
<1>15. ASSUME NEW p \in Pids, Die(p)
       PROVE  TypeOK' /\ ItemInv'
    BY <1>15, GoneType DEF Die, Gone, TypeOK, ItemInv, AtItem
<1>16. ASSUME NEW p \in Pids, OtherStarts(p) \/ OtherEnds(p)
       PROVE  TypeOK' /\ ItemInv'
    BY <1>16 DEF OtherStarts, OtherEnds, Step, TypeOK, ItemInv, AtItem
<1> QED
    BY <1>1, <1>2, <1>3, <1>4, <1>5, <1>6, <1>7, <1>8, <1>9, <1>10, <1>11, <1>12,
       <1>13, <1>14, <1>15, <1>16, <1>17 DEF Next, ServerStep

-----------------------------------------------------------------------------
(* A step other than a start makes nobody alone, and no new server.        *)
LEMMA NoNewServer ==
    ASSUME TypeOK, AloneInv, [Next]_vars, ~\E p \in Pids : Start(p), NEW q \in Pids
    PROVE  /\ Instance(q)' => Instance(q)
           /\ Starting(q)' => Starting(q)
           /\ alone'[q] => alone[q] /\ Instance(q)' /\ mode'[q] = mode[q]
<1> USE DEF fileVars, dbVars, own, Instance, Starting, Alive
<1>1. CASE UNCHANGED vars \/ TimeWaitEnds
    BY <1>1 DEF vars, TimeWaitEnds, AloneInv
<1>2. ASSUME NEW p \in Pids, Gone(p)
      PROVE  /\ Instance(q)' => Instance(q)
             /\ Starting(q)' => Starting(q)
             /\ alone'[q] => alone[q] /\ Instance(q)' /\ mode'[q] = mode[q]
    BY <1>2 DEF Gone, TypeOK, AloneInv
<1>3. ASSUME NEW p \in Pids, ReadPidFile(p) \/ TestPid(p) \/ Unlink(p)
      PROVE  /\ Instance(q)' => Instance(q)
             /\ Starting(q)' => Starting(q)
             /\ alone'[q] => alone[q] /\ Instance(q)' /\ mode'[q] = mode[q]
    BY <1>2, <1>3 DEF ReadPidFile, TestPid, Unlink, Step, TypeOK, AloneInv
<1>4. ASSUME NEW p \in Pids, OpenPidFile(p) \/ WritePid(p) \/ InstallSignalsHandler(p)
      PROVE  /\ Instance(q)' => Instance(q)
             /\ Starting(q)' => Starting(q)
             /\ alone'[q] => alone[q] /\ Instance(q)' /\ mode'[q] = mode[q]
    BY <1>4 DEF OpenPidFile, WritePid, InstallSignalsHandler, Step, TypeOK, AloneInv
<1>5. ASSUME NEW p \in Pids, OpenDb(p) \/ Lookup(p) \/ Insert(p) \/ LoadRooms(p)
      PROVE  /\ Instance(q)' => Instance(q)
             /\ Starting(q)' => Starting(q)
             /\ alone'[q] => alone[q] /\ Instance(q)' /\ mode'[q] = mode[q]
    BY <1>5 DEF OpenDb, Lookup, Insert, LoadRooms, Step, TypeOK, AloneInv
<1>6. ASSUME NEW p \in Pids, Bind(p)
      PROVE  /\ Instance(q)' => Instance(q)
             /\ Starting(q)' => Starting(q)
             /\ alone'[q] => alone[q] /\ Instance(q)' /\ mode'[q] = mode[q]
    BY <1>2, <1>6 DEF Bind, Step, TypeOK, AloneInv
<1>7. ASSUME NEW p \in Pids, Terminate(p) \/ Die(p)
      PROVE  /\ Instance(q)' => Instance(q)
             /\ Starting(q)' => Starting(q)
             /\ alone'[q] => alone[q] /\ Instance(q)' /\ mode'[q] = mode[q]
    BY <1>2, <1>7 DEF Terminate, Die, AloneInv
<1>8. ASSUME NEW p \in Pids, OtherStarts(p) \/ OtherEnds(p)
      PROVE  /\ Instance(q)' => Instance(q)
             /\ Starting(q)' => Starting(q)
             /\ alone'[q] => alone[q] /\ Instance(q)' /\ mode'[q] = mode[q]
    BY <1>8 DEF OtherStarts, OtherEnds, Step, TypeOK, AloneInv
<1> QED
    BY <1>1, <1>3, <1>4, <1>5, <1>6, <1>7, <1>8 DEF Next, ServerStep

LEMMA NextAlone == TypeOK /\ AloneInv /\ [Next]_vars => AloneInv'
<1> SUFFICES ASSUME TypeOK, AloneInv, [Next]_vars PROVE AloneInv'
    OBVIOUS
<1>1. ASSUME NEW p \in Pids, Start(p)
      PROVE  AloneInv'
    BY <1>1 DEF Start, Step, AloneInv, TypeOK, Instance, Starting, Alive
<1>2. CASE ~\E p \in Pids : Start(p)
    BY <1>2, NoNewServer DEF AloneInv
<1> QED
    BY <1>1, <1>2

-----------------------------------------------------------------------------
(* Next to a daemon that is alone another server is in check_pid at most.  *)
LEMMA OthersAreKeptOut ==
    ASSUME TypeOK, AloneInv, KeptOutInv,
           NEW p \in Pids, NEW q \in Pids, p # q,
           alone[q], mode[q] = "DAEMON", Instance(p)
    PROVE  /\ pc[q] = "serving"
           /\ pc[p] \in {"check", "test"}
           /\ pc[p] = "test" => seen[p] = q
<1>1. pc[q] = "serving"
    BY DEF AloneInv, Starting
<1> QED
    BY <1>1 DEF KeptOutInv

LEMMA NextFile ==
    TypeOK /\ AloneInv /\ FileInv /\ KeptOutInv /\ [Next]_vars => FileInv' /\ KeptOutInv'
<1> SUFFICES ASSUME TypeOK, AloneInv, FileInv, KeptOutInv, [Next]_vars
             PROVE  FileInv' /\ KeptOutInv'
    OBVIOUS
<1> USE DEF fileVars, dbVars, own, Instance, Alive, FileWritten
<1> DEFINE Alone(q) == alone[q] /\ mode[q] = "DAEMON"
<1>1. CASE UNCHANGED vars \/ TimeWaitEnds
    BY <1>1 DEF vars, TimeWaitEnds, FileInv, KeptOutInv
<1>2. ASSUME NEW p \in Pids, Start(p)
      PROVE  FileInv' /\ KeptOutInv'
    BY <1>2 DEF Start, Step, Starting, TypeOK, AloneInv, FileInv, KeptOutInv
<1>3. ASSUME NEW p \in Pids, Gone(p), UNCHANGED file
      PROVE  FileInv' /\ KeptOutInv'
    <2>1. FileInv'
        BY <1>3 DEF Gone, TypeOK, FileInv
    <2>2. KeptOutInv'
        BY <1>3 DEF Gone, TypeOK, KeptOutInv
    <2> QED
        BY <2>1, <2>2
<1>4. ASSUME NEW p \in Pids, ReadPidFile(p)
      PROVE  FileInv' /\ KeptOutInv'
    <2>1. Instance(p) /\ pc[p] = "check"
        BY <1>4 DEF ReadPidFile, Step
    <2>2. \A q \in Pids \ {p} : Alone(q) => pc[q] = "serving" /\ file = q
        BY <2>1, OthersAreKeptOut DEF FileInv
    <2>3. \A q \in Pids \ {p} : Alone(q) => pc' = [pc EXCEPT ![p] = "test"] /\ seen' = [seen EXCEPT ![p] = q]
        BY <1>4, <2>2, LifecycleAssumption DEF ReadPidFile, Step
    <2>4. FileInv'
        BY <1>4 DEF ReadPidFile, Step, TypeOK, FileInv
    <2>5. KeptOutInv'
        BY <1>4, <2>3 DEF ReadPidFile, Step, TypeOK, KeptOutInv
    <2> QED
        BY <2>4, <2>5
<1>5. ASSUME NEW p \in Pids, TestPid(p)
      PROVE  FileInv' /\ KeptOutInv'
    <2>1. CASE Gone(p) /\ UNCHANGED file
        BY <1>3, <2>1
    <2>2. CASE /\ Step(p, "test", "unlink") /\ ~(seen[p] \in Pids /\ Alive(seen[p]))
               /\ UNCHANGED <<mode, fileVars, own, pending, dbVars, port, alone>>
        <3>1. \A q \in Pids \ {p} : ~Alone(q)
            BY <2>2, OthersAreKeptOut DEF Step
        <3> QED
            BY <2>2, <3>1 DEF Step, TypeOK, FileInv, KeptOutInv
    <2> QED
        BY <1>5, <2>1, <2>2 DEF TestPid
<1>6. ASSUME NEW p \in Pids,
             Unlink(p) \/ OpenPidFile(p) \/ WritePid(p) \/ InstallSignalsHandler(p)
      PROVE  FileInv' /\ KeptOutInv'
    <2>1. Instance(p) /\ pc[p] \notin {"check", "test"}
        BY <1>6 DEF Unlink, OpenPidFile, WritePid, InstallSignalsHandler, Step
    <2>2. \A q \in Pids \ {p} : ~Alone(q)
        BY <2>1, OthersAreKeptOut
    <2>3. UNCHANGED <<mode, alone>>
        BY <1>6 DEF Unlink, OpenPidFile, WritePid, InstallSignalsHandler
    <2>4. FileInv'
        BY <1>6, <2>2, <2>3 DEF Unlink, OpenPidFile, WritePid, InstallSignalsHandler,
                                Step, TypeOK, FileInv
    <2>5. KeptOutInv'
        BY <1>6, <2>2, <2>3 DEF Unlink, OpenPidFile, WritePid, InstallSignalsHandler,
                                Step, TypeOK, KeptOutInv
    <2> QED
        BY <2>4, <2>5
<1>7. ASSUME NEW p \in Pids, OpenDb(p) \/ Lookup(p) \/ Insert(p) \/ LoadRooms(p)
      PROVE  FileInv' /\ KeptOutInv'
    <2>1. Instance(p) /\ pc[p] \in InDatabase
        BY <1>7 DEF OpenDb, Lookup, Insert, LoadRooms, Step, InDatabase
    <2>2. \A q \in Pids \ {p} : ~Alone(q)
        BY <2>1, OthersAreKeptOut DEF InDatabase
    <2>3. /\ UNCHANGED <<mode, alone, file, linked, seen>>
          /\ \E to \in InDatabase \cup {"bind"} : pc' = [pc EXCEPT ![p] = to]
        BY <1>7 DEF OpenDb, Lookup, Insert, LoadRooms, Step, InDatabase
    <2> QED
        BY <2>1, <2>2, <2>3 DEF TypeOK, FileInv, KeptOutInv, InDatabase
<1>8. ASSUME NEW p \in Pids, Bind(p)
      PROVE  FileInv' /\ KeptOutInv'
    <2>1. CASE Gone(p) /\ UNCHANGED file
        BY <1>3, <2>1
    <2>2. CASE /\ Step(p, "bind", "serving")
               /\ UNCHANGED <<mode, fileVars, own, pending, dbVars, alone>>
        <3>1. \A q \in Pids \ {p} : ~Alone(q)
            BY <2>2, OthersAreKeptOut DEF Step
        <3>2. alone[p] => \A q \in Pids \ {p} : ~Instance(q)
            BY <2>2 DEF Step, AloneInv, Starting
        <3> QED
            BY <2>2, <3>1, <3>2 DEF Step, TypeOK, FileInv, KeptOutInv
    <2> QED
        BY <1>8, <2>1, <2>2 DEF Bind
<1>9. ASSUME NEW p \in Pids, Terminate(p) \/ Die(p)
      PROVE  FileInv' /\ KeptOutInv'
    <2>1. CASE Gone(p) /\ UNCHANGED file
        BY <1>3, <2>1
    <2>2. CASE UNCHANGED <<pc, mode, fileVars, own, dbVars, port, alone>>
        BY <2>2 DEF FileInv, KeptOutInv
    <2> QED
        BY <1>9, <2>1, <2>2 DEF Terminate, Die
<1>10. ASSUME NEW p \in Pids, OtherStarts(p) \/ OtherEnds(p)
       PROVE  FileInv' /\ KeptOutInv'
    <2>1. ~alone[p] /\ UNCHANGED <<mode, alone, file, linked, seen>>
        BY <1>10 DEF OtherStarts, OtherEnds, Step, AloneInv
    <2>2. \E to \in {"none", "other"} : pc' = [pc EXCEPT ![p] = to]
        BY <1>10 DEF OtherStarts, OtherEnds, Step
    <2>3. FileInv'
        BY <2>1, <2>2 DEF TypeOK, FileInv
    <2>4. KeptOutInv'
        BY <2>1, <2>2 DEF TypeOK, KeptOutInv
    <2> QED
        BY <2>3, <2>4
<1> QED
    BY <1>1, <1>2, <1>4, <1>5, <1>6, <1>7, <1>8, <1>9, <1>10 DEF Next, ServerStep

-----------------------------------------------------------------------------
LEMMA AppendedSet ==
    ASSUME NEW S, NEW s \in Seq(S), NEW e \in S
    PROVE  ToSet(s) \subseteq ToSet(Append(s, e)) /\ e \in ToSet(Append(s, e))
<1>1. /\ Append(s, e) \in Seq(S) /\ Len(Append(s, e)) = Len(s) + 1
      /\ \A i \in 1 .. Len(s) : Append(s, e)[i] = s[i]
      /\ Append(s, e)[Len(s) + 1] = e
    BY AppendProperties
<1>2. /\ Len(s) \in Nat /\ DOMAIN s = 1 .. Len(s)
      /\ DOMAIN Append(s, e) = 1 .. Len(s) + 1
    BY <1>1, LenProperties
<1>3. e \in ToSet(Append(s, e))
    BY <1>1, <1>2 DEF ToSet
<1>4. ASSUME NEW x \in ToSet(s) PROVE x \in ToSet(Append(s, e))
    <2>1. PICK i \in DOMAIN s : x = s[i]
        BY DEF ToSet
    <2>2. i \in DOMAIN Append(s, e) /\ Append(s, e)[i] = x
        BY <1>1, <1>2, <2>1
    <2> QED
        BY <2>2 DEF ToSet
<1> QED
    BY <1>3, <1>4

(* The tables only grow.                                                   *)
LEMMA TablesGrow ==
    ASSUME TypeOK, ItemInv, [Next]_vars
    PROVE  users \subseteq users' /\ ToSet(rooms) \subseteq ToSet(rooms')
<1> USE DEF fileVars, dbVars, own
<1>1. ASSUME NEW p \in Pids, Insert(p)
      PROVE  users \subseteq users' /\ ToSet(rooms) \subseteq ToSet(rooms')
    <2>1. \A name \in Named("rooms") : ToSet(rooms) \subseteq ToSet(Append(rooms, name))
        BY AppendedSet DEF TypeOK
    <2>2. item[p] \in DOMAIN Defaults
        BY <1>1, ItemAt DEF Insert, Step, ItemInv
    <2>3. InsertRow(Defaults[item[p]]) =>
             users \subseteq users' /\ ToSet(rooms) \subseteq ToSet(rooms')
        BY <2>1, <2>2, DefaultAt DEF InsertRow
    <2>4. UNCHANGED dbVars => users = users' /\ rooms = rooms'
        OBVIOUS
    <2> QED
        BY <1>1, <2>3, <2>4 DEF Insert
<1>2. CASE ~\E p \in Pids : Insert(p)
    <2>1. UNCHANGED <<users, rooms>>
        BY <1>2 DEF Next, ServerStep, vars, TimeWaitEnds, Start, ReadPidFile, TestPid, Unlink,
                    OpenPidFile, WritePid, InstallSignalsHandler, OpenDb, Lookup, LoadRooms, Bind,
                    Terminate, Die, OtherStarts, OtherEnds
    <2> QED
        BY <2>1
<1> QED
    BY <1>1, <1>2

(* Nobody holds a lock of the database against a server that comes up alone. *)
LEMMA LoneIsUncontended ==
    ASSUME AloneInv, NEW p \in Pids, alone[p], pc[p] \in InDatabase
    PROVE  ~Contended(p)
BY DEF AloneInv, Starting, Instance, Alive, Contended, InDatabase

(* An insert made with nobody else around is in the table.                 *)
LEMMA LoneInsert ==
    ASSUME TypeOK, ItemInv, AloneInv, NEW p \in Pids, Insert(p), alone[p],
           NEW i \in Nat, i = item[p]
    PROVE  i \in DOMAIN Defaults /\ Found(Defaults[i])'
<1> USE DEF fileVars, dbVars, own
<1> DEFINE d == Defaults[i]
<1>1. i \in DOMAIN Defaults /\ pc[p] = "insert"
    BY ItemAt DEF Insert, Step, ItemInv
<1>2. ~Contended(p)
    BY <1>1, LoneIsUncontended DEF InDatabase
<1>3. InsertRow(d)
    BY <1>2 DEF Insert
<1>4. CASE d[1] = "users"
    BY <1>1, <1>3, <1>4 DEF InsertRow, Found
<1>5. CASE d[1] # "users"
    <2>1. d[2] \in Named("rooms")
        BY <1>1, <1>5, DefaultAt
    <2>2. d[2] \in ToSet(Append(rooms, d[2]))
        BY <2>1, AppendedSet DEF TypeOK
    <2> QED
        BY <1>1, <1>3, <1>5, <2>2 DEF InsertRow, Found
<1> QED
    BY <1>1, <1>4, <1>5

(* What a step that leaves p's own entries alone keeps.                    *)
LEMMA DefaultsKept ==
    ASSUME TypeOK, ItemInv, DefaultsInv, [Next]_vars, NEW q \in Pids, alone[q],
           item'[q] = item[q], loaded'[q] = loaded[q]
    PROVE  /\ \A i \in 1 .. item'[q] - 1 : Found(Defaults[i])'
           /\ pc[q] \in {"load", "bind", "serving"} => ~AtItem(q)'
           /\ pc[q] \in {"bind", "serving"} => loaded'[q] = Named("rooms")
<1>1. \A i \in 1 .. item[q] - 1 : Found(Defaults[i])
    BY DEF DefaultsInv
<1>2. \A d : Found(d) => Found(d)'
    BY TablesGrow DEF Found
<1>3. \A i \in 1 .. item'[q] - 1 : Found(Defaults[i])'
    BY <1>1, <1>2
<1> QED
    BY <1>3 DEF DefaultsInv, AtItem

(* Only the steps into and out of the database change what p has of it.    *)
LEMMA EntriesKept ==
    ASSUME TypeOK, ItemInv, AloneInv, [Next]_vars, ~\E p \in Pids : Start(p), NEW q \in Pids,
           ~OpenDb(q), ~Lookup(q), ~Insert(q), ~LoadRooms(q), alone'[q]
    PROVE  /\ item'[q] = item[q] /\ loaded'[q] = loaded[q]
           /\ pc'[q] \in {"load", "bind", "serving"} => pc[q] \in {"load", "bind", "serving"}
           /\ pc'[q] \in {"bind", "serving"} => pc[q] \in {"bind", "serving"}
<1> USE DEF fileVars, dbVars, own
<1> DEFINE Goal == /\ item'[q] = item[q] /\ loaded'[q] = loaded[q]
                   /\ pc'[q] \in {"load", "bind", "serving"} =>
                          pc[q] \in {"load", "bind", "serving"}
                   /\ pc'[q] \in {"bind", "serving"} => pc[q] \in {"bind", "serving"}
<1>1. CASE UNCHANGED vars \/ TimeWaitEnds
    BY <1>1 DEF vars, TimeWaitEnds
<1>2. ASSUME NEW p \in Pids, Gone(p)
      PROVE  Goal
    BY <1>2 DEF Gone, TypeOK
<1>3. ASSUME NEW p \in Pids, ReadPidFile(p) \/ TestPid(p) \/ Unlink(p)
      PROVE  Goal
    BY <1>2, <1>3 DEF ReadPidFile, TestPid, Unlink, Step, TypeOK
<1>4. ASSUME NEW p \in Pids, OpenPidFile(p) \/ WritePid(p) \/ InstallSignalsHandler(p)
      PROVE  Goal
    BY <1>4 DEF OpenPidFile, WritePid, InstallSignalsHandler, Step, TypeOK
<1>5. ASSUME NEW p \in Pids, OpenDb(p) \/ Lookup(p) \/ Insert(p) \/ LoadRooms(p)
      PROVE  Goal
    BY <1>5 DEF OpenDb, Lookup, Insert, LoadRooms, NextItem, Step, TypeOK
<1>6. ASSUME NEW p \in Pids, Bind(p)
      PROVE  Goal
    BY <1>2, <1>6 DEF Bind, Step, TypeOK
<1>7. ASSUME NEW p \in Pids, Terminate(p) \/ Die(p)
      PROVE  Goal
    BY <1>2, <1>7 DEF Terminate, Die
<1>8. ASSUME NEW p \in Pids, OtherStarts(p) \/ OtherEnds(p)
      PROVE  Goal
    BY <1>8 DEF OtherStarts, OtherEnds, Step, TypeOK
<1> QED
    BY <1>1, <1>3, <1>4, <1>5, <1>6, <1>7, <1>8 DEF Next, ServerStep

LEMMA NextDefaults ==
    TypeOK /\ ItemInv /\ AloneInv /\ DefaultsInv /\ [Next]_vars => DefaultsInv'
<1> SUFFICES ASSUME TypeOK, ItemInv, AloneInv, DefaultsInv, [Next]_vars,
                    NEW q \in Pids, alone'[q]
             PROVE  /\ \A i \in 1 .. item'[q] - 1 : Found(Defaults[i])'
                    /\ pc'[q] \in {"load", "bind", "serving"} => ~AtItem(q)'
                    /\ pc'[q] \in {"bind", "serving"} => loaded'[q] = Named("rooms")
    BY DEF DefaultsInv
<1> DEFINE Goal == /\ \A i \in 1 .. item'[q] - 1 : Found(Defaults[i])'
                   /\ pc'[q] \in {"load", "bind", "serving"} => ~AtItem(q)'
                   /\ pc'[q] \in {"bind", "serving"} => loaded'[q] = Named("rooms")
<1> USE DEF fileVars, dbVars, own
<1>1. ASSUME NEW p \in Pids, Start(p)
      PROVE  Goal
    <2>1. item'[q] = item[q] /\ loaded'[q] = loaded[q]
        BY <1>1 DEF Start
    <2>2. CASE q = p
        <3>1. item[q] = 1
            BY <1>1, <2>2 DEF Start, Step, ItemInv, SignalsBlocked, InDatabase
        <3> QED
            BY <1>1, <2>1, <2>2, <3>1 DEF Start, Step, TypeOK
    <2>3. CASE q # p
        <3>1. alone[q] /\ pc'[q] = pc[q]
            BY <1>1, <2>3 DEF Start, Step, TypeOK
        <3> QED
            BY <2>1, <3>1, DefaultsKept
    <2> QED
        BY <2>2, <2>3
<1>2. CASE ~\E p \in Pids : Start(p)
    <2>1. alone[q]
        BY <1>2, NoNewServer
    <2>2. \A i \in 1 .. item[q] - 1 : Found(Defaults[i])'
        <3>1. \A d : Found(d) => Found(d)'
            BY TablesGrow DEF Found
        <3> QED
            BY <2>1, <3>1 DEF DefaultsInv
    <2>3. item[q] \in Nat /\ item[q] >= 1
        BY LifecycleAssumption DEF TypeOK
    <2>4. CASE Lookup(q)
        <3>1. CASE Step(q, "lookup", "lookup") /\ Found(Defaults[item[q]]) /\ NextItem(q)
            <4>1. item'[q] = item[q] + 1 /\ pc'[q] = "lookup"
                BY <3>1 DEF NextItem, Step, TypeOK
            <4>2. \A i \in 1 .. item[q] : i = item[q] => Found(Defaults[i])
                BY <3>1
            <4>3. \A d : Found(d) => Found(d)'
                BY TablesGrow DEF Found
            <4> QED
                BY <2>2, <2>3, <4>1, <4>2, <4>3
        <3>2. CASE Step(q, "lookup", "load") /\ ~AtItem(q) /\ UNCHANGED item
            BY <2>2, <3>2 DEF Step, AtItem, TypeOK
        <3>3. CASE Step(q, "lookup", "insert") /\ UNCHANGED item
            BY <2>2, <3>3 DEF Step, TypeOK
        <3> QED
            BY <2>4, <3>1, <3>2, <3>3 DEF Lookup
    <2>5. CASE Insert(q)
        <3>1. item'[q] = item[q] + 1 /\ pc'[q] = "lookup"
            BY <2>5 DEF Insert, NextItem, Step, TypeOK
        <3>2. \A i \in 1 .. item[q] : i = item[q] => Found(Defaults[i])'
            BY <2>1, <2>5, LoneInsert
        <3> QED
            BY <2>2, <2>3, <3>1, <3>2
    <2>8. CASE OpenDb(q)
        <3>1. pc[q] = "open" /\ ~Contended(q)
            BY <2>1, <2>8, LoneIsUncontended DEF OpenDb, Step, InDatabase
        <3>2. pc'[q] = "lookup" /\ item'[q] = item[q]
            BY <2>8, <3>1 DEF OpenDb, Step, TypeOK
        <3> QED
            BY <2>2, <3>2
    <2>6. CASE LoadRooms(q)
        <3>0. pc[q] = "load" /\ ~Contended(q)
            BY <2>1, <2>6, LoneIsUncontended DEF LoadRooms, Step, InDatabase
        <3>1. /\ pc[q] = "load" /\ pc'[q] = "bind" /\ item'[q] = item[q]
              /\ loaded'[q] = ToSet(rooms)
            BY <2>6, <3>0 DEF LoadRooms, ListRooms, Step, TypeOK
        <3>2. ~AtItem(q) /\ ~AtItem(q)'
            BY <2>1, <3>1 DEF DefaultsInv, AtItem
        <3>3. \A i \in DOMAIN Defaults : Found(Defaults[i])
            <4>1. \A i \in 1 .. item[q] - 1 : Found(Defaults[i])
                BY <2>1 DEF DefaultsInv
            <4>2. DOMAIN Defaults = 1 .. Len(Defaults) /\ Len(Defaults) \in Nat
                BY LifecycleAssumption
            <4>3. item[q] > Len(Defaults)
                BY <2>3, <3>2, <4>2 DEF AtItem
            <4> QED
                BY <2>3, <4>1, <4>2, <4>3
        <3>4. Named("rooms") \subseteq ToSet(rooms)
            BY <3>3 DEF Named, Found
        <3>5. ToSet(rooms) \subseteq Named("rooms")
            BY DEF TypeOK, ToSet
        <3> QED
            BY <2>2, <3>1, <3>2, <3>4, <3>5
    <2>7. CASE ~OpenDb(q) /\ ~Lookup(q) /\ ~Insert(q) /\ ~LoadRooms(q)
        <3>1. /\ item'[q] = item[q] /\ loaded'[q] = loaded[q]
              /\ pc'[q] \in {"load", "bind", "serving"} => pc[q] \in {"load", "bind", "serving"}
              /\ pc'[q] \in {"bind", "serving"} => pc[q] \in {"bind", "serving"}
            BY <1>2, <2>7, EntriesKept
        <3> QED
            BY <2>1, <3>1, DefaultsKept
    <2> QED
        BY <2>4, <2>5, <2>6, <2>7, <2>8
<1> QED
    BY <1>1, <1>2

-----------------------------------------------------------------------------
LEMMA NextIInv == IInv /\ [Next]_vars => IInv'
    BY NextType, NextAlone, NextFile, NextDefaults DEF IInv

(* Type correctness: the type invariant of the state of every process, the *)
(* pid file, the tables and the port, for any processes and defaults.      *)
THEOREM TypeCorrect == Spec => []TypeOK
<1>1. IInv => TypeOK
    BY DEF IInv
<1> QED
    BY <1>1, InitIInv, NextIInv, PTL DEF Spec

(* check_pid keeps the promise it can keep: the pid file names the daemon  *)
(* that came up alone for as long as it serves, however many are started.  *)
THEOREM PidFileTheorem == Spec => []PidFileNamesLoneServer
<1>1. IInv => PidFileNamesLoneServer
    BY DEF IInv, FileInv, FileWritten, PidFileNamesLoneServer
<1> QED
    BY <1>1, InitIInv, NextIInv, PTL DEF Spec

(* create_default_user_room completes what an earlier start has left half  *)
(* done, whatever the list of the defaults.                                *)
THEOREM DefaultsTheorem == Spec => []LoneServerHasDefaults
<1>1. IInv => LoneServerHasDefaults
    <2> SUFFICES ASSUME IInv, NEW p \in Pids, pc[p] = "serving", alone[p]
                 PROVE  Named("users") \subseteq users /\ loaded[p] = Named("rooms")
        BY DEF LoneServerHasDefaults
    <2>1. ~AtItem(p) /\ loaded[p] = Named("rooms")
        BY DEF IInv, DefaultsInv
    <2>2. item[p] \in Nat
        BY LifecycleAssumption DEF IInv, TypeOK
    <2>3. \A i \in DOMAIN Defaults : Found(Defaults[i])
        BY <2>1, <2>2, LifecycleAssumption DEF IInv, DefaultsInv, AtItem
    <2> QED
        BY <2>1, <2>3 DEF Named, Found
<1> QED
    BY <1>1, InitIInv, NextIInv, PTL DEF Spec

=============================================================================
