--------------------------- MODULE LifecycleProofs ---------------------------
(***************************************************************************)
(* Theorems about Lifecycle, for any number of processes, collectors,      *)
(* loops and tables: the types, that the schema on disk is whole or absent *)
(* and whole for whoever got past Open, and that the database is not       *)
(* closed under a collector.                                               *)
(***************************************************************************)
EXTENDS Lifecycle, FiniteSetTheorems, TLAPS

(* Every action of a process, without nested quantifiers. *)
ProcStep(p) ==
    \/ Start(p)
    \/ CreateVersions(p)
    \/ ReadVersion(p)
    \/ Begin(p)
    \/ Commit(p)
    \/ InsertFails(p)
    \/ Command(p)
    \/ Launch(p)
    \/ Drain(p)
    \/ Waited(p)
    \/ Close(p)
    \/ Exit(p)
    \/ Signal(p)
    \/ Watch(p)
    \/ Listen(p)
    \/ ReadVersionFails(p)
    \/ OpenFails(p)
    \/ ServeFails(p)
    \/ Kill(p)
    \/ \E t \in Tables : CreateTable(p, t)
    \/ \E g \in Goroutines : GoTick(p, g)
    \/ \E g \in Goroutines : GoBegin(p, g)
    \/ \E g \in Goroutines : GoFetched(p, g)
    \/ \E g \in Goroutines : GoStored(p, g)
    \/ \E g \in Goroutines : GoStop(p, g)

LEMMA NextActions == Next => Calm \/ \E p \in Procs : ProcStep(p)
BY DEF Next, Open, Run, Fault, GoRun, ProcStep

-----------------------------------------------------------------------------
(* All types but that of the counter, for which the goroutines have to be  *)
(* counted.                                                                *)
Typed ==
    /\ hasVersions \in BOOLEAN /\ version \in BOOLEAN /\ tables \in SUBSET Tables
    /\ main \in [Procs -> Mains]
    /\ pending \in [Procs -> SUBSET Tables]
    /\ go \in [Procs -> [Goroutines ->
                           {"none", "ready", "fetch", "store", "select", "done"}]]
    /\ wg \in [Procs -> Int]
    /\ sigCh \in [Procs -> BOOLEAN]
    /\ watcher \in [Procs -> {"none", "starting", "receiving", "done"}]
    /\ cancelled \in [Procs -> BOOLEAN]
    /\ dash \in [Procs -> {"none", "starting", "serving", "failed"}]
    /\ told \in [Procs -> BOOLEAN]
    /\ status \in [Procs -> {"none", "ok", "error", "killed"}]
    /\ faults \in BOOLEAN

LEMMA CollectorsCounted == Cardinality(Collectors) \in Nat
BY FS_CardinalityType, GoroutinesAssumption

LEMMA TypedInit == Init => Typed
<1> SUFFICES ASSUME Init PROVE Typed
  OBVIOUS
<1>1. /\ hasVersions \in BOOLEAN /\ version \in BOOLEAN /\ faults \in BOOLEAN
      /\ tables = {}
  BY DEF Init
<1>2. /\ main \in [Procs -> Mains] /\ pending \in [Procs -> SUBSET Tables]
      /\ wg \in [Procs -> Int]
      /\ go \in [Procs -> [Goroutines ->
                             {"none", "ready", "fetch", "store", "select", "done"}]]
  BY DEF Init, Mains, NoGoroutines
<1>3. /\ sigCh \in [Procs -> BOOLEAN] /\ cancelled \in [Procs -> BOOLEAN]
      /\ told \in [Procs -> BOOLEAN]
  BY DEF Init
<1>4. /\ watcher \in [Procs -> {"none", "starting", "receiving", "done"}]
      /\ dash \in [Procs -> {"none", "starting", "serving", "failed"}]
      /\ status \in [Procs -> {"none", "ok", "error", "killed"}]
  BY DEF Init
<1> QED
  BY <1>1, <1>2, <1>3, <1>4 DEF Typed

(* How one goroutine moves. *)
GoMove(p, g, froms, tos) ==
    /\ go[p][g] \in froms
    /\ \E to \in tos : go' = [go EXCEPT ![p][g] = to]
    /\ UNCHANGED <<disk, main, pending, sigVars, dashVars, faults>>

LEMMA GoMoves ==
    ASSUME NEW p \in Procs, NEW g \in Goroutines
    PROVE  /\ GoTick(p, g) => GoMove(p, g, {"select"}, {"fetch"}) /\ wg' = wg
           /\ GoBegin(p, g) /\ g \in Collectors
                => GoMove(p, g, {"ready"}, {"fetch"}) /\ wg' = wg
           /\ GoBegin(p, g) => GoMove(p, g, {"ready"}, {"fetch", "select", "done"}) /\ wg' = wg
           /\ GoFetched(p, g) => GoMove(p, g, {"fetch"}, {"store", "select"}) /\ wg' = wg
           /\ GoStored(p, g) => GoMove(p, g, {"store"}, {"select"}) /\ wg' = wg
           /\ GoStop(p, g) => GoMove(p, g, {"select"}, {"done"})
<1> USE DEF GoMove, GoStep
<1>1. GoTick(p, g) => GoMove(p, g, {"select"}, {"fetch"}) /\ wg' = wg
  BY DEF GoTick
<1>2. GoBegin(p, g) /\ g \in Collectors
        => GoMove(p, g, {"ready"}, {"fetch"}) /\ wg' = wg
  BY GoroutinesAssumption DEF GoBegin
<1>3. GoBegin(p, g) => GoMove(p, g, {"ready"}, {"fetch", "select", "done"}) /\ wg' = wg
  BY DEF GoBegin
<1>4. GoFetched(p, g) => GoMove(p, g, {"fetch"}, {"store", "select"}) /\ wg' = wg
  BY DEF GoFetched
<1>5. GoStored(p, g) => GoMove(p, g, {"store"}, {"select"}) /\ wg' = wg
  BY DEF GoStored
<1>6. GoStop(p, g) => GoMove(p, g, {"select"}, {"done"})
  BY DEF GoStop
<1> QED
  BY <1>1, <1>2, <1>3, <1>4, <1>5, <1>6

LEMMA TypedStep == Typed /\ [Next]_vars => Typed'
<1> SUFFICES ASSUME Typed, [Next]_vars PROVE Typed'
  OBVIOUS
<1> USE DEF Typed, Goto, GoStep, Mains, InOpen, disk, goVars, sigVars, dashVars,
            runVars
<1>1. CASE Calm
  BY <1>1 DEF Calm
<1>2. CASE \E p \in Procs : ProcStep(p)
  <2> PICK p \in Procs : ProcStep(p)
    BY <1>2
  <2>1. CASE Start(p)
    BY <2>1 DEF Start
  <2>2. CASE CreateVersions(p)
    BY <2>2 DEF CreateVersions
  <2>3. CASE ReadVersion(p)
    BY <2>3 DEF ReadVersion
  <2>4. CASE Begin(p)
    BY <2>4 DEF Begin
  <2>5. CASE Commit(p)
    BY <2>5 DEF Commit
  <2>6. CASE InsertFails(p)
    BY <2>6 DEF InsertFails, OpenEnds
  <2>7. CASE Command(p)
    BY <2>7 DEF Command
  <2>8. CASE Launch(p)
    BY <2>8, CollectorsCounted DEF Launch, Serve
  <2>9. CASE Drain(p)
    BY <2>9 DEF Drain
  <2>10. CASE Waited(p)
    BY <2>10 DEF Waited
  <2>11. CASE Close(p)
    BY <2>11 DEF Close
  <2>12. CASE Exit(p)
    BY <2>12 DEF Exit, Ended, NoGoroutines
  <2>13. CASE Signal(p)
    BY <2>13 DEF Signal
  <2>14. CASE Watch(p)
    BY <2>14 DEF Watch
  <2>15. CASE Listen(p)
    BY <2>15 DEF Listen
  <2>16. CASE ReadVersionFails(p)
    BY <2>16 DEF ReadVersionFails
  <2>17. CASE OpenFails(p)
    BY <2>17 DEF OpenFails, OpenEnds
  <2>18. CASE ServeFails(p)
    BY <2>18 DEF ServeFails
  <2>19. CASE Kill(p)
    BY <2>19 DEF Kill, Ended, NoGoroutines
  <2>20. CASE \E t \in Tables : CreateTable(p, t)
    BY <2>20 DEF CreateTable
  <2>21. CASE \E g \in Goroutines : GoTick(p, g)
    <3> PICK g \in Goroutines : GoTick(p, g)
      BY <2>21
    <3>1. GoMove(p, g, {"select"}, {"fetch"}) /\ wg' = wg
      BY GoMoves
    <3> QED
      BY <3>1 DEF GoMove
  <2>22. CASE \E g \in Goroutines : GoBegin(p, g)
    <3> PICK g \in Goroutines : GoBegin(p, g)
      BY <2>22
    <3>1. GoMove(p, g, {"ready"}, {"fetch", "select", "done"}) /\ wg' = wg
      BY GoMoves
    <3> QED
      BY <3>1 DEF GoMove
  <2>23. CASE \E g \in Goroutines : GoFetched(p, g)
    <3> PICK g \in Goroutines : GoFetched(p, g)
      BY <2>23
    <3>1. GoMove(p, g, {"fetch"}, {"store", "select"}) /\ wg' = wg
      BY GoMoves
    <3> QED
      BY <3>1 DEF GoMove
  <2>24. CASE \E g \in Goroutines : GoStored(p, g)
    <3> PICK g \in Goroutines : GoStored(p, g)
      BY <2>24
    <3>1. GoMove(p, g, {"store"}, {"select"}) /\ wg' = wg
      BY GoMoves
    <3> QED
      BY <3>1 DEF GoMove
  <2>25. CASE \E g \in Goroutines : GoStop(p, g)
    BY <2>25 DEF GoStop
  <2> QED
    BY <2>1, <2>2, <2>3, <2>4, <2>5, <2>6, <2>7, <2>8, <2>9, <2>10, <2>11,
       <2>12, <2>13, <2>14, <2>15, <2>16, <2>17, <2>18, <2>19, <2>20,
       <2>21, <2>22, <2>23, <2>24, <2>25 DEF ProcStep
<1>3. CASE UNCHANGED vars
  BY <1>3 DEF vars
<1> QED
  BY <1>1, <1>2, <1>3, NextActions

-----------------------------------------------------------------------------
(* The schema: whoever got past Open has seen version 1, or recorded it.   *)
Opened(p) == main[p] \notin InOpen \cup {"down"}

SchemaInv ==
    /\ Typed
    /\ SchemaIsWhole
    /\ \A p \in Procs : Opened(p) => version

LEMMA SchemaInit == Init => SchemaInv
BY TypedInit DEF Init, SchemaInv, SchemaIsWhole, Opened

LEMMA SchemaStep == SchemaInv /\ [Next]_vars => SchemaInv'
<1> SUFFICES ASSUME SchemaInv, [Next]_vars PROVE SchemaInv'
  OBVIOUS
<1> USE DEF SchemaInv, Goto, InOpen, disk, goVars, sigVars, dashVars, runVars
<1>t. Typed'
  BY TypedStep
<1>k. ASSUME UNCHANGED <<version, tables>>,
             \A q \in Procs : Opened(q)' => Opened(q)
      PROVE  SchemaInv'
  BY <1>t, <1>k DEF SchemaIsWhole
<1>1. CASE Calm
  BY <1>k, <1>1 DEF Calm, Opened
<1>2. CASE \E p \in Procs : ProcStep(p)
  <2> PICK p \in Procs : ProcStep(p)
    BY <1>2
  <2>m. main \in [Procs -> Mains]
    BY DEF Typed
  <2>1. CASE Start(p)
    BY <1>k, <2>m, <2>1 DEF Start, Opened
  <2>2. CASE CreateVersions(p)
    BY <1>k, <2>m, <2>2 DEF CreateVersions, Opened
  <2>3. CASE ReadVersion(p)
    <3>1. UNCHANGED <<version, tables>>
      BY <2>3 DEF ReadVersion
    <3>2. \A q \in Procs : Opened(q)' => Opened(q) \/ version
      BY <2>m, <2>3 DEF ReadVersion, Opened
    <3> QED
      BY <1>t, <3>1, <3>2 DEF SchemaIsWhole
  <2>4. CASE Begin(p)
    BY <1>k, <2>m, <2>4 DEF Begin, Opened
  <2>5. CASE Commit(p)
    <3>1. version' = TRUE /\ tables' = tables \cup pending[p] /\ pending[p] = Tables
      BY <2>5 DEF Commit
    <3>2. tables' = Tables
      BY <3>1 DEF Typed
    <3> QED
      BY <1>t, <3>1, <3>2 DEF SchemaIsWhole
  <2>6. CASE InsertFails(p)
    BY <1>k, <2>m, <2>6 DEF InsertFails, OpenEnds, Opened
  <2>7. CASE Command(p)
    BY <1>k, <2>m, <2>7 DEF Command, Opened
  <2>8. CASE Launch(p)
    BY <1>k, <2>m, <2>8 DEF Launch, Opened
  <2>9. CASE Drain(p)
    BY <1>k, <2>m, <2>9 DEF Drain, Opened
  <2>10. CASE Waited(p)
    BY <1>k, <2>m, <2>10 DEF Waited, Opened
  <2>11. CASE Close(p)
    BY <1>k, <2>m, <2>11 DEF Close, Opened
  <2>12. CASE Exit(p)
    BY <1>k, <2>m, <2>12 DEF Exit, Ended, Opened
  <2>13. CASE Signal(p)
    BY <1>k, <2>m, <2>13 DEF Signal, Opened
  <2>14. CASE Watch(p)
    BY <1>k, <2>m, <2>14 DEF Watch, Opened
  <2>15. CASE Listen(p)
    BY <1>k, <2>m, <2>15 DEF Listen, Opened
  <2>16. CASE ReadVersionFails(p)
    BY <1>k, <2>m, <2>16 DEF ReadVersionFails, Opened
  <2>17. CASE OpenFails(p)
    BY <1>k, <2>m, <2>17 DEF OpenFails, OpenEnds, Opened
  <2>18. CASE ServeFails(p)
    BY <1>k, <2>m, <2>18 DEF ServeFails, Opened
  <2>19. CASE Kill(p)
    BY <1>k, <2>m, <2>19 DEF Kill, Ended, Opened
  <2>20. CASE \E t \in Tables : CreateTable(p, t)
    BY <1>k, <2>20 DEF CreateTable, Opened
  <2>21. CASE \E g \in Goroutines : GoTick(p, g)
    BY <1>k, <2>21 DEF GoTick, Opened
  <2>22. CASE \E g \in Goroutines : GoBegin(p, g)
    BY <1>k, <2>22 DEF GoBegin, Opened
  <2>23. CASE \E g \in Goroutines : GoFetched(p, g)
    BY <1>k, <2>23 DEF GoFetched, Opened
  <2>24. CASE \E g \in Goroutines : GoStored(p, g)
    BY <1>k, <2>24 DEF GoStored, Opened
  <2>25. CASE \E g \in Goroutines : GoStop(p, g)
    BY <1>k, <2>25 DEF GoStop, Opened
  <2> QED
    BY <2>1, <2>2, <2>3, <2>4, <2>5, <2>6, <2>7, <2>8, <2>9, <2>10, <2>11,
       <2>12, <2>13, <2>14, <2>15, <2>16, <2>17, <2>18, <2>19, <2>20,
       <2>21, <2>22, <2>23, <2>24, <2>25 DEF ProcStep
<1>3. CASE UNCHANGED vars
  BY <1>k, <1>3 DEF vars, Opened
<1> QED
  BY <1>1, <1>2, <1>3, NextActions

(* Wherever processes are killed or fail while they open the database, and *)
(* however many openings overlap, the schema is whole or absent.           *)
THEOREM SchemaStaysWhole == Spec => []SchemaIsWhole
<1>1. SchemaInv => SchemaIsWhole
  BY DEF SchemaInv
<1> QED
  BY <1>1, SchemaInit, SchemaStep, PTL DEF Spec

(* Whoever got past Open has all the tables. *)
THEOREM OpenIsEnough == Spec => []OpenedHasTables
<1>1. SchemaInv => OpenedHasTables
  BY DEF SchemaInv, SchemaIsWhole, OpenedHasTables, Opened
<1> QED
  BY <1>1, SchemaInit, SchemaStep, PTL DEF Spec

-----------------------------------------------------------------------------
(* The collectors: the counter is the number of those that still run, they *)
(* are launched with Run, and they have ended when Run goes on to close.   *)
Early == InOpen \cup {"down", "launch"}

Live(p) == {g \in Collectors : go[p][g] \notin {"none", "done"}}

Waiting(p) ==
    /\ wg[p] = Cardinality(Live(p))
    /\ main[p] \in Early => \A g \in Collectors : go[p][g] = "none"
    /\ p \in Daemons /\ main[p] \notin Early
         => \A g \in Collectors : go[p][g] # "none"
    /\ p \in Daemons /\ main[p] \in {"close", "closed"} => Live(p) = {}

WaitInv == Typed /\ \A p \in Procs : Waiting(p)

(* What the actions of a process do to its goroutines and their counter.   *)
MoveMain(p, froms, tos) ==
    /\ main[p] \in froms
    /\ \E m \in tos : main' = [main EXCEPT ![p] = m]
    /\ UNCHANGED <<go, wg>>

LEMMA Effects ==
    ASSUME Typed, NEW p \in Procs, ProcStep(p)
    PROVE  \/ UNCHANGED <<main, go, wg>>
           \/ MoveMain(p, Early, Early)
           \/ MoveMain(p, {"run"}, {"wait"})
           \/ MoveMain(p, {"close"}, {"closed"})
           \/ Command(p)
           \/ Waited(p)
           \/ Launch(p)
           \/ Ended(p)
           \/ \E g \in Goroutines :
                GoTick(p, g) \/ GoBegin(p, g) \/ GoFetched(p, g) \/ GoStored(p, g)
           \/ \E g \in Goroutines : GoStop(p, g)
<1> USE DEF Typed, MoveMain, Goto, Early, InOpen, goVars, sigVars, dashVars, runVars
<1>1. CASE Start(p)
  BY <1>1 DEF Start
<1>2. CASE CreateVersions(p)
  BY <1>2 DEF CreateVersions
<1>3. CASE ReadVersion(p)
  BY <1>3 DEF ReadVersion
<1>4. CASE Begin(p)
  BY <1>4 DEF Begin
<1>5. CASE Commit(p)
  BY <1>5 DEF Commit
<1>6. CASE InsertFails(p)
  BY <1>6 DEF InsertFails, OpenEnds
<1>7. CASE Command(p)
  BY <1>7
<1>8. CASE Launch(p)
  BY <1>8
<1>9. CASE Drain(p)
  BY <1>9 DEF Drain
<1>10. CASE Waited(p)
  BY <1>10
<1>11. CASE Close(p)
  BY <1>11 DEF Close
<1>12. CASE Exit(p)
  BY <1>12 DEF Exit
<1>13. CASE Signal(p)
  BY <1>13 DEF Signal
<1>14. CASE Watch(p)
  BY <1>14 DEF Watch
<1>15. CASE Listen(p)
  BY <1>15 DEF Listen
<1>16. CASE ReadVersionFails(p)
  BY <1>16 DEF ReadVersionFails
<1>17. CASE OpenFails(p)
  BY <1>17 DEF OpenFails, OpenEnds
<1>18. CASE ServeFails(p)
  BY <1>18 DEF ServeFails
<1>19. CASE Kill(p)
  BY <1>19 DEF Kill
<1>20. CASE \E t \in Tables : CreateTable(p, t)
  BY <1>20 DEF CreateTable
<1>21. CASE \E g \in Goroutines : GoTick(p, g)
  BY <1>21
<1>22. CASE \E g \in Goroutines : GoBegin(p, g)
  BY <1>22
<1>23. CASE \E g \in Goroutines : GoFetched(p, g)
  BY <1>23
<1>24. CASE \E g \in Goroutines : GoStored(p, g)
  BY <1>24
<1>25. CASE \E g \in Goroutines : GoStop(p, g)
  BY <1>25
<1> QED
  BY <1>1, <1>2, <1>3, <1>4, <1>5, <1>6, <1>7, <1>8, <1>9, <1>10, <1>11,
     <1>12, <1>13, <1>14, <1>15, <1>16, <1>17, <1>18, <1>19, <1>20, <1>21,
     <1>22, <1>23, <1>24, <1>25 DEF ProcStep

LEMMA WaitInit == Init => WaitInv
<1> SUFFICES ASSUME Init PROVE WaitInv
  OBVIOUS
<1>1. ASSUME NEW p \in Procs PROVE Waiting(p)
  <2>1. main[p] = "down" /\ wg[p] = 0 /\ \A g \in Collectors : go[p][g] = "none"
    BY DEF Init, NoGoroutines, Goroutines
  <2>2. Live(p) = {}
    BY <2>1 DEF Live
  <2>3. Cardinality({}) = 0
    BY FS_EmptySet
  <2> QED
    BY <2>1, <2>2, <2>3 DEF Waiting, Early
<1> QED
  BY <1>1, TypedInit DEF WaitInv

(* A process whose goroutines and counter are left alone. *)
LEMMA OthersWait ==
    ASSUME NEW q \in Procs, Waiting(q),
           main'[q] = main[q], go'[q] = go[q], wg'[q] = wg[q]
    PROVE  Waiting(q)'
BY DEF Waiting, Live

LEMMA WaitStep == WaitInv /\ [Next]_vars => WaitInv'
<1> SUFFICES ASSUME WaitInv, [Next]_vars PROVE \A q \in Procs : Waiting(q)'
  BY TypedStep DEF WaitInv
<1>t. Typed /\ Typed'
  BY TypedStep DEF WaitInv
<1>1. CASE UNCHANGED <<main, go, wg>>
  BY <1>1, OthersWait DEF WaitInv
<1>2. CASE \E p \in Procs : ProcStep(p)
  <2> PICK p \in Procs : ProcStep(p)
    BY <1>2
  <2>w. Waiting(p)
    BY DEF WaitInv
  <2>o. ASSUME Waiting(p)',
               \A q \in Procs \ {p} : /\ main'[q] = main[q]
                                      /\ go'[q] = go[q] /\ wg'[q] = wg[q]
        PROVE  \A q \in Procs : Waiting(q)'
    BY <2>o, OthersWait DEF WaitInv
  <2>m. ASSUME NEW froms, NEW tos, MoveMain(p, froms, tos)
        PROVE  /\ main[p] \in froms /\ main'[p] \in tos
               /\ UNCHANGED <<go, wg>> /\ Live(p)' = Live(p)
               /\ \A q \in Procs \ {p} : /\ main'[q] = main[q]
                                          /\ go'[q] = go[q] /\ wg'[q] = wg[q]
    BY <1>t, <2>m DEF MoveMain, Typed, Live
  <2>2. CASE MoveMain(p, Early, Early)
    <3>1. Waiting(p)'
      BY <2>m, <2>2, <2>w DEF Waiting, Early, InOpen
    <3> QED
      BY <2>m, <2>2, <2>o, <3>1
  <2>3. CASE MoveMain(p, {"run"}, {"wait"})
    <3>1. Waiting(p)'
      BY <2>m, <2>3, <2>w DEF Waiting, Early, InOpen
    <3> QED
      BY <2>m, <2>3, <2>o, <3>1
  <2>4. CASE MoveMain(p, {"close"}, {"closed"})
    <3>1. Waiting(p)'
      BY <2>m, <2>4, <2>w DEF Waiting, Early, InOpen
    <3> QED
      BY <2>m, <2>4, <2>o, <3>1
  <2>5. CASE Command(p)
    <3>1. MoveMain(p, {"launch"}, {"close"}) /\ p \notin Daemons
      BY <2>5, ProcessesAssumption
         DEF Command, MoveMain, Goto, goVars, runVars
    <3>2. Waiting(p)'
      BY <2>m, <3>1, <2>w DEF Waiting, Early, InOpen
    <3> QED
      BY <2>m, <2>o, <3>1, <3>2
  <2>6. CASE Waited(p)
    <3>1. MoveMain(p, {"wait"}, {"close"}) /\ wg[p] = 0
      BY <2>6 DEF Waited, MoveMain, Goto, goVars
    <3>2. Cardinality(Live(p)) = 0 /\ IsFiniteSet(Live(p))
      BY <2>w, <3>1, FS_Subset, GoroutinesAssumption DEF Waiting, Live
    <3>3. Live(p) = {}
      BY <3>2, FS_EmptySet
    <3>4. /\ main[p] = "wait" /\ main'[p] = "close"
          /\ UNCHANGED <<go, wg>> /\ Live(p)' = {}
      BY <2>m, <3>1, <3>3
    <3>5. Waiting(p)'
      BY <2>w, <3>3, <3>4 DEF Waiting, Early, InOpen
    <3> QED
      BY <2>m, <2>o, <3>1, <3>5
  <2>7. CASE Launch(p)
    <3>1. /\ main'[p] = "run" /\ wg'[p] = Cardinality(Collectors)
          /\ \A g \in Collectors : go'[p][g] = "ready"
      BY <1>t, <2>7 DEF Launch, Goto, Typed, Goroutines
    <3>2. Live(p)' = Collectors
      BY <3>1 DEF Live
    <3>3. Waiting(p)'
      BY <3>1, <3>2 DEF Waiting, Early, InOpen
    <3>4. \A q \in Procs \ {p} : /\ main'[q] = main[q]
                                 /\ go'[q] = go[q] /\ wg'[q] = wg[q]
      BY <1>t, <2>7 DEF Launch, Goto, Typed
    <3> QED
      BY <2>o, <3>3, <3>4
  <2>8. CASE Ended(p)
    <3>1. /\ main'[p] = "down" /\ wg'[p] = 0
          /\ \A g \in Collectors : go'[p][g] = "none"
      BY <1>t, <2>8 DEF Ended, NoGoroutines, Typed, Goroutines
    <3>2. Live(p)' = {}
      BY <3>1 DEF Live
    <3>3. Cardinality({}) = 0
      BY FS_EmptySet
    <3>4. Waiting(p)'
      BY <3>1, <3>2, <3>3 DEF Waiting, Early, InOpen
    <3>5. \A q \in Procs \ {p} : /\ main'[q] = main[q]
                                 /\ go'[q] = go[q] /\ wg'[q] = wg[q]
      BY <1>t, <2>8 DEF Ended, Typed
    <3> QED
      BY <2>o, <3>4, <3>5
  <2>9. CASE \E g \in Goroutines :
               GoTick(p, g) \/ GoBegin(p, g) \/ GoFetched(p, g) \/ GoStored(p, g)
    <3> PICK g \in Goroutines :
               GoTick(p, g) \/ GoBegin(p, g) \/ GoFetched(p, g) \/ GoStored(p, g)
      BY <2>9
    <3>1. /\ go[p][g] \notin {"none", "done"} /\ UNCHANGED <<main, wg>>
          /\ \E to : /\ go' = [go EXCEPT ![p][g] = to]
                     /\ to # "none" /\ (g \in Collectors => to # "done")
      BY GoMoves DEF GoMove
    <3>2. /\ \A h \in Goroutines \ {g} : go'[p][h] = go[p][h]
          /\ go'[p][g] # "none" /\ (g \in Collectors => go'[p][g] # "done")
          /\ \A q \in Procs \ {p} : go'[q] = go[q]
      BY <1>t, <3>1 DEF Typed
    <3>3. Live(p)' = Live(p)
      BY <3>1, <3>2 DEF Live, Goroutines
    <3>4. Waiting(p)'
      <4>1. \A h \in Collectors : go'[p][h] = "none" <=> go[p][h] = "none"
        BY <3>1, <3>2 DEF Goroutines
      <4> QED
        BY <2>w, <3>1, <3>3, <4>1 DEF Waiting
    <3> QED
      BY <2>o, <3>1, <3>2, <3>4
  <2>10. CASE \E g \in Goroutines : GoStop(p, g)
    <3> PICK g \in Goroutines : GoStop(p, g)
      BY <2>10
    <3>1. /\ go[p][g] = "select" /\ go'[p][g] = "done" /\ UNCHANGED main
          /\ \A h \in Goroutines \ {g} : go'[p][h] = go[p][h]
          /\ \A q \in Procs \ {p} : go'[q] = go[q]
      BY <1>t DEF GoStop, GoStep, Typed
    <3>2. wg' = IF g \in Collectors THEN [wg EXCEPT ![p] = @ - 1] ELSE wg
      BY DEF GoStop
    <3>3. \A q \in Procs \ {p} : wg'[q] = wg[q]
      BY <1>t, <3>2 DEF Typed
    <3>4. \A h \in Collectors : go'[p][h] = "none" <=> go[p][h] = "none"
      BY <3>1 DEF Goroutines
    <3>5. Live(p)' = Live(p) \ {g}
      BY <3>1 DEF Live, Goroutines
    <3>6. wg'[p] = Cardinality(Live(p)')
      <4>1. CASE g \in Collectors
        <5>1. g \in Live(p)
          BY <3>1, <4>1 DEF Live
        <5>2. IsFiniteSet(Live(p))
          BY FS_Subset, GoroutinesAssumption DEF Live
        <5>3. Cardinality(Live(p) \ {g}) = Cardinality(Live(p)) - 1
          BY <5>1, <5>2, FS_RemoveElement
        <5>4. wg'[p] = wg[p] - 1
          BY <1>t, <3>2, <4>1 DEF Typed
        <5> QED
          BY <2>w, <3>5, <5>3, <5>4 DEF Waiting
      <4>2. CASE g \notin Collectors
        BY <2>w, <3>2, <3>5, <4>2 DEF Waiting, Live
      <4> QED
        BY <4>1, <4>2
    <3>7. Waiting(p)'
      BY <2>w, <3>1, <3>4, <3>5, <3>6 DEF Waiting
    <3> QED
      BY <2>o, <3>1, <3>3, <3>7
  <2> QED
    BY <1>t, <1>1, <2>2, <2>3, <2>4, <2>5, <2>6, <2>7, <2>8, <2>9, <2>10, Effects
<1>3. CASE Calm
  BY <1>1, <1>3 DEF Calm, runVars, goVars
<1>4. CASE UNCHANGED vars
  BY <1>1, <1>4 DEF vars, runVars, goVars
<1> QED
  BY <1>2, <1>3, <1>4, NextActions

(* The database is not closed under a telemetry collector, for any number  *)
(* of them and wherever the signal finds them.                             *)
THEOREM ClosedAfterCollectors == Spec => []CollectorsEndBeforeClose
<1>1. WaitInv => CollectorsEndBeforeClose
  BY ProcessesAssumption
     DEF WaitInv, Waiting, Live, CollectorsEndBeforeClose, Procs, Early, InOpen
<1> QED
  BY <1>1, WaitInit, WaitStep, PTL DEF Spec

(* The types, and the counter of the wait group within its bounds: it is   *)
(* never negative, which would be a panic.                                 *)
THEOREM TypeCorrect == Spec => []TypeOK
<1>1. WaitInv => TypeOK
  <2> SUFFICES ASSUME WaitInv PROVE TypeOK
    OBVIOUS
  <2>1. ASSUME NEW p \in Procs PROVE wg[p] \in 0..Cardinality(Collectors)
    <3>1. /\ IsFiniteSet(Live(p))
          /\ Cardinality(Live(p)) <= Cardinality(Collectors)
      BY FS_Subset, GoroutinesAssumption DEF Live
    <3>2. Cardinality(Live(p)) \in Nat
      BY <3>1, FS_CardinalityType
    <3> QED
      BY <3>1, <3>2, CollectorsCounted DEF WaitInv, Waiting
  <2>2. wg \in [Procs -> 0..Cardinality(Collectors)]
    BY <2>1 DEF WaitInv, Typed
  <2> QED
    BY <2>2 DEF WaitInv, Typed, TypeOK
<1> QED
  BY <1>1, WaitInit, WaitStep, PTL DEF Spec

=============================================================================
