----------------------------- MODULE Lifecycle ------------------------------
(***************************************************************************)
(* From db.Open to Close: processes that share a data directory open and   *)
(* migrate the database (internal/db); the daemon among them launches its  *)
(* goroutines, waits for a signal, waits for the telemetry collectors and  *)
(* closes the database (internal/daemon, internal/telemetry), whereupon    *)
(* main returns and whatever still runs is gone.  The other processes are  *)
(* commands such as status: they open, ask, and close.                     *)
(*                                                                         *)
(* The daemon of the UX binary also serves the dashboard, in a goroutine   *)
(* that ends when it cannot listen or serve; its error waits in a 1-place  *)
(* channel until Run has returned.  Its context is never cancelled, so     *)
(* nothing but the end of the process ends a dashboard that works.         *)
(*                                                                         *)
(* A process may be killed anywhere, and is started again; SQLite then     *)
(* rolls back what it had not committed.                                   *)
(***************************************************************************)
EXTENDS Naturals, FiniteSets

CONSTANTS
    Daemons,     \* processes that run the daemon
    Dashboards,  \* those of them with a dashboard: lightnode-ux
    Commands,    \* processes that run a command
    Collectors,  \* telemetry collectors: Run waits for these
    Loops,       \* the other goroutines, for which nobody waits
    Tables       \* the tables of schema version 1

ASSUME GoroutinesAssumption ==
    Collectors \cap Loops = {} /\ IsFiniteSet(Collectors)
ASSUME ProcessesAssumption ==
    Daemons \cap Commands = {} /\ Dashboards \subseteq Daemons

VARIABLES
    hasVersions,  \* disk: does the table schema_version exist?
    version,      \* disk: does it hold version 1?
    tables,       \* disk: the tables that exist
    main,         \* where the main goroutine of each process is
    pending,      \* tables created in a transaction not yet committed
    go,           \* where the other goroutines are
    wg,           \* the counter of Manager.wg
    sigCh,        \* is there a signal in the 1-place channel of Run?
    watcher,      \* the goroutine that waits for it
    cancelled,    \* is the context of Run done?
    dash,         \* the dashboard; failed: its error is in errCh
    told,         \* history: has this run of the process got a signal?
    status,       \* history: how the last run of the process ended
    faults        \* may anything still fail or be killed?

disk == <<hasVersions, version, tables>>
goVars == <<go, wg>>
sigVars == <<sigCh, watcher, cancelled, told>>
dashVars == <<dash, status>>
runVars == <<goVars, sigVars, dashVars>>
vars == <<disk, main, pending, runVars, faults>>

Procs == Daemons \cup Commands
Goroutines == Collectors \cup Loops

InOpen == {"create", "read", "begin", "migrate"}
Mains == InOpen \cup {"down", "launch", "run", "wait", "close", "closed"}

TypeOK ==
    /\ hasVersions \in BOOLEAN /\ version \in BOOLEAN /\ tables \subseteq Tables
    /\ main \in [Procs -> Mains]
    /\ pending \in [Procs -> SUBSET Tables]
    /\ go \in [Procs -> [Goroutines ->
                           {"none", "ready", "fetch", "store", "select", "done"}]]
    /\ wg \in [Procs -> 0..Cardinality(Collectors)]
    /\ sigCh \in [Procs -> BOOLEAN]
    /\ watcher \in [Procs -> {"none", "starting", "receiving", "done"}]
    /\ cancelled \in [Procs -> BOOLEAN]
    /\ dash \in [Procs -> {"none", "starting", "serving", "failed"}]
    /\ told \in [Procs -> BOOLEAN]
    /\ status \in [Procs -> {"none", "ok", "error", "killed"}]
    /\ faults \in BOOLEAN

NoGoroutines == [g \in Goroutines |-> "none"]

Init ==
    /\ hasVersions = FALSE /\ version = FALSE /\ tables = {}
    /\ main = [p \in Procs |-> "down"]
    /\ pending = [p \in Procs |-> {}]
    /\ go = [p \in Procs |-> NoGoroutines]
    /\ wg = [p \in Procs |-> 0]
    /\ sigCh = [p \in Procs |-> FALSE]
    /\ watcher = [p \in Procs |-> "none"]
    /\ cancelled = [p \in Procs |-> FALSE]
    /\ dash = [p \in Procs |-> "none"]
    /\ told = [p \in Procs |-> FALSE]
    /\ status = [p \in Procs |-> "none"]
    /\ faults = TRUE

Goto(p, from, to) == main[p] = from /\ main' = [main EXCEPT ![p] = to]

-----------------------------------------------------------------------------
(* db.Open.  A write waits while another process is in a transaction; when *)
(* it has waited too long it fails, and so does Open (Busy).               *)

Free(p) == \A q \in Procs \ {p} : main[q] # "migrate"

Start(p) ==
    /\ Goto(p, "down", "create")
    /\ status' = [status EXCEPT ![p] = "none"]
    /\ UNCHANGED <<disk, pending, goVars, sigVars, dash, faults>>

(* CREATE TABLE IF NOT EXISTS schema_version *)
CreateVersions(p) ==
    /\ Goto(p, "create", "read")
    /\ hasVersions \/ Free(p)
    /\ hasVersions' = TRUE
    /\ UNCHANGED <<version, tables, pending, runVars, faults>>

(* Mutant: a database that has the table schema_version is up to date. *)
ReadTableOnly(p) ==
    /\ Goto(p, "read", "launch")
    /\ UNCHANGED <<disk, pending, runVars, faults>>

(* Mutant: MAX(version) without COALESCE, and any error taken for 0. *)
ReadAlwaysZero(p) ==
    /\ Goto(p, "read", "begin")
    /\ UNCHANGED <<disk, pending, runVars, faults>>

ReadVersion(p) ==
    /\ Goto(p, "read", IF version THEN "launch" ELSE "begin")
    /\ UNCHANGED <<disk, pending, runVars, faults>>

(* The error of Scan is ignored: version 0. *)
ReadVersionFails(p) ==
    /\ faults
    /\ Goto(p, "read", "begin")
    /\ UNCHANGED <<disk, pending, runVars, faults>>

(* Begin, and the write lock with the first statement of migrateV1. *)
Begin(p) ==
    /\ Goto(p, "begin", "migrate")
    /\ Free(p)
    /\ UNCHANGED <<disk, pending, runVars, faults>>

(* Mutant: each statement commits on its own. *)
CreateTableCommitted(p, t) ==
    /\ main[p] = "migrate" /\ t \notin pending[p]
    /\ pending' = [pending EXCEPT ![p] = @ \cup {t}]
    /\ tables' = tables \cup {t}
    /\ UNCHANGED <<hasVersions, version, main, runVars, faults>>

(* CREATE TABLE IF NOT EXISTS t *)
CreateTable(p, t) ==
    /\ main[p] = "migrate" /\ t \notin pending[p]
    /\ pending' = [pending EXCEPT ![p] = @ \cup {t}]
    /\ UNCHANGED <<disk, main, runVars, faults>>

(* INSERT INTO schema_version, the last statement, and the commit.         *)
Commit(p) ==
    /\ pending[p] = Tables /\ ~version
    /\ Goto(p, "migrate", "launch")
    /\ tables' = tables \cup pending[p]
    /\ version' = TRUE
    /\ pending' = [pending EXCEPT ![p] = {}]
    /\ UNCHANGED <<hasVersions, runVars, faults>>

(* The process of a failed New ends; what it had not committed is undone.  *)
OpenEnds(p) ==
    /\ main' = [main EXCEPT ![p] = "down"]
    /\ pending' = [pending EXCEPT ![p] = {}]
    /\ UNCHANGED <<disk, runVars, faults>>

(* Another process has recorded the version since this one read it: the    *)
(* insert violates the primary key.                                        *)
InsertFails(p) ==
    /\ main[p] = "migrate" /\ pending[p] = Tables /\ version
    /\ OpenEnds(p)

(* New fails at any statement, for want of the lock, or later, at the      *)
(* keyring or the configuration, when it closes the database.              *)
OpenFails(p) ==
    /\ faults
    /\ main[p] \in InOpen \cup {"launch"}
    /\ OpenEnds(p)

-----------------------------------------------------------------------------
(* Run. *)

(* A command does its work in between; it has no goroutines to wait for.   *)
Command(p) ==
    /\ p \in Commands
    /\ Goto(p, "launch", "close")
    /\ UNCHANGED <<disk, pending, runVars, faults>>

(* The goroutine that calls Server.Start. *)
Serve(p) ==
    dash' = [dash EXCEPT ![p] = IF p \in Dashboards THEN "starting" ELSE "none"]

(* Mutant: wg.Add is left to the collectors, which are too late for Wait. *)
LaunchAddLater(p) ==
    /\ p \in Daemons
    /\ Goto(p, "launch", "run")
    /\ go' = [go EXCEPT ![p] = [g \in Goroutines |-> "ready"]]
    /\ watcher' = [watcher EXCEPT ![p] = "starting"]
    /\ Serve(p)
    /\ UNCHANGED <<disk, pending, wg, sigCh, cancelled, told, status, faults>>

(* signal.Notify, the goroutines and, before each of the collectors',      *)
(* wg.Add(1).                                                              *)
Launch(p) ==
    /\ p \in Daemons
    /\ Goto(p, "launch", "run")
    /\ go' = [go EXCEPT ![p] = [g \in Goroutines |-> "ready"]]
    /\ wg' = [wg EXCEPT ![p] = Cardinality(Collectors)]
    /\ watcher' = [watcher EXCEPT ![p] = "starting"]
    /\ Serve(p)
    /\ UNCHANGED <<disk, pending, sigCh, cancelled, told, status, faults>>

(* Mutant: an unbuffered channel. *)
SignalUnbuffered(p) ==
    /\ main[p] \in {"run", "wait", "close", "closed"} /\ p \in Daemons
    /\ told' = [told EXCEPT ![p] = TRUE]
    /\ sigCh' = IF watcher[p] = "receiving" THEN [sigCh EXCEPT ![p] = TRUE] ELSE sigCh
    /\ UNCHANGED <<disk, main, pending, goVars, watcher, cancelled, dashVars, faults>>

(* SIGINT or SIGTERM: dropped when the channel is full.  Before Notify     *)
(* they kill.                                                              *)
Signal(p) ==
    /\ main[p] \in {"run", "wait", "close", "closed"} /\ p \in Daemons
    /\ told' = [told EXCEPT ![p] = TRUE]
    /\ sigCh' = [sigCh EXCEPT ![p] = TRUE]
    /\ UNCHANGED <<disk, main, pending, goVars, watcher, cancelled, dashVars, faults>>

Watch(p) ==
    \/ /\ watcher[p] = "starting"
       /\ watcher' = [watcher EXCEPT ![p] = "receiving"]
       /\ UNCHANGED <<disk, main, pending, goVars, sigCh, cancelled, told, dashVars, faults>>
    \/ /\ watcher[p] = "receiving" /\ sigCh[p]
       /\ watcher' = [watcher EXCEPT ![p] = "done"]
       /\ sigCh' = [sigCh EXCEPT ![p] = FALSE]
       /\ cancelled' = [cancelled EXCEPT ![p] = TRUE]
       /\ UNCHANGED <<disk, main, pending, goVars, told, dashVars, faults>>

Drain(p) ==
    /\ cancelled[p]
    /\ Goto(p, "run", "wait")
    /\ UNCHANGED <<disk, pending, runVars, faults>>

(* ListenAndServe. *)
Listen(p) ==
    /\ dash[p] = "starting"
    /\ dash' = [dash EXCEPT ![p] = "serving"]
    /\ UNCHANGED <<disk, main, pending, goVars, sigVars, status, faults>>

(* The address is in use, or no connection can be accepted any more.       *)
ServeFails(p) ==
    /\ faults
    /\ dash[p] \in {"starting", "serving"}
    /\ dash' = [dash EXCEPT ![p] = "failed"]
    /\ UNCHANGED <<disk, main, pending, goVars, sigVars, status, faults>>

(* Mutant: nobody looks at errCh. *)
WaitedUnread(p) ==
    /\ wg[p] = 0
    /\ Goto(p, "wait", "close")
    /\ status' = [status EXCEPT ![p] = "ok"]
    /\ UNCHANGED <<disk, pending, goVars, sigVars, dash, faults>>

(* telem.Wait; Run returns, and the command with it: with the error of the *)
(* dashboard, if it has failed by now.                                     *)
Waited(p) ==
    /\ wg[p] = 0
    /\ Goto(p, "wait", "close")
    /\ status' = [status EXCEPT ![p] = IF dash[p] = "failed" THEN "error" ELSE "ok"]
    /\ UNCHANGED <<disk, pending, goVars, sigVars, dash, faults>>

(* The deferred Close of main, which waits for a statement being executed. *)
Close(p) ==
    /\ Goto(p, "close", "closed")
    /\ UNCHANGED <<disk, pending, runVars, faults>>

(* What a process leaves behind: nothing but the disk. *)
Ended(p) ==
    /\ main' = [main EXCEPT ![p] = "down"]
    /\ pending' = [pending EXCEPT ![p] = {}]
    /\ go' = [go EXCEPT ![p] = NoGoroutines]
    /\ wg' = [wg EXCEPT ![p] = 0]
    /\ sigCh' = [sigCh EXCEPT ![p] = FALSE]
    /\ watcher' = [watcher EXCEPT ![p] = "none"]
    /\ cancelled' = [cancelled EXCEPT ![p] = FALSE]
    /\ told' = [told EXCEPT ![p] = FALSE]
    /\ dash' = [dash EXCEPT ![p] = "none"]
    /\ UNCHANGED <<disk, faults>>

Exit(p) == main[p] = "closed" /\ Ended(p) /\ UNCHANGED status

Kill(p) ==
    /\ faults /\ main[p] # "down"
    /\ Ended(p)
    /\ status' = [status EXCEPT ![p] = "killed"]

(* From here on nothing fails by itself and nothing is killed. *)
Calm ==
    /\ faults /\ faults' = FALSE
    /\ UNCHANGED <<disk, main, pending, runVars>>

-----------------------------------------------------------------------------
(* A goroutine: rounds of a request to the chain and a statement, in a     *)
(* select between the ticker and ctx.Done.                                 *)

GoStep(p, g, from, to) ==
    go[p][g] = from /\ go' = [go EXCEPT ![p][g] = to]

(* Some start with a round, some with the select; the heartbeat loop      *)
(* returns when it finds no key.                                           *)
GoBegin(p, g) ==
    /\ \/ GoStep(p, g, "ready", "fetch")
       \/ g \in Loops /\ \E to \in {"select", "done"} : GoStep(p, g, "ready", to)
    /\ UNCHANGED <<disk, main, pending, wg, sigVars, dashVars, faults>>

GoTick(p, g) ==
    /\ GoStep(p, g, "select", "fetch")
    /\ UNCHANGED <<disk, main, pending, wg, sigVars, dashVars, faults>>

(* The request returns, with an answer or an error; a cancelled context    *)
(* ends it with an error.                                                  *)
GoFetched(p, g) ==
    /\ \/ ~cancelled[p] /\ GoStep(p, g, "fetch", "store")
       \/ GoStep(p, g, "fetch", "select")
    /\ UNCHANGED <<disk, main, pending, wg, sigVars, dashVars, faults>>

(* The statement has no context: it is executed although the context is    *)
(* done, and fails when the database is closed.                            *)
GoStored(p, g) ==
    /\ GoStep(p, g, "store", "select")
    /\ UNCHANGED <<disk, main, pending, wg, sigVars, dashVars, faults>>

(* Mutant: every goroutine calls wg.Done. *)
GoStopAllDone(p, g) ==
    /\ cancelled[p]
    /\ GoStep(p, g, "select", "done")
    /\ wg' = [wg EXCEPT ![p] = @ - 1]
    /\ UNCHANGED <<disk, main, pending, sigVars, dashVars, faults>>

GoStop(p, g) ==
    /\ cancelled[p]
    /\ GoStep(p, g, "select", "done")
    /\ wg' = IF g \in Collectors THEN [wg EXCEPT ![p] = @ - 1] ELSE wg
    /\ UNCHANGED <<disk, main, pending, sigVars, dashVars, faults>>

-----------------------------------------------------------------------------
Open(p) ==
    \/ CreateVersions(p) \/ ReadVersion(p) \/ Begin(p)
    \/ \E t \in Tables : CreateTable(p, t)
    \/ Commit(p) \/ InsertFails(p)

Fault(p) == ReadVersionFails(p) \/ OpenFails(p) \/ ServeFails(p) \/ Kill(p)

Run(p) == Launch(p) \/ Drain(p) \/ Waited(p) \/ Close(p) \/ Exit(p)

GoRun(p, g) == GoBegin(p, g) \/ GoFetched(p, g) \/ GoStored(p, g) \/ GoStop(p, g)

Next ==
    \/ Calm
    \/ \E p \in Procs :
         \/ Start(p) \/ Open(p) \/ Command(p) \/ Run(p)
         \/ Signal(p) \/ Watch(p) \/ Listen(p) \/ Fault(p)
         \/ \E g \in Goroutines : GoTick(p, g) \/ GoRun(p, g)

(* Fairness: every goroutine runs, and requests return (contexts end them, *)
(* as does the HTTP client's timeout); a select that has ctx.Done ready    *)
(* for ever chooses it (SF); and what ended is started again               *)
(* (docker-compose.yml:13, 26).                                            *)
Fairness ==
    /\ \A p \in Procs : WF_vars(Start(p) \/ Open(p) \/ Command(p) \/ Run(p))
    /\ \A p \in Daemons :
         /\ WF_vars(Watch(p))
         /\ \A g \in Goroutines : WF_vars(GoRun(p, g)) /\ SF_vars(GoStop(p, g))

Spec == Init /\ [][Next]_vars
FairSpec == Spec /\ Fairness

-----------------------------------------------------------------------------
(* Wherever processes are killed or fail while they open the database, and *)
(* however their openings overlap, the schema on disk is whole or absent,  *)
(* and the version says which.                                             *)
SchemaIsWhole == tables = IF version THEN Tables ELSE {}

(* A process that got past Open finds all the tables, although it ignores  *)
(* an error of the query that tells whether there is anything to migrate.  *)
OpenedHasTables ==
    \A p \in Procs : main[p] \notin InOpen \cup {"down"} => tables = Tables

(* The database is not closed under a telemetry collector.                 *)
CollectorsEndBeforeClose ==
    \A p \in Daemons :
        main[p] = "closed" => \A g \in Collectors : go[p][g] = "done"

(* A daemon that is told to stop does, even if the signal comes before the *)
(* goroutine that waits for it runs, or in the middle of a collection.     *)
SignalsEnd == \A p \in Daemons : told[p] ~> main[p] = "down"

(* A dashboard that failed while the daemon ran is reported when the       *)
(* daemon has been told to stop.  Nobody learns of it before.              *)
FailedDashboardIsReported ==
    \A p \in Dashboards :
        (dash[p] = "failed" /\ main[p] = "run" /\ told[p])
            ~> status[p] \in {"error", "killed"}

(* A failed or interrupted opening leaves nothing that makes every later   *)
(* one fail: when kills and faults are over, a daemon comes up.            *)
ComesUp == \A p \in Daemons : ~faults ~> main[p] = "run"

=============================================================================
