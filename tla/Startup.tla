-------------------------------- MODULE Startup --------------------------------
(***************************************************************************)
(* From the start of a pgkube process until it scrapes and serves: Execute *)
(* migrates the database, finds or creates the row of its cluster, starts  *)
(* the scraper and then the server.  Several processes start at once (a    *)
(* rolling update, several clusters on one database), each may be killed   *)
(* or fail at any moment, and is started again.                            *)
(***************************************************************************)
EXTENDS Naturals

CONSTANTS
    Instances,      \* pgkube processes
    Names,          \* names of clusters
    NameOf,         \* [Instances -> Names]: cfg.ClusterName
    NoInstance,     \* the holder of a free lock
    MaxID,          \* the last number of a smallserial
    MaxFailures     \* bound: processes that fail or are killed

ASSUME StartupAssumption ==
    /\ NameOf \in [Instances -> Names]
    /\ NoInstance \notin Instances
    /\ MaxID \in Nat
    /\ MaxFailures \in Nat

VARIABLES
    stage,          \* stage[i]: where process i is in Execute
    clusterID,      \* clusterID[i]: Queries.clusterID, 0 before it is set
    lock,           \* who holds the advisory lock of the migrations
    version,        \* the row of schema_migrations: "none", "dirty" or "clean"
    tables,         \* the tables and views of the schema exist
    clusters,       \* clusters[n]: the id of the row named n in cluster, or 0
    nextID,         \* the sequence of cluster.id
    failures,       \* how many processes have failed or were killed
    interrupted     \* a process ended between its first and its last migration step

vars == <<stage, clusterID, lock, version, tables, clusters, nextID, failures, interrupted>>
schemaVars == <<lock, version, tables>>
registryVars == <<clusters, nextID>>

\* migrate: waits for the lock; check: holds it; dirtied, created: steps of the
\* migration; lookup, insert: GetOrCreateCluster; configured: StartScraper next.
Migrating == {"dirtied", "created"}
PastMigration == {"lookup", "insert", "configured", "serving"}
Stages == {"exited", "migrate", "check"} \union Migrating \union PastMigration

TypeOK ==
    /\ stage \in [Instances -> Stages]
    /\ clusterID \in [Instances -> 0..MaxID]
    /\ lock \in Instances \union {NoInstance}
    /\ version \in {"none", "dirty", "clean"}
    /\ tables \in BOOLEAN
    /\ clusters \in [Names -> 0..MaxID]
    /\ nextID \in 1..(MaxID + 1)
    /\ failures \in Nat
    /\ interrupted \in BOOLEAN

Init ==
    /\ stage = [i \in Instances |-> "exited"]
    /\ clusterID = [i \in Instances |-> 0]
    /\ lock = NoInstance
    /\ version = "none"
    /\ tables = FALSE
    /\ clusters = [n \in Names |-> 0]
    /\ nextID = 1
    /\ failures = 0
    /\ interrupted = FALSE

GoTo(i, from, to) ==
    /\ stage[i] = from
    /\ stage' = [stage EXCEPT ![i] = to]

\* The process is over, and the session that may hold the lock with it.
Exit(i) ==
    /\ stage' = [stage EXCEPT ![i] = "exited"]
    /\ clusterID' = [clusterID EXCEPT ![i] = 0]
    /\ lock' = IF lock = i THEN NoInstance ELSE lock
    /\ interrupted' = (interrupted \/ stage[i] \in Migrating)

\* The kubelet starts the process; Execute reads its configuration.
Begin(i) ==
    /\ GoTo(i, "exited", "migrate")
    /\ UNCHANGED <<clusterID, schemaVars, registryVars, failures, interrupted>>

\* Any error on the way makes Execute return it and main exit; so does a kill.
Fail(i) ==
    /\ stage[i] # "exited"
    /\ failures < MaxFailures
    /\ failures' = failures + 1
    /\ Exit(i)
    /\ UNCHANGED <<version, tables, registryVars>>

--------------------------------------------------------------------------------
(* Migrate: m.Up() of golang-migrate, with the one file of migrations/.       *)

\* Mutated form of Lock: nobody waits.
Lock_Shared(i) ==
    /\ GoTo(i, "migrate", "check")
    /\ lock' = i
    /\ UNCHANGED <<clusterID, version, tables, registryVars, failures, interrupted>>

Lock(i) ==
    /\ lock = NoInstance
    /\ GoTo(i, "migrate", "check")
    /\ lock' = i
    /\ UNCHANGED <<clusterID, version, tables, registryVars, failures, interrupted>>

\* ErrNoChange: Migrate returns nil and Execute goes on.
UpToDate(i) ==
    /\ version = "clean"
    /\ GoTo(i, "check", "lookup")
    /\ lock' = NoInstance
    /\ UNCHANGED <<clusterID, version, tables, registryVars, failures, interrupted>>

\* Mutated form of Refused: a version that is there counts as up to date.
Refused_Ignored(i) ==
    /\ version = "dirty"
    /\ GoTo(i, "check", "lookup")
    /\ lock' = NoInstance
    /\ UNCHANGED <<clusterID, version, tables, registryVars, failures, interrupted>>

\* ErrDirty: Migrate returns it, whichever process left the version dirty.
Refused(i) ==
    /\ version = "dirty"
    /\ stage[i] = "check"
    /\ Exit(i)
    /\ UNCHANGED <<version, tables, registryVars, failures>>

\* The version is written, as dirty, in a transaction of its own.
MarkDirty(i) ==
    /\ version = "none"
    /\ GoTo(i, "check", "dirtied")
    /\ version' = "dirty"
    /\ UNCHANGED <<clusterID, lock, tables, registryVars, failures, interrupted>>

\* The file runs as one statement, that is as a whole or not at all.  On tables
\* that exist already it fails, and the version stays dirty.
RunUp(i) ==
    /\ GoTo(i, "dirtied", IF tables THEN "exited" ELSE "created")
    /\ tables' = TRUE
    /\ lock' = IF tables THEN NoInstance ELSE lock
    /\ UNCHANGED <<clusterID, version, registryVars, failures, interrupted>>

MarkClean(i) ==
    /\ GoTo(i, "created", "lookup")
    /\ version' = "clean"
    /\ lock' = NoInstance
    /\ UNCHANGED <<clusterID, tables, registryVars, failures, interrupted>>

--------------------------------------------------------------------------------
(* queries.New: GetOrCreateCluster, two statements without a transaction.     *)

Found(i) ==
    /\ clusters[NameOf[i]] # 0
    /\ GoTo(i, "lookup", "configured")
    /\ clusterID' = [clusterID EXCEPT ![i] = clusters[NameOf[i]]]
    /\ UNCHANGED <<schemaVars, registryVars, failures, interrupted>>

\* Mutated form of NotFound: the cluster is inserted without a look.
NotFound_Unchecked(i) ==
    /\ GoTo(i, "lookup", "insert")
    /\ UNCHANGED <<clusterID, schemaVars, registryVars, failures, interrupted>>

NotFound(i) ==
    /\ clusters[NameOf[i]] = 0
    /\ GoTo(i, "lookup", "insert")
    /\ UNCHANGED <<clusterID, schemaVars, registryVars, failures, interrupted>>

\* Mutated form of Draw: the sequence is wider than the column.
Draw_Wide == nextID' = nextID + 1

\* The insert takes a number of the sequence, which no failure gives back.
Draw == nextID <= MaxID /\ nextID' = nextID + 1

\* Mutated form of Created: a row of that name is given the new id.
Created_Replaces(i) ==
    /\ nextID <= MaxID /\ nextID' = nextID + 1
    /\ GoTo(i, "insert", "configured")
    /\ clusters' = [clusters EXCEPT ![NameOf[i]] = nextID]
    /\ clusterID' = [clusterID EXCEPT ![i] = nextID]
    /\ UNCHANGED <<schemaVars, failures, interrupted>>

Created(i) ==
    /\ clusters[NameOf[i]] = 0
    /\ Draw
    /\ GoTo(i, "insert", "configured")
    /\ clusters' = [clusters EXCEPT ![NameOf[i]] = nextID]
    /\ clusterID' = [clusterID EXCEPT ![i] = nextID]
    /\ UNCHANGED <<schemaVars, failures, interrupted>>

\* The name is not unique any more: another process was faster, this one exits.
Conflict(i) ==
    /\ clusters[NameOf[i]] # 0
    /\ stage[i] = "insert"
    /\ Draw
    /\ Exit(i)
    /\ UNCHANGED <<version, tables, clusters, failures>>

\* The sequence has reached the end of smallint.
Exhausted(i) ==
    /\ nextID > MaxID
    /\ stage[i] = "insert"
    /\ Exit(i)
    /\ UNCHANGED <<version, tables, registryVars, failures>>

\* StartScraper returns once its informers run; the server is started last.
Serve(i) ==
    /\ GoTo(i, "configured", "serving")
    /\ UNCHANGED <<clusterID, schemaVars, registryVars, failures, interrupted>>

--------------------------------------------------------------------------------

Migrate(i) ==
    \/ Lock(i) \/ UpToDate(i) \/ Refused(i)
    \/ MarkDirty(i) \/ RunUp(i) \/ MarkClean(i)

GetOrCreateCluster(i) ==
    Found(i) \/ NotFound(i) \/ Created(i) \/ Conflict(i) \/ Exhausted(i)

Execute(i) == Begin(i) \/ Migrate(i) \/ GetOrCreateCluster(i) \/ Serve(i)

Next == \E i \in Instances : Execute(i) \/ Fail(i)

Spec == Init /\ [][Next]_vars

\* A process goes on, the kubelet starts it again, and PostgreSQL grants the lock
\* in turn.  (Who waits longer than golang-migrate's timeout exits: a failure.)
FairSpec ==
    /\ Spec
    /\ \A i \in Instances : WF_vars(Execute(i)) /\ SF_vars(Lock(i))

--------------------------------------------------------------------------------
(* Properties.                                                                *)

\* Nobody reads or writes a database whose migration is not complete, however
\* processes start together and wherever one of them dies.
NobodyUsesHalfASchema ==
    \A i \in Instances : stage[i] \in PastMigration => tables /\ version = "clean"

\* Processes that migrate at the same time do not break the database: the
\* version is left dirty only by one that ended in the middle of the migration.
DirtyOnlyIfInterrupted ==
    version = "dirty" =>
        interrupted \/ \E i \in Instances : lock = i /\ stage[i] \in Migrating

\* The names and ids of clusters, and the id each process works under, are a
\* ClusterRegistry, whatever races, failures and restarts there are.
Registry ==
    INSTANCE ClusterRegistry
        WITH Names <- Names, Instances <- Instances, NameOf <- NameOf,
             Ids <- 1..MaxID, registered <- clusters, held <- clusterID
Registered == Registry!Spec

\* Of processes that start at once some fail on the others' row; started again,
\* each serves in the end, unless the version is dirty, or the cluster is new and
\* the ids are used up.
EventuallyServes ==
    \A i \in Instances :
        []<>(\/ stage[i] = "serving"
             \/ version = "dirty"
             \/ clusters[NameOf[i]] = 0 /\ nextID > MaxID)
================================================================================
