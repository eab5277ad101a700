----------------------------- MODULE StartupProofs -----------------------------
(***************************************************************************)
(* Proofs about Startup, for any number of processes, clusters, failures   *)
(* and ids.  Two inductive invariants: who is at the migration holds the   *)
(* lock, so version and tables advance together under one process; and an  *)
(* id in use was drawn from the sequence once, so that no two names share  *)
(* one.                                                                    *)
(***************************************************************************)
EXTENDS Startup, TLAPS

LEMMA TypeInit == Init => TypeOK
<1> USE StartupAssumption
<1>1. 0 \in 0..MaxID /\ 1 \in 1..(MaxID + 1) /\ 0 \in Nat
  OBVIOUS
<1>2. QED
  BY <1>1 DEF Init, TypeOK, Stages, PastMigration, Migrating

LEMMA ExitType == ASSUME TypeOK, NEW i \in Instances, Exit(i)
                  PROVE  /\ stage' \in [Instances -> Stages]
                         /\ clusterID' \in [Instances -> 0..MaxID]
                         /\ lock' \in Instances \union {NoInstance}
                         /\ interrupted' \in BOOLEAN
<1>1. 0 \in 0..MaxID
  BY StartupAssumption
<1>2. QED
  BY <1>1 DEF Exit, TypeOK, Stages

LEMMA TypeStep == TypeOK /\ [Next]_vars => TypeOK'
<1>1. SUFFICES ASSUME TypeOK, [Next]_vars PROVE TypeOK'
  OBVIOUS
<1> USE StartupAssumption
<1>2. ASSUME NEW i \in Instances,
             Begin(i) \/ Serve(i) \/ Lock(i) \/ UpToDate(i) \/ MarkDirty(i) \/ MarkClean(i) \/ NotFound(i)
      PROVE  TypeOK'
  BY <1>1, <1>2
  DEF Begin, Serve, Lock, UpToDate, MarkDirty, MarkClean, NotFound, GoTo,
      TypeOK, Stages, PastMigration, Migrating, schemaVars, registryVars
<1>3. ASSUME NEW i \in Instances, RunUp(i)
      PROVE  TypeOK'
  BY <1>1, <1>3 DEF RunUp, GoTo, TypeOK, Stages, Migrating, registryVars
<1>4. ASSUME NEW i \in Instances, Found(i)
      PROVE  TypeOK'
  BY <1>1, <1>4 DEF Found, GoTo, TypeOK, Stages, PastMigration, schemaVars, registryVars
<1>5. ASSUME NEW i \in Instances, Created(i)
      PROVE  TypeOK'
  <2>1. nextID \in 0..MaxID /\ nextID' \in 1..(MaxID + 1)
    BY <1>1, <1>5 DEF Created, Draw, TypeOK
  <2>2. QED
    BY <1>1, <1>5, <2>1 DEF Created, GoTo, TypeOK, Stages, PastMigration, schemaVars
<1>6. ASSUME NEW i \in Instances, Refused(i) \/ Conflict(i) \/ Exhausted(i) \/ Fail(i)
      PROVE  TypeOK'
  <2>1. nextID' \in 1..(MaxID + 1) /\ failures' \in Nat
    BY <1>1, <1>6 DEF Refused, Conflict, Exhausted, Fail, Draw, TypeOK, registryVars
  <2>2. Exit(i) /\ UNCHANGED <<version, tables, clusters>>
    BY <1>6 DEF Refused, Conflict, Exhausted, Fail, registryVars
  <2>3. QED
    BY <1>1, <2>1, <2>2, ExitType DEF TypeOK
<1>7. CASE UNCHANGED vars
  BY <1>1, <1>7 DEF vars, schemaVars, registryVars, TypeOK
<1>8. QED
  BY <1>1, <1>2, <1>3, <1>4, <1>5, <1>6, <1>7
  DEF Next, Execute, Migrate, GetOrCreateCluster

--------------------------------------------------------------------------------
(* The migration.                                                             *)

HoldsLock(i) == stage[i] \in {"check"} \union Migrating

\* What is known of version and tables, and of who may change them.
SchemaInv ==
    /\ \A i \in Instances :
          /\ HoldsLock(i) => lock = i
          /\ stage[i] \in Migrating => version = "dirty" /\ (tables <=> stage[i] = "created")
    /\ version = "none" => ~tables
    /\ version = "clean" => tables
    /\ NobodyUsesHalfASchema
    /\ DirtyOnlyIfInterrupted

LEMMA SchemaInit == Init => SchemaInv
BY StartupAssumption
DEF Init, SchemaInv, HoldsLock, NobodyUsesHalfASchema, DirtyOnlyIfInterrupted, Migrating,
    PastMigration

\* A process that only moves between stages without the lock disturbs nothing.
LEMMA SchemaKept ==
    ASSUME TypeOK, SchemaInv, NEW i \in Instances, NEW to \in Stages,
           stage' = [stage EXCEPT ![i] = to], UNCHANGED schemaVars,
           interrupted' = interrupted,
           ~HoldsLock(i), to \notin {"check"} \union Migrating,
           to \in PastMigration => stage[i] \in PastMigration
    PROVE  SchemaInv'
BY StartupAssumption
DEF SchemaInv, HoldsLock, NobodyUsesHalfASchema, DirtyOnlyIfInterrupted, Migrating,
    PastMigration, TypeOK, Stages, schemaVars

\* Nor does one that exits, wherever it is.
LEMMA SchemaLeft ==
    ASSUME TypeOK, SchemaInv, NEW i \in Instances, Exit(i), UNCHANGED <<version, tables>>
    PROVE  SchemaInv'
BY StartupAssumption
DEF Exit, SchemaInv, HoldsLock, NobodyUsesHalfASchema, DirtyOnlyIfInterrupted, Migrating,
    PastMigration, TypeOK, Stages

LEMMA SchemaMigrates ==
    ASSUME TypeOK, SchemaInv, NEW i \in Instances, Migrate(i)
    PROVE  SchemaInv'
<1> USE StartupAssumption
    DEF SchemaInv, HoldsLock, NobodyUsesHalfASchema, DirtyOnlyIfInterrupted, Migrating,
        PastMigration, TypeOK, Stages
<1>1. CASE Lock(i)
  <2>1. \A j \in Instances : lock # j
    BY <1>1 DEF Lock
  <2>2. /\ stage' = [stage EXCEPT ![i] = "check"] /\ lock' = i
        /\ UNCHANGED <<version, tables, interrupted>>
    BY <1>1 DEF Lock, GoTo
  <2>3. version = "dirty" => interrupted
    BY <2>1
  <2>4. \A j \in Instances : stage'[j] \in {"check"} \union Migrating => j = i
    BY <2>1, <2>2
  <2>5. SchemaInv!1'
    BY <2>2, <2>4
  <2>6. (version = "none" => ~tables)' /\ (version = "clean" => tables)'
        /\ (version = "dirty" => interrupted)'
    BY <2>2, <2>3
  <2>7. NobodyUsesHalfASchema'
    BY <2>2
  <2>8. QED
    BY <2>5, <2>6, <2>7
<1>2. CASE UpToDate(i)
  <2>1. version = "clean" /\ tables /\ lock = i
    BY <1>2 DEF UpToDate, GoTo
  <2>2. /\ stage' = [stage EXCEPT ![i] = "lookup"]
        /\ UNCHANGED <<version, tables, interrupted>>
    BY <1>2 DEF UpToDate, GoTo
  <2>3. \A j \in Instances : stage'[j] \notin {"check"} \union Migrating
    BY <2>1, <2>2
  <2>4. QED
    BY <2>1, <2>2, <2>3
<1>3. CASE Refused(i)
  BY <1>3, SchemaLeft DEF Refused
<1>4. CASE MarkDirty(i)
  BY <1>4 DEF MarkDirty, GoTo
<1>5. CASE RunUp(i)
  BY <1>5 DEF RunUp, GoTo
<1>6. CASE MarkClean(i)
  BY <1>6 DEF MarkClean, GoTo
<1>7. QED
  BY <1>1, <1>2, <1>3, <1>4, <1>5, <1>6 DEF Migrate

LEMMA SchemaStep == TypeOK /\ SchemaInv /\ [Next]_vars => SchemaInv'
<1>1. SUFFICES ASSUME TypeOK, SchemaInv, [Next]_vars PROVE SchemaInv'
  OBVIOUS
<1>2. ASSUME NEW i \in Instances, Begin(i) \/ Found(i) \/ NotFound(i) \/ Created(i) \/ Serve(i)
      PROVE  SchemaInv'
  <2>1. PICK to \in Stages :
            /\ stage' = [stage EXCEPT ![i] = to]
            /\ to \notin {"check"} \union Migrating
            /\ to \in PastMigration => stage[i] \in PastMigration
    BY <1>2
    DEF Begin, Found, NotFound, Created, Serve, GoTo, Stages, Migrating, PastMigration
  <2>2. UNCHANGED schemaVars /\ interrupted' = interrupted /\ ~HoldsLock(i)
    BY <1>2
    DEF Begin, Found, NotFound, Created, Serve, GoTo, HoldsLock, Migrating
  <2>3. QED
    BY <1>1, <2>1, <2>2, SchemaKept
<1>3. ASSUME NEW i \in Instances, Conflict(i) \/ Exhausted(i) \/ Fail(i)
      PROVE  SchemaInv'
  BY <1>1, <1>3, SchemaLeft DEF Conflict, Exhausted, Fail, registryVars
<1>4. CASE UNCHANGED vars
  BY <1>1, <1>4
  DEF vars, schemaVars, registryVars, SchemaInv, HoldsLock, NobodyUsesHalfASchema,
      DirtyOnlyIfInterrupted
<1>5. QED
  BY <1>1, <1>2, <1>3, <1>4, SchemaMigrates DEF Next, Execute, GetOrCreateCluster

--------------------------------------------------------------------------------
(* The table of clusters.                                                     *)

IdInv ==
    /\ Registry!OwnCluster
    /\ \A n \in Names : clusters[n] < nextID

LEMMA IdInit == Init => IdInv
BY StartupAssumption DEF Init, IdInv, Registry!OwnCluster

LEMMA IdStep == TypeOK /\ IdInv /\ [Next]_vars => IdInv'
<1>1. SUFFICES ASSUME TypeOK, IdInv, [Next]_vars PROVE IdInv'
  OBVIOUS
<1> USE StartupAssumption DEF IdInv, TypeOK, Registry!OwnCluster
<1>2. ASSUME NEW i \in Instances, Begin(i) \/ Serve(i) \/ Migrate(i)
      PROVE  IdInv'
  BY <1>1, <1>2
  DEF Begin, Serve, Migrate, Lock, UpToDate, Refused, MarkDirty, RunUp, MarkClean, GoTo, Exit,
      schemaVars, registryVars
<1>3. ASSUME NEW i \in Instances, Created(i)
      PROVE  IdInv'
  BY <1>1, <1>3 DEF Created, Draw, GoTo
<1>4. ASSUME NEW i \in Instances, Found(i) \/ NotFound(i) \/ Conflict(i) \/ Exhausted(i) \/ Fail(i)
      PROVE  IdInv'
  BY <1>1, <1>4
  DEF Found, NotFound, Conflict, Exhausted, Fail, Draw, GoTo, Exit, schemaVars, registryVars
<1>5. CASE UNCHANGED vars
  BY <1>1, <1>5 DEF vars, schemaVars, registryVars
<1>6. QED
  BY <1>1, <1>2, <1>3, <1>4, <1>5 DEF Next, Execute, GetOrCreateCluster

\* Every step registers a new name, takes up the id of one's own, gives it up, or
\* leaves the registry alone.
LEMMA RegistryStep == TypeOK /\ IdInv /\ [Next]_vars => [Registry!Next]_(Registry!vars)
<1>1. SUFFICES ASSUME TypeOK, IdInv, [Next]_vars PROVE [Registry!Next]_(Registry!vars)
  OBVIOUS
<1> USE StartupAssumption DEF TypeOK
<1>2. ASSUME NEW i \in Instances, Created(i)
      PROVE  Registry!Register(i)
  <2>1. /\ clusters[NameOf[i]] = 0 /\ nextID <= MaxID
        /\ clusters' = [clusters EXCEPT ![NameOf[i]] = nextID]
        /\ clusterID' = [clusterID EXCEPT ![i] = nextID]
    BY <1>2 DEF Created, Draw
  <2>2. nextID \in 1..MaxID /\ \A n \in Names : clusters[n] # nextID
    BY <1>1, <2>1 DEF IdInv
  <2>3. QED
    BY <2>1, <2>2 DEF Registry!Register
<1>3. ASSUME NEW i \in Instances, Found(i)
      PROVE  Registry!Join(i)
  BY <1>3 DEF Found, registryVars, Registry!Join
<1>4. ASSUME NEW i \in Instances, Refused(i) \/ Conflict(i) \/ Exhausted(i) \/ Fail(i)
      PROVE  Registry!Leave(i)
  BY <1>4 DEF Refused, Conflict, Exhausted, Fail, Exit, registryVars, Registry!Leave
<1>5. ASSUME NEW i \in Instances,
             \/ Begin(i) \/ NotFound(i) \/ Serve(i)
             \/ Lock(i) \/ UpToDate(i) \/ MarkDirty(i) \/ RunUp(i) \/ MarkClean(i)
      PROVE  UNCHANGED Registry!vars
  BY <1>5
  DEF Begin, NotFound, Serve, Lock, UpToDate, MarkDirty, RunUp, MarkClean, registryVars,
      Registry!vars
<1>6. CASE UNCHANGED vars
  BY <1>6 DEF vars, registryVars, Registry!vars
<1>7. QED
  BY <1>1, <1>2, <1>3, <1>4, <1>5, <1>6
  DEF Next, Execute, Migrate, GetOrCreateCluster, Registry!Next

--------------------------------------------------------------------------------

\* Every variable keeps its type; the sequence never leaves its column.
THEOREM Typing == Spec => []TypeOK
BY TypeInit, TypeStep, PTL DEF Spec

\* No process reads or writes a database that is not migrated to the end.
THEOREM SchemaIsWhole == Spec => []NobodyUsesHalfASchema
<1>1. SchemaInv => NobodyUsesHalfASchema
  BY DEF SchemaInv
<1>2. QED
  BY <1>1, Typing, SchemaInit, SchemaStep, PTL DEF Spec

\* Concurrent migrations never leave the version dirty by themselves.
THEOREM NotDirtyByRace == Spec => []DirtyOnlyIfInterrupted
<1>1. SchemaInv => DirtyOnlyIfInterrupted
  BY DEF SchemaInv
<1>2. QED
  BY <1>1, Typing, SchemaInit, SchemaStep, PTL DEF Spec

\* No process ever works under the id of another cluster, and ids are unique.
THEOREM OwnClusterAlways == Spec => []Registry!OwnCluster
<1>1. IdInv => Registry!OwnCluster
  BY DEF IdInv
<1>2. QED
  BY <1>1, Typing, IdInit, IdStep, PTL DEF Spec

\* GetOrCreateCluster, raced, failed and repeated, implements ClusterRegistry.
THEOREM RegistryImplemented == Spec => Registered
<1>1. Init => Registry!Init
  BY DEF Init, Registry!Init
<1>2. QED
  BY <1>1, Typing, IdInit, IdStep, RegistryStep, PTL DEF Spec, Registered, Registry!Spec
================================================================================
