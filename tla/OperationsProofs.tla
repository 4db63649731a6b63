-------------------------- MODULE OperationsProofs --------------------------
(***************************************************************************)
(* Proofs about the parts around the sending pipeline.  They share no      *)
(* state: each theorem is about the specification of one of them.          *)
(***************************************************************************)
EXTENDS SchemaMigrations, CloudflareWorker, LogRetention, ProviderEvents, HostedProof,
        ResendMigration, CloudflareDeployment, AwsDeployment, FiniteSetTheorems, TLAPS

-----------------------------------------------------------------------------
(* Schema migrations, for any processes and releases.                       *)

MigratorPc ==
    {"idle", "lock", "select", "apply", "unlock", "unlockFailed", "complete", "failed"}

MigratorCause == {"none", "checksum", "collision", "database", "lost"}

\* The registry, the statements and the locals of a process keep their types;
\* a process that has started runs a release.
PgTypeOK ==
    /\ advisoryLock \in Migrators \cup {NoMigrator}
    /\ registry \in [Versions -> Nat]
    /\ schema \in Seq(Versions \X (Nat \ {0}))
    /\ migrator \in [Migrators -> [pc : MigratorPc, release : DOMAIN Releases \cup {"none"},
                                   i : Nat \ {0}, cause : MigratorCause]]
    /\ \A m \in Migrators : migrator[m].pc # "idle" => migrator[m].release \in DOMAIN Releases

\* Only the process with the lock is between its acquisition and its release.
PgLockInv ==
    \A m \in Migrators :
        migrator[m].pc \in {"select", "apply", "unlock", "unlockFailed"} => advisoryLock = m

\* The registry tells what is in the schema: a statement of a version was run
\* once, and its row has the checksum of what was run.
PgRegistryInv ==
    /\ \A n \in DOMAIN schema : registry[schema[n][1]] = schema[n][2]
    /\ \A n, k \in DOMAIN schema : schema[n][1] = schema[k][1] => n = k
    /\ \A v \in Versions : registry[v] # 0 => \E n \in DOMAIN schema : schema[n][1] = v

\* The versions a process has passed are in the registry with the checksums of
\* its release; the one it is about to apply is not.
PgPassedInv ==
    \A m \in Migrators :
        /\ migrator[m].pc \in {"lock", "select", "apply", "unlock", "complete"} =>
             \A v \in DOMAIN MigrationsOf(m) :
                 v < migrator[m].i => registry[v] = MigrationsOf(m)[v]
        /\ migrator[m].pc = "apply" =>
             migrator[m].i \in DOMAIN MigrationsOf(m) /\ registry[migrator[m].i] = 0
        /\ migrator[m].pc \in {"unlock", "complete"} =>
             \A v \in DOMAIN MigrationsOf(m) : v < migrator[m].i
        /\ migrator[m].cause # "collision"

PgInv == PgTypeOK /\ PgLockInv /\ PgRegistryInv /\ PgPassedInv

-----------------------------------------------------------------------------
\* The checksums of a release are those of versions.
LEMMA ReleaseLemma ==
    ASSUME NEW r \in DOMAIN Releases
    PROVE  /\ DOMAIN Releases[r] \subseteq Versions
           /\ \A v \in DOMAIN Releases[r] : Releases[r][v] \in Nat \ {0}
           /\ \A i \in Nat \ {0} : i \notin DOMAIN Releases[r] =>
                \A v \in DOMAIN Releases[r] : v < i
  <1>1. DOMAIN Releases[r] \subseteq Versions
    BY DEF Versions
  <1>2. Releases[r] \in Seq(Nat \ {0})
    BY ReleasesAreLists
  <1> QED  BY <1>1, <1>2

\* A migration that is not in the registry was not run.
LEMMA NotRunLemma ==
    ASSUME PgInv, NEW v \in Versions, registry[v] = 0
    PROVE  ~WasRun(v)
  <1> SUFFICES ASSUME NEW n \in DOMAIN schema, schema[n][1] = v PROVE FALSE
    BY DEF WasRun
  <1>1. schema[n] \in Versions \X (Nat \ {0})
    BY DEF PgInv, PgTypeOK
  <1>2. schema[n][2] # 0
    BY <1>1
  <1> QED  BY <1>2 DEF PgInv, PgRegistryInv

\* What the invariant says of process m when its locals are l.
LocalInv(m, l, lock) ==
    /\ l \in [pc : MigratorPc, release : DOMAIN Releases \cup {"none"},
              i : Nat \ {0}, cause : MigratorCause]
    /\ l.pc # "idle" => l.release \in DOMAIN Releases
    /\ l.pc \in {"select", "apply", "unlock", "unlockFailed"} => lock = m
    /\ l.pc \in {"lock", "select", "apply", "unlock", "complete"} =>
         \A v \in DOMAIN Releases[l.release] :
             v < l.i => registry[v] = Releases[l.release][v]
    /\ l.pc = "apply" => l.i \in DOMAIN Releases[l.release] /\ registry[l.i] = 0
    /\ l.pc \in {"unlock", "complete"} =>
         \A v \in DOMAIN Releases[l.release] : v < l.i
    /\ l.cause # "collision"

\* A step that assigns the locals of one process, and leaves the registry.
LEMMA MigratorStep ==
    ASSUME PgInv, NEW m \in Migrators, NEW l,
           migrator' = [migrator EXCEPT ![m] = l],
           UNCHANGED <<registry, schema>>,
           advisoryLock' \in Migrators \cup {NoMigrator},
           advisoryLock' = advisoryLock \/ advisoryLock \in {m, NoMigrator},
           LocalInv(m, l, advisoryLock')
    PROVE  PgInv'
  <1> USE DEF LocalInv
  <1>0. NoMigrator \notin Migrators
    BY ReleasesAreLists
  <1>1. \A q \in Migrators : migrator'[q] = IF q = m THEN l ELSE migrator[q]
    BY DEF PgInv, PgTypeOK
  <1>2. PgTypeOK'
    <2>1. migrator' \in [Migrators -> [pc : MigratorPc, release : DOMAIN Releases \cup {"none"},
                                       i : Nat \ {0}, cause : MigratorCause]]
      BY DEF PgInv, PgTypeOK
    <2>2. /\ registry' \in [Versions -> Nat]
          /\ schema' \in Seq(Versions \X (Nat \ {0}))
      BY DEF PgInv, PgTypeOK
    <2>3. \A q \in Migrators : migrator'[q].pc # "idle" => migrator'[q].release \in DOMAIN Releases
      BY <1>1 DEF PgInv, PgTypeOK
    <2> QED  BY <2>1, <2>2, <2>3 DEF PgTypeOK
  <1>3. PgLockInv'
    BY <1>0, <1>1 DEF PgInv, PgLockInv
  <1>4. PgRegistryInv'
    BY DEF PgInv, PgRegistryInv
  <1>5. PgPassedInv'
    BY <1>1 DEF PgInv, PgPassedInv, MigrationsOf
  <1> QED  BY <1>2, <1>3, <1>4, <1>5 DEF PgInv

\* A transaction that takes effect, whatever becomes of the process.
LEMMA CommitLemma ==
    ASSUME PgInv, NEW m \in Migrators, NEW l, Migrating(m, "apply"),
           schema' = Append(schema, Statement(m)),
           registry' = [registry EXCEPT ![migrator[m].i] = ChecksumOf(m)],
           migrator' = [migrator EXCEPT ![m] = l],
           \/ /\ l = [migrator[m] EXCEPT !.pc = "select", !.i = migrator[m].i + 1]
              /\ advisoryLock' = advisoryLock
           \/ /\ l = [migrator[m] EXCEPT !.pc = "failed", !.cause = "lost"]
              /\ advisoryLock' = IF advisoryLock = m THEN NoMigrator ELSE advisoryLock
    PROVE  PgInv'
  <1> DEFINE i == migrator[m].i
             c == ChecksumOf(m)
  <1>1. /\ advisoryLock = m /\ m # NoMigrator
        /\ migrator[m].release \in DOMAIN Releases
        /\ i \in DOMAIN MigrationsOf(m) /\ registry[i] = 0
        /\ i \in Nat \ {0} /\ i \in Versions
        /\ c \in Nat \ {0}
    <2>1. /\ advisoryLock = m
          /\ migrator[m].release \in DOMAIN Releases
          /\ i \in DOMAIN MigrationsOf(m) /\ registry[i] = 0
          /\ i \in Nat \ {0}
      BY DEF PgInv, PgTypeOK, PgLockInv, PgPassedInv, Migrating
    <2> QED  BY <2>1, ReleaseLemma, ReleasesAreLists DEF MigrationsOf, ChecksumOf
  <1>2. \A q \in Migrators \ {m} :
           /\ migrator'[q] = migrator[q]
           /\ migrator[q].pc \notin {"select", "apply", "unlock", "unlockFailed"}
    <2>1. \A q \in Migrators \ {m} : migrator'[q] = migrator[q]
      BY DEF PgInv, PgTypeOK
    <2> QED  BY <1>1, <2>1 DEF PgInv, PgLockInv
  <1>3. /\ migrator'[m] = l
        /\ l \in [pc : MigratorPc, release : DOMAIN Releases \cup {"none"},
                  i : Nat \ {0}, cause : MigratorCause]
        /\ l.release = migrator[m].release
        /\ l.cause # "collision"
        /\ \/ l.pc = "select" /\ l.i = i + 1 /\ advisoryLock' = m
           \/ l.pc = "failed"
    <2>1. migrator[m] \in [pc : MigratorPc, release : DOMAIN Releases \cup {"none"},
                           i : Nat \ {0}, cause : MigratorCause]
      BY DEF PgInv, PgTypeOK
    <2>2. migrator[m].cause # "collision"
      BY DEF PgInv, PgPassedInv
    <2>3. migrator'[m] = l
      BY DEF PgInv, PgTypeOK
    <2>4. CASE l = [migrator[m] EXCEPT !.pc = "select", !.i = migrator[m].i + 1]
               /\ advisoryLock' = advisoryLock
      <3> DEFINE R1 == [migrator[m] EXCEPT !.pc = "select"]
                 R2 == [R1 EXCEPT !.i = migrator[m].i + 1]
      <3>a. l = R2
        BY <2>4
      <3>b. R1 = [pc |-> "select", release |-> migrator[m].release, i |-> i,
                  cause |-> migrator[m].cause]
        BY <2>1
      <3> HIDE DEF R1
      <3>1. l = [pc |-> "select", release |-> migrator[m].release, i |-> i + 1,
                 cause |-> migrator[m].cause]
        BY <3>a, <3>b
      <3>2. l.release = migrator[m].release /\ l.cause = migrator[m].cause
            /\ l.pc = "select" /\ l.i = i + 1
        BY <3>1
      <3>3. l \in [pc : MigratorPc, release : DOMAIN Releases \cup {"none"},
                  i : Nat \ {0}, cause : MigratorCause]
        BY <1>1, <2>1, <3>1 DEF MigratorPc
      <3> HIDE DEF i
      <3> QED  BY <1>1, <2>2, <2>3, <2>4, <3>2, <3>3
    <2>5. CASE l = [migrator[m] EXCEPT !.pc = "failed", !.cause = "lost"]
      <3> DEFINE R1 == [migrator[m] EXCEPT !.pc = "failed"]
                 R2 == [R1 EXCEPT !.cause = "lost"]
      <3>a. l = R2
        BY <2>5
      <3>b. R1 = [pc |-> "failed", release |-> migrator[m].release, i |-> i,
                  cause |-> migrator[m].cause]
        BY <2>1
      <3> HIDE DEF R1
      <3>1. l = [pc |-> "failed", release |-> migrator[m].release, i |-> i,
                 cause |-> "lost"]
        BY <3>a, <3>b
      <3> QED  BY <1>1, <2>1, <2>2, <2>3, <3>1 DEF MigratorPc, MigratorCause
    <2> QED  BY <2>4, <2>5
  <1>4. /\ \A v \in Versions : registry'[v] = IF v = i THEN c ELSE registry[v]
        /\ registry' \in [Versions -> Nat]
    BY <1>1 DEF PgInv, PgTypeOK
  <1>5. /\ Len(schema) \in Nat
        /\ DOMAIN schema = 1..Len(schema)
        /\ DOMAIN schema' = 1..(Len(schema) + 1)
        /\ \A n \in DOMAIN schema : schema'[n] = schema[n] /\ schema[n][1] \in Versions
        /\ schema'[Len(schema) + 1] = <<i, c>>
        /\ schema' \in Seq(Versions \X (Nat \ {0}))
    <2>1. schema \in Seq(Versions \X (Nat \ {0})) /\ Statement(m) = <<i, c>>
      BY DEF PgInv, PgTypeOK, Statement
    <2>2. <<i, c>> \in Versions \X (Nat \ {0})
      BY <1>1
    <2>3. \A n \in DOMAIN schema : schema[n] \in Versions \X (Nat \ {0})
      BY <2>1
    <2>4. \A n \in DOMAIN schema : schema[n][1] \in Versions
      BY <2>3
    <2> QED  BY <2>1, <2>2, <2>4
  <1>6. \A n \in DOMAIN schema : schema[n][1] # i
    BY <1>1, NotRunLemma DEF WasRun
  <1>7. PgRegistryInv'
    <2>1. \A n \in DOMAIN schema' : registry'[schema'[n][1]] = schema'[n][2]
      BY <1>1, <1>4, <1>5, <1>6 DEF PgInv, PgRegistryInv
    <2>2. \A n, k \in DOMAIN schema' : schema'[n][1] = schema'[k][1] => n = k
      BY <1>5, <1>6 DEF PgInv, PgRegistryInv
    <2>3. \A v \in Versions : registry'[v] # 0 => \E n \in DOMAIN schema' : schema'[n][1] = v
      <3> SUFFICES ASSUME NEW v \in Versions, registry'[v] # 0
                   PROVE  \E n \in DOMAIN schema' : schema'[n][1] = v
        OBVIOUS
      <3>1. CASE v = i
        BY <1>5, <3>1
      <3>2. CASE v # i
        <4>1. PICK n \in DOMAIN schema : schema[n][1] = v
          BY <1>4, <3>2 DEF PgInv, PgRegistryInv
        <4> QED  BY <1>5, <4>1
      <3> QED  BY <3>1, <3>2
    <2> QED  BY <2>1, <2>2, <2>3 DEF PgRegistryInv
  <1>8. PgPassedInv'
    <2> SUFFICES ASSUME NEW q \in Migrators
                 PROVE  /\ migrator'[q].pc \in {"lock", "select", "apply", "unlock", "complete"} =>
                             \A v \in DOMAIN MigrationsOf(q)' :
                                 v < migrator'[q].i => registry'[v] = MigrationsOf(q)'[v]
                        /\ migrator'[q].pc = "apply" =>
                             migrator'[q].i \in DOMAIN MigrationsOf(q)' /\ registry'[migrator'[q].i] = 0
                        /\ migrator'[q].pc \in {"unlock", "complete"} =>
                             \A v \in DOMAIN MigrationsOf(q)' : v < migrator'[q].i
                        /\ migrator'[q].cause # "collision"
      BY DEF PgPassedInv
    <2>1. CASE q = m
      <3>1. MigrationsOf(m)' = MigrationsOf(m)
        BY <1>3 DEF MigrationsOf
      <3>2. \A v \in DOMAIN MigrationsOf(m) : v < i + 1 => registry'[v] = MigrationsOf(m)[v]
        <4> SUFFICES ASSUME NEW v \in DOMAIN MigrationsOf(m), v < i + 1
                     PROVE  registry'[v] = MigrationsOf(m)[v]
          OBVIOUS
        <4>1. v \in Versions /\ v \in Nat
          BY <1>1, ReleaseLemma, ReleasesAreLists DEF MigrationsOf
        <4>2. CASE v = i
          BY <1>4, <4>1, <4>2 DEF ChecksumOf
        <4>3. CASE v < i
          BY <1>1, <1>4, <4>1, <4>3 DEF PgInv, PgPassedInv, Migrating
        <4> QED  BY <1>1, <4>1, <4>2, <4>3
      <3> QED  BY <1>3, <2>1, <3>1, <3>2
    <2>2. CASE q # m
      <3>1. migrator'[q] = migrator[q] /\ MigrationsOf(q)' = MigrationsOf(q)
        BY <1>2, <2>2 DEF MigrationsOf
      <3>2. migrator[q].pc \in {"lock", "complete"} =>
              \A v \in DOMAIN MigrationsOf(q) :
                v < migrator[q].i => registry'[v] = MigrationsOf(q)[v]
        <4> SUFFICES ASSUME migrator[q].pc \in {"lock", "complete"}, NEW v \in DOMAIN MigrationsOf(q),
                            v < migrator[q].i
                     PROVE  registry'[v] = MigrationsOf(q)[v]
          OBVIOUS
        <4>1. migrator[q].release \in DOMAIN Releases
          BY DEF PgInv, PgTypeOK
        <4>2. v \in Versions /\ MigrationsOf(q)[v] # 0
          BY <4>1, ReleaseLemma DEF MigrationsOf
        <4>3. registry[v] = MigrationsOf(q)[v]
          BY DEF PgInv, PgPassedInv
        <4> QED  BY <1>1, <1>4, <4>2, <4>3
      <3> QED  BY <1>2, <2>2, <3>1, <3>2 DEF PgInv, PgPassedInv
    <2> QED  BY <2>1, <2>2
  <1>9. PgTypeOK'
    <2>1. migrator' \in [Migrators -> [pc : MigratorPc, release : DOMAIN Releases \cup {"none"},
                                       i : Nat \ {0}, cause : MigratorCause]]
      BY <1>3 DEF PgInv, PgTypeOK
    <2>2. advisoryLock' \in Migrators \cup {NoMigrator}
      BY DEF PgInv, PgTypeOK
    <2>3. \A q \in Migrators : migrator'[q].pc # "idle" => migrator'[q].release \in DOMAIN Releases
      BY <1>1, <1>2, <1>3 DEF PgInv, PgTypeOK
    <2> QED  BY <1>4, <1>5, <2>1, <2>2, <2>3 DEF PgTypeOK
  <1>10. PgLockInv'
    BY <1>1, <1>2, <1>3 DEF PgLockInv
  <1> QED  BY <1>7, <1>8, <1>9, <1>10 DEF PgInv

\* Every step of a migrator keeps the invariant.
LEMMA PgStep ==
    ASSUME PgInv, [PgNext]_pgVars
    PROVE  PgInv'
  <1> DEFINE Local == [pc : MigratorPc, release : DOMAIN Releases \cup {"none"},
                       i : Nat \ {0}, cause : MigratorCause]
  <1>l. ASSUME NEW m \in Migrators
        PROVE  /\ migrator[m] \in Local
               /\ migrator[m].pc # "idle" => migrator[m].release \in DOMAIN Releases
               /\ migrator[m].pc \in {"select", "apply", "unlock", "unlockFailed"}
                    => advisoryLock = m
               /\ migrator[m].cause # "collision"
               /\ advisoryLock \in Migrators \cup {NoMigrator}
    BY DEF PgInv, PgTypeOK, PgLockInv, PgPassedInv
  <1>p. ASSUME NEW m \in Migrators, NEW l, NEW point \in MigratorPc,
               l = [migrator[m] EXCEPT !.pc = point]
        PROVE  /\ l = [pc |-> point, release |-> migrator[m].release,
                       i |-> migrator[m].i, cause |-> migrator[m].cause]
               /\ l \in Local
    BY <1>l, <1>p
  <1>q. ASSUME NEW m \in Migrators, NEW point \in MigratorPc, NEW cause \in MigratorCause,
               NEW l, l = [migrator[m] EXCEPT !.pc = point, !.cause = cause]
        PROVE  /\ l = [pc |-> point, release |-> migrator[m].release,
                       i |-> migrator[m].i, cause |-> cause]
               /\ l \in Local
    <2> DEFINE R1 == [migrator[m] EXCEPT !.pc = point]
               R2 == [R1 EXCEPT !.cause = cause]
    <2>1. l = R2
      BY <1>q
    <2>2. R1 = [pc |-> point, release |-> migrator[m].release,
                i |-> migrator[m].i, cause |-> migrator[m].cause]
      BY <1>l
    <2> HIDE DEF R1
    <2>3. R2 = [pc |-> point, release |-> migrator[m].release,
                i |-> migrator[m].i, cause |-> cause]
      BY <2>2
    <2> QED  BY <1>l, <2>1, <2>3
  <1>1. ASSUME NEW m \in Migrators, NEW r \in DOMAIN Releases, StartMigrator(m, r)
        PROVE  PgInv'
    <2> DEFINE l == [pc |-> "lock", release |-> r, i |-> 1, cause |-> "none"]
    <2> DEFINE R1 == [IdleMigrator EXCEPT !.pc = "lock"]
    <2>a. [IdleMigrator EXCEPT !.pc = "lock", !.release = r] = [R1 EXCEPT !.release = r]
      OBVIOUS
    <2>b. R1 = [pc |-> "lock", release |-> "none", i |-> 1, cause |-> "none"]
      BY DEF IdleMigrator
    <2> HIDE DEF R1
    <2>c. [R1 EXCEPT !.release = r] = l
      BY <2>b
    <2>1. [IdleMigrator EXCEPT !.pc = "lock", !.release = r] = l
      BY <2>a, <2>c
    <2>d. l \in Local
      BY DEF MigratorPc, MigratorCause
    <2>2. migrator' = [migrator EXCEPT ![m] = l]
      BY <1>1, <2>1 DEF StartMigrator
    <2>3. \A v \in DOMAIN Releases[r] : ~(v < 1)
      BY ReleasesAreLists
    <2>4. l.pc = "lock" /\ l.release = r /\ l.i = 1 /\ l.cause = "none"
      OBVIOUS
    <2>8. LocalInv(m, l, advisoryLock')
      BY <1>1, <1>l, <2>2, <2>d, <2>3, <2>4
         DEF StartMigrator, LocalInv
    <2> HIDE DEF l
    <2> QED
      BY <1>1, <1>l, <2>2, <2>3, <2>4, MigratorStep, <2>8 DEF StartMigrator
  <1>2. ASSUME NEW m \in Migrators, AcquireLock(m) PROVE PgInv'
    <2> DEFINE l == [migrator[m] EXCEPT !.pc = "select"]
    <2>1. l = [pc |-> "select", release |-> migrator[m].release,
               i |-> migrator[m].i, cause |-> migrator[m].cause]
          /\ l \in Local
      BY <1>p DEF MigratorPc
    <2>2. \A v \in DOMAIN MigrationsOf(m) :
             v < migrator[m].i => registry[v] = MigrationsOf(m)[v]
      BY <1>2 DEF AcquireLock, Migrating, PgInv, PgPassedInv
    <2>7. migrator' = [migrator EXCEPT ![m] = l]
      BY <1>2 DEF AcquireLock, MigratorTo
    <2>8. LocalInv(m, l, advisoryLock')
      BY <1>2, <1>l, <2>1, <2>2, ReleasesAreLists
         DEF AcquireLock, MigratorTo, Migrating, MigrationsOf, LocalInv
    <2> HIDE DEF l
    <2> QED
      BY <1>2, <1>l, <2>7, MigratorStep, <2>8 DEF AcquireLock
  <1>3. ASSUME NEW m \in Migrators, SelectChecksum(m) PROVE PgInv'
    <2>1. /\ migrator[m].pc = "select" /\ migrator[m].release \in DOMAIN Releases
          /\ migrator[m].i \in DOMAIN MigrationsOf(m)
          /\ advisoryLock = m
          /\ \A v \in DOMAIN MigrationsOf(m) :
               v < migrator[m].i => registry[v] = MigrationsOf(m)[v]
      BY <1>3, <1>l DEF SelectChecksum, Migrating, PgInv, PgPassedInv
    <2>2. CASE registry[migrator[m].i] = ChecksumOf(m)
               /\ migrator' = [migrator EXCEPT ![m].i = migrator[m].i + 1]
      <3> DEFINE l == [migrator[m] EXCEPT !.i = migrator[m].i + 1]
      <3>1. l = [pc |-> "select", release |-> migrator[m].release,
                 i |-> migrator[m].i + 1, cause |-> migrator[m].cause]
            /\ l \in Local
        BY <1>l, <2>1
      <3>2. migrator' = [migrator EXCEPT ![m] = l]
        BY <2>2
      <3>3. \A v \in DOMAIN MigrationsOf(m) :
               v < migrator[m].i + 1 => registry[v] = MigrationsOf(m)[v]
        <4>1. DOMAIN MigrationsOf(m) \subseteq Nat
          BY <2>1, ReleasesAreLists DEF MigrationsOf
        <4> QED  BY <1>l, <2>1, <2>2, <4>1 DEF ChecksumOf
      <3>8. LocalInv(m, l, advisoryLock')
        BY <1>3, <1>l, <2>1, <3>1, <3>2, <3>3
           DEF SelectChecksum, MigrationsOf, LocalInv
      <3> HIDE DEF l
      <3> QED
        BY <1>3, <1>l, <2>1, <3>1, <3>2, <3>3, MigratorStep, <3>8 DEF SelectChecksum
    <2>3. CASE Throw(m, "checksum")
      <3> DEFINE l == [migrator[m] EXCEPT !.pc = "unlockFailed", !.cause = "checksum"]
      <3>1. l = [pc |-> "unlockFailed", release |-> migrator[m].release,
                 i |-> migrator[m].i, cause |-> "checksum"]
            /\ l \in Local
        BY <1>q DEF MigratorPc, MigratorCause
      <3>2. migrator' = [migrator EXCEPT ![m] = l]
        BY <2>3 DEF Throw
      <3>8. LocalInv(m, l, advisoryLock')
        BY <1>3, <1>l, <2>1, <3>1, <3>2
           DEF SelectChecksum, LocalInv
      <3> HIDE DEF l
      <3> QED
        BY <1>3, <1>l, <2>1, <3>1, <3>2, MigratorStep, <3>8 DEF SelectChecksum
    <2>4. CASE registry[migrator[m].i] = 0 /\ MigratorTo(m, "apply")
      <3> DEFINE l == [migrator[m] EXCEPT !.pc = "apply"]
      <3>1. l = [pc |-> "apply", release |-> migrator[m].release,
                 i |-> migrator[m].i, cause |-> migrator[m].cause]
            /\ l \in Local
        BY <1>p DEF MigratorPc
      <3>2. migrator' = [migrator EXCEPT ![m] = l]
        BY <2>4 DEF MigratorTo
      <3>8. LocalInv(m, l, advisoryLock')
        BY <1>3, <1>l, <2>1, <2>4, <3>1, <3>2
           DEF SelectChecksum, MigrationsOf, LocalInv
      <3> HIDE DEF l
      <3> QED
        BY <1>3, <1>l, <2>1, <2>4, <3>1, <3>2, MigratorStep, <3>8 DEF SelectChecksum
    <2> QED  BY <1>3, <2>2, <2>3, <2>4 DEF SelectChecksum
  <1>4. ASSUME NEW m \in Migrators, AllSelected(m) PROVE PgInv'
    <2>1. /\ migrator[m].pc = "select" /\ migrator[m].release \in DOMAIN Releases
          /\ migrator[m].i \notin DOMAIN MigrationsOf(m)
          /\ advisoryLock = m
          /\ \A v \in DOMAIN MigrationsOf(m) :
               v < migrator[m].i => registry[v] = MigrationsOf(m)[v]
      BY <1>4, <1>l DEF AllSelected, Migrating, PgInv, PgPassedInv
    <2>2. \A v \in DOMAIN MigrationsOf(m) : v < migrator[m].i
      BY <1>l, <2>1, ReleaseLemma DEF MigrationsOf
    <2> DEFINE l == [migrator[m] EXCEPT !.pc = "unlock"]
    <2>3. l = [pc |-> "unlock", release |-> migrator[m].release,
               i |-> migrator[m].i, cause |-> migrator[m].cause]
          /\ l \in Local
      BY <1>p DEF MigratorPc
    <2>4. migrator' = [migrator EXCEPT ![m] = l]
      BY <1>4 DEF AllSelected, MigratorTo
    <2>8. LocalInv(m, l, advisoryLock')
      BY <1>4, <1>l, <2>1, <2>2, <2>3, <2>4
         DEF AllSelected, MigrationsOf, LocalInv
    <2> HIDE DEF l
    <2> QED
      BY <1>4, <1>l, <2>1, <2>2, <2>3, <2>4, MigratorStep, <2>8 DEF AllSelected
  <1>5. ASSUME NEW m \in Migrators, ApplyMigration(m) PROVE PgInv'
    <2> DEFINE l == [migrator[m] EXCEPT !.pc = "select", !.i = migrator[m].i + 1]
    <2>1. migrator' = [migrator EXCEPT ![m] = l]
      BY <1>5 DEF ApplyMigration
    <2> QED  BY <1>5, <2>1, CommitLemma DEF ApplyMigration
  <1>6. ASSUME NEW m \in Migrators, MigrationFails(m) PROVE PgInv'
    <2>1. /\ migrator[m].pc = "apply" /\ migrator[m].release \in DOMAIN Releases
          /\ migrator[m].i \in DOMAIN MigrationsOf(m)
          /\ registry[migrator[m].i] = 0
          /\ advisoryLock = m
      BY <1>6, <1>l DEF MigrationFails, Migrating, PgInv, PgPassedInv
    <2>2. ~WasRun(migrator[m].i)
      BY <2>1, ReleaseLemma, NotRunLemma DEF MigrationsOf
    <2> DEFINE l == [migrator[m] EXCEPT !.pc = "unlockFailed", !.cause = "database"]
    <2>3. l = [pc |-> "unlockFailed", release |-> migrator[m].release,
               i |-> migrator[m].i, cause |-> "database"]
          /\ l \in Local
      BY <1>q DEF MigratorPc, MigratorCause
    <2>4. migrator' = [migrator EXCEPT ![m] = l]
      BY <1>6, <2>1, <2>2 DEF MigrationFails, Throw
    <2>8. LocalInv(m, l, advisoryLock')
      BY <1>6, <1>l, <2>1, <2>3, <2>4
         DEF MigrationFails, LocalInv
    <2> HIDE DEF l
    <2> QED
      BY <1>6, <1>l, <2>1, <2>3, <2>4, MigratorStep, <2>8 DEF MigrationFails
  <1>7. ASSUME NEW m \in Migrators, Unlock(m) PROVE PgInv'
    <2>1. PICK point \in {"complete", "failed"} :
            /\ MigratorTo(m, point)
            /\ point = "complete" => migrator[m].pc = "unlock"
      BY <1>7 DEF Unlock, Migrating
    <2> DEFINE l == [migrator[m] EXCEPT !.pc = point]
    <2>2. l = [pc |-> point, release |-> migrator[m].release,
               i |-> migrator[m].i, cause |-> migrator[m].cause]
          /\ l \in Local
      BY <1>p, <2>1 DEF MigratorPc
    <2>3. migrator' = [migrator EXCEPT ![m] = l]
      BY <2>1 DEF MigratorTo
    <2>4. migrator[m].pc = "unlock" =>
            /\ \A v \in DOMAIN MigrationsOf(m) : v < migrator[m].i
            /\ \A v \in DOMAIN MigrationsOf(m) :
                 v < migrator[m].i => registry[v] = MigrationsOf(m)[v]
      BY DEF PgInv, PgPassedInv
    <2>5. migrator[m].release \in DOMAIN Releases
      BY <1>7, <1>l DEF Unlock
    <2>8. LocalInv(m, l, advisoryLock')
      BY <1>7, <1>l, <2>1, <2>2, <2>3, <2>4, <2>5, ReleasesAreLists
         DEF Unlock, MigrationsOf, LocalInv
    <2> HIDE DEF l
    <2> QED
      BY <1>7, <1>l, <2>1, <2>2, <2>3, <2>4, <2>5, MigratorStep, ReleasesAreLists, <2>8 DEF Unlock
  <1>8. ASSUME NEW m \in Migrators, LoseSession(m) PROVE PgInv'
    <2> DEFINE l == [migrator[m] EXCEPT !.pc = "failed", !.cause = "lost"]
    <2>1. migrator' = [migrator EXCEPT ![m] = l]
          /\ advisoryLock' = IF advisoryLock = m THEN NoMigrator ELSE advisoryLock
      BY <1>8 DEF LoseSession
    <2>2. CASE UNCHANGED <<registry, schema>>
      <3>1. migrator[m].release \in DOMAIN Releases
        BY <1>8, <1>l DEF LoseSession
      <3>2. l = [pc |-> "failed", release |-> migrator[m].release,
                 i |-> migrator[m].i, cause |-> "lost"]
            /\ l \in Local
        BY <1>q DEF MigratorPc, MigratorCause
      <3>8. LocalInv(m, l, advisoryLock')
        BY <1>l, <2>1, <2>2, <3>1, <3>2, ReleasesAreLists
           DEF LocalInv
      <3> HIDE DEF l
      <3> QED
        BY <1>l, <2>1, <2>2, <3>1, <3>2, MigratorStep, ReleasesAreLists, <3>8
    <2>3. CASE /\ Migrating(m, "apply")
               /\ schema' = Append(schema, Statement(m))
               /\ registry' = [registry EXCEPT ![migrator[m].i] = ChecksumOf(m)]
      BY <2>1, <2>3, CommitLemma
    <2> QED  BY <1>8, <2>2, <2>3 DEF LoseSession
  <1>9. ASSUME NEW m \in Migrators, RestartMigrator(m) PROVE PgInv'
    <2>1. IdleMigrator \in Local
      BY DEF IdleMigrator, MigratorPc, MigratorCause
    <2>2. LocalInv(m, IdleMigrator, advisoryLock')
      BY <2>1 DEF LocalInv, IdleMigrator
    <2> HIDE DEF Local
    <2> QED  BY <1>9, <1>l, <2>2, MigratorStep DEF RestartMigrator
  <1>10. CASE UNCHANGED pgVars
    BY <1>10 DEF pgVars, PgInv, PgTypeOK, PgLockInv, PgRegistryInv, PgPassedInv, MigrationsOf
  <1> QED
    BY <1>1, <1>2, <1>3, <1>4, <1>5, <1>6, <1>7, <1>8, <1>9, <1>10 DEF PgNext

\* Every reachable state of the migration jobs satisfies the invariant: one
\* process is between the lock and its release, and the registry tells exactly
\* what is in the schema (migratePostgres of postgres-migrations.ts).
THEOREM PgInvariant == PgSpec => []PgInv
  <1>1. PgInit => PgInv
    <2> SUFFICES ASSUME PgInit PROVE PgInv
      OBVIOUS
    <2>1. IdleMigrator \in [pc : MigratorPc, release : DOMAIN Releases \cup {"none"},
                            i : Nat \ {0}, cause : MigratorCause]
      BY DEF IdleMigrator, MigratorPc, MigratorCause
    <2>2. \A m \in Migrators : migrator[m].pc = "idle" /\ migrator[m].cause = "none"
      BY DEF PgInit, IdleMigrator
    <2>3. schema = <<>> /\ DOMAIN schema = {}
      BY DEF PgInit
    <2>4. schema \in Seq(Versions \X (Nat \ {0}))
      BY <2>3
    <2>5. PgTypeOK
      BY <2>1, <2>2, <2>4 DEF PgInit, PgTypeOK
    <2>6. PgLockInv /\ PgRegistryInv /\ PgPassedInv
      BY <2>2, <2>3 DEF PgInit, PgLockInv, PgRegistryInv, PgPassedInv
    <2> QED  BY <2>5, <2>6 DEF PgInv
  <1>2. PgInv /\ [PgNext]_pgVars => PgInv'
    BY PgStep
  <1> QED  BY <1>1, <1>2, PTL DEF PgSpec

\* No migration job fails because another runs at the same time, and one that
\* reports completion leaves each of its migrations in the schema once, for any
\* number of processes, any releases and any loss of sessions.
THEOREM MigrationJobsDoNotCollideHolds == PgSpec => []MigrationJobsDoNotCollide
  <1>1. PgInv => MigrationJobsDoNotCollide
    <2> SUFFICES ASSUME PgInv PROVE MigrationJobsDoNotCollide
      OBVIOUS
    <2>1. \A m \in Migrators : migrator[m].cause # "collision"
      BY DEF PgInv, PgPassedInv
    <2>2. ASSUME NEW m \in Migrators, Migrating(m, "complete"),
                 NEW v \in DOMAIN MigrationsOf(m)
          PROVE  \E n \in DOMAIN schema :
                  /\ schema[n] = <<v, MigrationsOf(m)[v]>>
                  /\ \A k \in DOMAIN schema : schema[k][1] = v => k = n
      <3>1. /\ migrator[m].release \in DOMAIN Releases
            /\ registry[v] = MigrationsOf(m)[v]
        BY <2>2 DEF Migrating, PgInv, PgTypeOK, PgPassedInv
      <3>2. v \in Versions /\ registry[v] # 0
        BY <2>2, <3>1, ReleaseLemma DEF MigrationsOf
      <3>3. PICK n \in DOMAIN schema : schema[n][1] = v
        BY <3>2 DEF PgInv, PgRegistryInv
      <3>4. /\ schema[n][2] = MigrationsOf(m)[v]
            /\ \A k \in DOMAIN schema : schema[k][1] = v => k = n
        BY <3>1, <3>3 DEF PgInv, PgRegistryInv
      <3>5. schema[n] \in Versions \X (Nat \ {0})
        BY DEF PgInv, PgTypeOK
      <3> QED  BY <3>3, <3>4, <3>5
    <2> QED  BY <2>1, <2>2 DEF MigrationJobsDoNotCollide
  <1> QED  BY <1>1, PgInvariant, PTL
-----------------------------------------------------------------------------
(* The Cloudflare runtime, for any payloads, overlapping sweeps, retries    *)
(* and page size, as long as an orphan is kept for more than two            *)
(* invocations.                                                             *)

MailboxStatus == {"none", "queued", "sending", "expired", "sent", "failed"}

MailboxType == [status : MailboxStatus, attempts : Nat,
                item : {"none", "pending", "dispatched"}]

JobType == [key : Payloads, tries : Nat, queue : {"primary", "dead"}]

SweepType == [step : {"idle", "list", "delete"}, since : Nat,
              referenced : SUBSET Payloads, doomed : SUBSET Payloads]

\* The bucket, the records, the messages and the locals of the sweeps keep
\* their types.
WkTypeOK ==
    /\ hour \in Nat
    /\ object \in [Payloads -> [there : BOOLEAN, since : Nat]]
    /\ posting \in [Payloads -> {"idle", "put", "done"}]
    /\ mailbox \in [Payloads -> MailboxType]
    /\ jobs \subseteq JobType
    /\ sweep \in [Sweepers -> SweepType]
    /\ dropped \subseteq Payloads

\* A payload is there while its intake runs, and the intake is short; one
\* whose records were committed is there too.
IntakeInv ==
    \A k \in Payloads :
        /\ posting[k] = "idle" => ~object[k].there
        /\ posting[k] = "put" => object[k].there /\ hour <= object[k].since + InvocationTime
        /\ mailbox[k].status # "none" => object[k].there /\ posting[k] = "done"

\* A sweep is short; what it found without reference was committed, if at all,
\* since then by a recent intake; and what it will delete has no intake left.
SweepInv ==
    \A s \in Sweepers : sweep[s].step # "idle" =>
        /\ sweep[s].since <= hour /\ hour <= sweep[s].since + InvocationTime
        /\ \A k \in Payloads \ sweep[s].referenced :
             mailbox[k].status # "none" => sweep[s].since <= object[k].since + InvocationTime
        /\ sweep[s].step = "delete" =>
             \A k \in sweep[s].doomed : posting[k] = "done" /\ mailbox[k].status = "none"

\* A queued e-mail has an item or a message, unless its job was dropped.
MessageInv ==
    \A k \in Payloads :
        mailbox[k].status = "queued" /\ k \notin dropped =>
            mailbox[k].item = "pending" \/ \E m \in jobs : m.key = k

WkInv == WkTypeOK /\ IntakeInv /\ SweepInv /\ MessageInv

-----------------------------------------------------------------------------
\* A retry of a message keeps its key, and every other message.
LEMMA RetriedLemma ==
    ASSUME jobs \subseteq JobType, NEW m \in jobs
    PROVE  /\ Retried(m) \subseteq JobType
           /\ \A k \in Payloads : (\E j \in jobs : j.key = k) => \E j \in Retried(m) : j.key = k
  <1> DEFINE again == IF m.tries <= QueueRetries THEN [m EXCEPT !.tries = m.tries + 1]
                      ELSE Job(m.key, 1, "dead")
  <1>1. m \in JobType
    OBVIOUS
  <1>2. again \in JobType /\ again.key = m.key
    BY <1>1 DEF JobType, Job
  <1>3. Retried(m) = (jobs \ {m}) \cup {again}
    BY DEF Retried
  <1> HIDE DEF again
  <1> QED  BY <1>2, <1>3

\* A step that leaves the bucket, the intakes and the sweeps alone, and changes
\* one e-mail or its messages.
LEMMA MailboxStep ==
    ASSUME WkInv, NEW k \in Payloads,
           UNCHANGED <<hour, object, posting, sweep>>,
           mailbox' \in [Payloads -> MailboxType],
           \A j \in Payloads \ {k} : mailbox'[j] = mailbox[j],
           mailbox'[k].status = "none" <=> mailbox[k].status = "none",
           jobs' \subseteq JobType, dropped' \subseteq Payloads, dropped \subseteq dropped',
           \A j \in Payloads \ {k} :
               (\E m \in jobs : m.key = j) => (\E m \in jobs' : m.key = j),
           mailbox'[k].status = "queued" /\ k \notin dropped' =>
               mailbox'[k].item = "pending" \/ \E m \in jobs' : m.key = k
    PROVE  WkInv'
  <1>0. \A j \in Payloads : mailbox'[j].status = "none" <=> mailbox[j].status = "none"
    OBVIOUS
  <1>1. WkTypeOK'
    BY DEF WkInv, WkTypeOK
  <1>2. IntakeInv'
    BY <1>0 DEF WkInv, IntakeInv
  <1>3. SweepInv'
    <2>1. \A s \in Sweepers : sweep[s].doomed \subseteq Payloads
      BY DEF WkInv, WkTypeOK, SweepType
    <2> QED  BY <1>0, <2>1 DEF WkInv, SweepInv
  <1>4. MessageInv'
    BY DEF WkInv, MessageInv
  <1> QED  BY <1>1, <1>2, <1>3, <1>4 DEF WkInv

\* Every step of the runtime keeps the invariant.
LEMMA WkStep ==
    ASSUME WkInv, [WkNext]_wkVars
    PROVE  WkInv'
  <1> USE WorkerAssumption
  <1>m. \A k \in Payloads : mailbox[k] \in MailboxType
    BY DEF WkInv, WkTypeOK
  <1>j. \A m \in jobs : m \in JobType /\ m.key \in Payloads /\ m.tries \in Nat
    BY DEF WkInv, WkTypeOK, JobType
  <1>s. \A s \in Sweepers : sweep[s] \in SweepType /\ sweep[s].doomed \subseteq Payloads
                            /\ sweep[s].since \in Nat
    BY DEF WkInv, WkTypeOK, SweepType
  <1>o. hour \in Nat /\ \A k \in Payloads : object[k].since \in Nat
    BY DEF WkInv, WkTypeOK
  <1>1. CASE HourPasses
    <2>1. WkTypeOK'
      BY <1>1 DEF HourPasses, WkInv, WkTypeOK
    <2>2. IntakeInv'
      BY <1>1, <1>o DEF HourPasses, WkInv, IntakeInv
    <2>3. SweepInv'
      BY <1>1, <1>o, <1>s DEF HourPasses, WkInv, SweepInv
    <2>4. MessageInv'
      BY <1>1 DEF HourPasses, WkInv, MessageInv
    <2> QED  BY <2>1, <2>2, <2>3, <2>4 DEF WkInv
  <1>2. ASSUME NEW k \in Payloads, PutPayload(k) PROVE WkInv'
    <2>1. WkTypeOK'
      BY <1>2 DEF PutPayload, WkInv, WkTypeOK
    <2>2. mailbox[k].status = "none"
      BY <1>2 DEF PutPayload, WkInv, IntakeInv
    <2>3. /\ \A j \in Payloads \ {k} : object'[j] = object[j] /\ posting'[j] = posting[j]
          /\ object'[k].there /\ object'[k].since = hour /\ posting'[k] = "put"
      BY <1>2 DEF PutPayload, WkInv, WkTypeOK
    <2>4. IntakeInv'
      BY <1>2, <1>o, <2>2, <2>3 DEF PutPayload, WkInv, IntakeInv
    <2>5. SweepInv'
      <3>1. \A s \in Sweepers : sweep[s].step = "delete" => k \notin sweep[s].doomed
        BY <1>2 DEF PutPayload, WkInv, SweepInv
      <3> QED  BY <1>2, <1>s, <2>2, <2>3, <3>1 DEF PutPayload, WkInv, SweepInv
    <2>6. MessageInv'
      BY <1>2 DEF PutPayload, WkInv, MessageInv
    <2> QED  BY <2>1, <2>4, <2>5, <2>6 DEF WkInv
  <1>3. ASSUME NEW k \in Payloads, CommitRecords(k) PROVE WkInv'
    <2>1. WkTypeOK'
      BY <1>3 DEF CommitRecords, WkInv, WkTypeOK, MailboxType, MailboxStatus
    <2>2. /\ \A j \in Payloads \ {k} : mailbox'[j] = mailbox[j] /\ posting'[j] = posting[j]
          /\ mailbox'[k].item = "pending" /\ posting'[k] = "done"
          /\ object[k].there /\ hour <= object[k].since + InvocationTime
      BY <1>3 DEF CommitRecords, WkInv, WkTypeOK, IntakeInv
    <2>3. IntakeInv'
      BY <1>3, <2>2 DEF CommitRecords, WkInv, IntakeInv
    <2>4. SweepInv'
      <3>1. \A s \in Sweepers : sweep[s].step = "delete" => k \notin sweep[s].doomed
        BY <1>3 DEF CommitRecords, WkInv, SweepInv
      <3>2. \A s \in Sweepers : sweep[s].step # "idle" =>
               sweep[s].since <= object[k].since + InvocationTime
        BY <1>o, <1>s, <2>2 DEF WkInv, SweepInv
      <3> QED  BY <1>3, <1>s, <2>2, <3>1, <3>2 DEF CommitRecords, WkInv, SweepInv
    <2>5. MessageInv'
      BY <1>3, <2>2 DEF CommitRecords, WkInv, MessageInv
    <2> QED  BY <2>1, <2>3, <2>4, <2>5 DEF WkInv
  <1>4. ASSUME NEW k \in Payloads, CommitFails(k) PROVE WkInv'
    <2>1. WkTypeOK'
      BY <1>4 DEF CommitFails, WkInv, WkTypeOK
    <2>2. \A j \in Payloads : /\ posting'[j] # posting[j] => posting'[j] = "done"
                              /\ posting'[j] \in {"idle", "put"} => posting[j] = posting'[j]
      BY <1>4 DEF CommitFails, WkInv, WkTypeOK
    <2>3. IntakeInv'
      BY <1>4, <2>1, <2>2 DEF CommitFails, WkInv, IntakeInv
    <2>4. SweepInv'
      BY <1>4, <1>s, <2>2 DEF CommitFails, WkInv, SweepInv
    <2>5. MessageInv'
      BY <1>4 DEF CommitFails, WkInv, MessageInv
    <2> QED  BY <2>1, <2>3, <2>4, <2>5 DEF WkInv
  <1>5. ASSUME NEW k \in Payloads, NEW lost \in BOOLEAN, PublishJob(k, lost) PROVE WkInv'
    <2>1. Job(k, 1, "primary") \in JobType /\ Job(k, 1, "primary").key = k
      BY DEF Job, JobType
    <2>2. jobs' = jobs \cup {Job(k, 1, "primary")}
      BY <1>5 DEF PublishJob
    <2>3. \/ mailbox' = mailbox
          \/ mailbox' = [mailbox EXCEPT ![k].item = "dispatched"]
      BY <1>5 DEF PublishJob
    <2>4. /\ mailbox' \in [Payloads -> MailboxType]
          /\ \A j \in Payloads \ {k} : mailbox'[j] = mailbox[j]
          /\ mailbox'[k].status = mailbox[k].status
      <3>1. mailbox \in [Payloads -> MailboxType]
        BY DEF WkInv, WkTypeOK
      <3>2. CASE mailbox' = mailbox
        BY <3>1, <3>2
      <3>3. CASE mailbox' = [mailbox EXCEPT ![k].item = "dispatched"]
        <4> DEFINE box == [mailbox[k] EXCEPT !.item = "dispatched"]
        <4>1. mailbox' = [mailbox EXCEPT ![k] = box]
          BY <3>3
        <4>2. box \in MailboxType /\ box.status = mailbox[k].status
          BY <1>m DEF MailboxType
        <4> HIDE DEF box
        <4> QED  BY <3>1, <4>1, <4>2
      <3> QED  BY <2>3, <3>2, <3>3
    <2> HIDE DEF WkInv
    <2>5. jobs' \subseteq JobType /\ \E m \in jobs' : m.key = k
      BY <2>1, <2>2 DEF WkInv, WkTypeOK
    <2>6. \A j \in Payloads \ {k} :
               (\E m \in jobs : m.key = j) => (\E m \in jobs' : m.key = j)
      BY <2>2
    <2>7. dropped \subseteq Payloads
      BY DEF WkInv, WkTypeOK
    <2> QED  BY <1>5, <2>4, <2>5, <2>6, <2>7, MailboxStep DEF PublishJob
  <1>6. ASSUME NEW k \in Payloads, LeaseExpires(k) PROVE WkInv'
    <2>1. /\ mailbox' \in [Payloads -> MailboxType]
          /\ \A j \in Payloads \ {k} : mailbox'[j] = mailbox[j]
          /\ mailbox'[k].status = "expired" /\ mailbox[k].status = "sending"
      BY <1>m, <1>6 DEF LeaseExpires, WkInv, WkTypeOK, MailboxType, MailboxStatus
    <2>2. jobs \subseteq JobType /\ dropped \subseteq Payloads
      BY DEF WkInv, WkTypeOK
    <2> QED  BY <1>6, <2>1, <2>2, MailboxStep DEF LeaseExpires
  <1>a. ASSUME NEW m \in jobs
        PROVE  /\ m.key \in Payloads
               /\ Attempt(m.key, m) \in Nat
               /\ Retried(m) \subseteq JobType
               /\ jobs \ {m} \subseteq JobType
               /\ \A j \in Payloads : (\E a \in jobs : a.key = j) => \E a \in Retried(m) : a.key = j
               /\ \A j \in Payloads \ {m.key} :
                    (\E a \in jobs : a.key = j) => \E a \in jobs \ {m} : a.key = j
               /\ \E a \in Retried(m) : a.key = m.key
               /\ jobs \subseteq JobType /\ dropped \subseteq Payloads
               /\ mailbox[m.key].status # "none" <=> ~(mailbox[m.key].status = "none")
    <2>1. m.key \in Payloads /\ m.tries \in Nat /\ mailbox[m.key].attempts \in Nat
      BY <1>j, <1>m DEF MailboxType
    <2>2. jobs \subseteq JobType /\ dropped \subseteq Payloads
      BY DEF WkInv, WkTypeOK
    <2>3. Attempt(m.key, m) \in Nat
      BY <2>1 DEF Attempt
    <2>4. \A j \in Payloads \ {m.key} :
            (\E a \in jobs : a.key = j) => \E a \in jobs \ {m} : a.key = j
      OBVIOUS
    <2>5. /\ Retried(m) \subseteq JobType
          /\ \A j \in Payloads : (\E a \in jobs : a.key = j) => \E a \in Retried(m) : a.key = j
      BY <2>2, RetriedLemma
    <2> QED  BY <2>1, <2>2, <2>3, <2>4, <2>5
  <1>7. ASSUME NEW m \in jobs, NEW outcome \in {"accepted", "refused", "transient"},
               ProcessJob(m, outcome)
        PROVE  WkInv'
    <2> DEFINE k == m.key
    <2>1. PICK status \in {"sent", "failed", "queued"} :
            /\ mailbox' = [mailbox EXCEPT ![k].attempts = Attempt(k, m), ![k].status = status]
            /\ status = "queued" => jobs' = Retried(m)
            /\ jobs' = Retried(m) \/ jobs' = jobs \ {m}
      BY <1>7 DEF ProcessJob, Ack
    <2>2. /\ mailbox' \in [Payloads -> MailboxType]
          /\ \A j \in Payloads \ {k} : mailbox'[j] = mailbox[j]
          /\ mailbox'[k].status = status /\ mailbox[k].status # "none"
      <3> DEFINE b1 == [mailbox[k] EXCEPT !.attempts = Attempt(k, m)]
                 b2 == [b1 EXCEPT !.status = status]
      <3>1. mailbox' = [mailbox EXCEPT ![k] = b2]
        BY <2>1
      <3>2. b1 \in MailboxType
        BY <1>a, <1>m DEF MailboxType
      <3> HIDE DEF b1
      <3>3. b2 \in MailboxType /\ b2.status = status
        BY <3>2 DEF MailboxType, MailboxStatus
      <3>4. mailbox[k].status # "none"
        BY <1>7 DEF ProcessJob, Claimed
      <3>5. k \in Payloads /\ mailbox \in [Payloads -> MailboxType]
        BY <1>a DEF WkInv, WkTypeOK
      <3> HIDE DEF b2, k
      <3> QED  BY <3>1, <3>3, <3>4, <3>5
    <2>3. /\ jobs' \subseteq JobType
          /\ \A j \in Payloads \ {k} :
               (\E a \in jobs : a.key = j) => (\E a \in jobs' : a.key = j)
          /\ mailbox'[k].status = "queued" => \E a \in jobs' : a.key = k
      BY <1>a, <2>1, <2>2
    <2>4. UNCHANGED <<hour, object, posting, sweep, dropped>> /\ dropped \subseteq Payloads
      BY <1>7, <1>a DEF ProcessJob
    <2>5. k \in Payloads
      BY <1>a
    <2> HIDE DEF k
    <2> QED  BY <2>2, <2>3, <2>4, <2>5, MailboxStep
  <1>8. ASSUME NEW m \in jobs, SkipJob(m) PROVE WkInv'
    <2>1. /\ jobs' = jobs \ {m} /\ mailbox' = mailbox /\ mailbox[m.key].status # "queued"
          /\ UNCHANGED <<hour, object, posting, sweep, dropped>>
      BY <1>8 DEF SkipJob, Ack, Claimed
    <2>2. mailbox \in [Payloads -> MailboxType]
      BY DEF WkInv, WkTypeOK
    <2> QED  BY <1>a, <2>1, <2>2, MailboxStep
  <1>9. ASSUME NEW m \in jobs, JobThrows(m) \/ JobLostAfterClaim(m) PROVE WkInv'
    <2> DEFINE k == m.key
    <2>1. /\ jobs' = Retried(m)
          /\ UNCHANGED <<hour, object, posting, sweep, dropped>>
          /\ \/ mailbox' = mailbox
             \/ /\ mailbox' = [mailbox EXCEPT ![k].status = "sending",
                                              ![k].attempts = Attempt(k, m)]
                /\ mailbox[k].status # "none"
      BY <1>9 DEF JobThrows, JobLostAfterClaim, Claimed
    <2>2. /\ mailbox' \in [Payloads -> MailboxType]
          /\ \A j \in Payloads \ {k} : mailbox'[j] = mailbox[j]
          /\ mailbox'[k].status = "none" <=> mailbox[k].status = "none"
      <3>1. k \in Payloads /\ mailbox \in [Payloads -> MailboxType]
        BY <1>a DEF WkInv, WkTypeOK
      <3>2. CASE mailbox' = mailbox
        BY <3>1, <3>2
      <3>3. CASE /\ mailbox' = [mailbox EXCEPT ![k].status = "sending",
                                               ![k].attempts = Attempt(k, m)]
                 /\ mailbox[k].status # "none"
        <4> DEFINE b1 == [mailbox[k] EXCEPT !.status = "sending"]
                   b2 == [b1 EXCEPT !.attempts = Attempt(k, m)]
        <4>1. mailbox' = [mailbox EXCEPT ![k] = b2]
          BY <3>3
        <4>2. b1 \in MailboxType /\ b1.status = "sending"
          BY <1>a, <1>m DEF MailboxType, MailboxStatus
        <4> HIDE DEF b1
        <4>3. b2 \in MailboxType /\ b2.status = "sending"
          BY <1>a, <4>2 DEF MailboxType, MailboxStatus
        <4> HIDE DEF b2, k
        <4> QED  BY <3>1, <3>3, <4>1, <4>3
      <3> QED  BY <2>1, <3>2, <3>3
    <2>3. /\ k \in Payloads
          /\ jobs' \subseteq JobType /\ dropped \subseteq Payloads
          /\ \A j \in Payloads \ {k} :
               (\E a \in jobs : a.key = j) => (\E a \in jobs' : a.key = j)
          /\ \E a \in jobs' : a.key = k
      BY <1>a, <2>1
    <2> HIDE DEF k
    <2> QED  BY <2>1, <2>2, <2>3, MailboxStep
  <1>10. ASSUME NEW m \in jobs, (\E lost \in BOOLEAN : RecoverJob(m, lost)) \/ RecoverFails(m)
         PROVE  WkInv'
    <2> DEFINE k == m.key
    <2>1. UNCHANGED <<hour, object, posting, sweep, mailbox>>
      BY <1>10 DEF RecoverJob, RecoverFails
    <2>2. mailbox \in [Payloads -> MailboxType] /\ k \in Payloads
      BY <1>a DEF WkInv, WkTypeOK
    <2>3. CASE \E lost \in BOOLEAN : RecoverJob(m, lost)
      <3>1. Job(k, 1, "primary") \in JobType /\ Job(k, 1, "primary").key = k
        BY <2>2 DEF Job, JobType
      <3>2. /\ \/ jobs' = jobs \cup {Job(k, 1, "primary")}
               \/ jobs' = (jobs \ {m}) \cup {Job(k, 1, "primary")}
            /\ dropped' = dropped
        BY <2>3 DEF RecoverJob
      <3>3. /\ jobs' \subseteq JobType /\ dropped \subseteq Payloads
            /\ \A j \in Payloads \ {k} :
                 (\E a \in jobs : a.key = j) => (\E a \in jobs' : a.key = j)
            /\ \E a \in jobs' : a.key = k
        BY <1>a, <3>1, <3>2
      <3> HIDE DEF k
      <3> QED  BY <2>1, <2>2, <3>2, <3>3, MailboxStep
    <2>4. CASE RecoverFails(m)
      <3> DEFINE again == [m EXCEPT !.tries = m.tries + 1]
      <3>1. again \in JobType /\ again.key = k
        BY <1>j DEF JobType
      <3>2. \/ jobs' = (jobs \ {m}) \cup {again} /\ dropped' = dropped
            \/ jobs' = jobs \ {m} /\ dropped' = dropped \cup {k}
        BY <2>4 DEF RecoverFails
      <3> HIDE DEF again
      <3>3. /\ jobs' \subseteq JobType /\ dropped' \subseteq Payloads /\ dropped \subseteq dropped'
            /\ \A j \in Payloads \ {k} :
                 (\E a \in jobs : a.key = j) => (\E a \in jobs' : a.key = j)
            /\ k \in dropped' \/ \E a \in jobs' : a.key = k
        BY <1>a, <2>2, <3>1, <3>2
      <3> HIDE DEF k
      <3> QED  BY <2>1, <2>2, <3>3, MailboxStep
    <2> QED  BY <1>10, <2>3, <2>4
  <1>11. ASSUME NEW s \in Sweepers, ReadReferences(s) PROVE WkInv'
    <2> DEFINE read == [step |-> "list", since |-> hour, doomed |-> {},
                        referenced |-> {k \in Payloads : mailbox[k].status # "none"}]
    <2>1. sweep' = [sweep EXCEPT ![s] = read]
      BY <1>11 DEF ReadReferences
    <2>2. read \in SweepType
      BY <1>o DEF SweepType
    <2>3. /\ sweep'[s] = read
          /\ \A q \in Sweepers \ {s} : sweep'[q] = sweep[q]
          /\ sweep' \in [Sweepers -> SweepType]
      <3> HIDE DEF read
      <3> QED  BY <2>1, <2>2 DEF WkInv, WkTypeOK
    <2>4. WkTypeOK'
      BY <1>11, <2>3 DEF ReadReferences, WkInv, WkTypeOK
    <2>5. IntakeInv' /\ MessageInv'
      BY <1>11 DEF ReadReferences, WkInv, IntakeInv, MessageInv
    <2>6. SweepInv'
      <3> SUFFICES ASSUME NEW q \in Sweepers, sweep'[q].step # "idle"
                   PROVE  /\ sweep'[q].since <= hour' /\ hour' <= sweep'[q].since + InvocationTime
                          /\ \A k \in Payloads \ sweep'[q].referenced :
                               mailbox'[k].status # "none" =>
                                 sweep'[q].since <= object'[k].since + InvocationTime
                          /\ sweep'[q].step = "delete" =>
                               \A k \in sweep'[q].doomed :
                                 posting'[k] = "done" /\ mailbox'[k].status = "none"
        BY DEF SweepInv
      <3>1. UNCHANGED <<hour, object, posting, mailbox>>
        BY <1>11 DEF ReadReferences
      <3>2. CASE q = s
        BY <1>o, <2>3, <3>1, <3>2
      <3>3. CASE q # s
        BY <2>3, <3>1, <3>3 DEF WkInv, SweepInv
      <3> QED  BY <3>2, <3>3
    <2> QED  BY <2>4, <2>5, <2>6 DEF WkInv
  <1>12. ASSUME NEW s \in Sweepers, ListOrphans(s) PROVE WkInv'
    <2> DEFINE D == {k \in FirstPage \ sweep[s].referenced : OldEnough(k)}
    <2>1. D \subseteq Payloads
      BY DEF FirstPage, InBucket
    <2>2. \A k \in D : /\ object[k].there /\ object[k].since + OrphanAge <= hour
                       /\ k \in Payloads \ sweep[s].referenced
      BY DEF FirstPage, InBucket, OldEnough
    <2>3. \A k \in D : posting[k] = "done" /\ mailbox[k].status = "none"
      <3> SUFFICES ASSUME NEW k \in D PROVE posting[k] = "done" /\ mailbox[k].status = "none"
        OBVIOUS
      <3>1. /\ k \in Payloads /\ object[k].there /\ object[k].since + OrphanAge <= hour
            /\ k \notin sweep[s].referenced /\ object[k].since \in Nat
        BY <1>o, <2>1, <2>2
      <3>2. /\ hour <= sweep[s].since + InvocationTime
            /\ mailbox[k].status # "none" => sweep[s].since <= object[k].since + InvocationTime
        BY <1>12, <3>1 DEF ListOrphans, WkInv, SweepInv
      <3>3. mailbox[k].status = "none"
        BY <1>o, <1>s, <3>1, <3>2
      <3>4. posting[k] \in {"idle", "put", "done"}
        BY <3>1 DEF WkInv, WkTypeOK
      <3>5. posting[k] # "idle" /\ posting[k] # "put"
        BY <1>o, <3>1 DEF WkInv, IntakeInv
      <3> QED  BY <3>3, <3>4, <3>5
    <2>4. /\ sweep' = [sweep EXCEPT ![s].step = "delete", ![s].doomed = D]
          /\ UNCHANGED <<hour, object, posting, mailbox, jobs, dropped>>
      BY <1>12 DEF ListOrphans
    <2> HIDE DEF D
    <2>5. /\ sweep'[s].step = "delete" /\ sweep'[s].doomed = D
          /\ sweep'[s].since = sweep[s].since /\ sweep'[s].referenced = sweep[s].referenced
          /\ \A q \in Sweepers \ {s} : sweep'[q] = sweep[q]
          /\ sweep' \in [Sweepers -> SweepType]
      BY ZenonT(60), <1>s, <2>1, <2>4 DEF WkInv, WkTypeOK, SweepType
    <2>6. WkTypeOK' /\ IntakeInv' /\ MessageInv'
      BY <2>4, <2>5 DEF WkInv, WkTypeOK, IntakeInv, MessageInv
    <2>7. SweepInv'
      <3>1. sweep[s].step # "idle"
        BY <1>12 DEF ListOrphans
      <3> QED  BY <2>3, <2>4, <2>5, <3>1 DEF WkInv, SweepInv
    <2> QED  BY <2>6, <2>7 DEF WkInv
  <1>13. ASSUME NEW s \in Sweepers, NEW lost \in BOOLEAN, DeleteOrphans(s, lost) PROVE WkInv'
    <2>1. \A k \in sweep[s].doomed : posting[k] = "done" /\ mailbox[k].status = "none"
      BY <1>13 DEF DeleteOrphans, WkInv, SweepInv
    <2>2. /\ sweep' = [sweep EXCEPT ![s] = NoSweep]
          /\ UNCHANGED <<hour, posting, mailbox, jobs, dropped>>
      BY <1>13 DEF DeleteOrphans
    <2>3. NoSweep \in SweepType /\ NoSweep.step = "idle"
      BY DEF NoSweep, SweepType
    <2>4. /\ sweep'[s].step = "idle"
          /\ \A q \in Sweepers \ {s} : sweep'[q] = sweep[q]
          /\ sweep' \in [Sweepers -> SweepType]
      BY <2>2, <2>3 DEF WkInv, WkTypeOK
    <2>5. /\ object' \in [Payloads -> [there : BOOLEAN, since : Nat]]
          /\ \A k \in Payloads : object'[k].since = object[k].since
          /\ \A k \in Payloads \ sweep[s].doomed : object'[k] = object[k]
          /\ \A k \in Payloads : object'[k].there => object[k].there
      <3>1. CASE lost
        BY <1>13, <3>1 DEF DeleteOrphans, WkInv, WkTypeOK
      <3>2. CASE ~lost
        <4>1. object' = [k \in Payloads |-> IF k \in sweep[s].doomed
                                            THEN [object[k] EXCEPT !.there = FALSE]
                                            ELSE object[k]]
          BY <1>13, <3>2 DEF DeleteOrphans
        <4>2. \A k \in Payloads : object[k] \in [there : BOOLEAN, since : Nat]
          BY DEF WkInv, WkTypeOK
        <4> QED  BY <4>1, <4>2
      <3> QED  BY <3>1, <3>2
    <2>6. WkTypeOK' /\ MessageInv'
      BY <2>2, <2>4, <2>5 DEF WkInv, WkTypeOK, MessageInv
    <2>7. IntakeInv'
      BY <2>1, <2>2, <2>5 DEF WkInv, IntakeInv
    <2>8. SweepInv'
      BY <2>2, <2>4, <2>5 DEF WkInv, SweepInv
    <2> QED  BY <2>6, <2>7, <2>8 DEF WkInv
  <1>14. CASE UNCHANGED wkVars
    BY <1>14 DEF wkVars, WkInv, WkTypeOK, IntakeInv, SweepInv, MessageInv
  <1> QED
    BY <1>1, <1>2, <1>3, <1>4, <1>5, <1>6, <1>7, <1>8, <1>9, <1>10, <1>11, <1>12, <1>13,
       <1>14 DEF WkNext

\* In every reachable state of the Cloudflare runtime no sweep is about to
\* delete a payload that has or will have records, however sweeps, intakes and
\* the queue consumers overlap.
THEOREM WkInvariant == WkSpec => []WkInv
  <1>1. WkInit => WkInv
    <2> SUFFICES ASSUME WkInit PROVE WkInv
      OBVIOUS
    <2>1. NoMailbox \in MailboxType /\ NoMailbox.status = "none"
      BY DEF NoMailbox, MailboxType, MailboxStatus
    <2>2. NoSweep \in SweepType /\ NoSweep.step = "idle"
      BY DEF NoSweep, SweepType
    <2>3. NoPayload \in [there : BOOLEAN, since : Nat] /\ ~NoPayload.there
      BY DEF NoPayload
    <2> HIDE DEF NoMailbox, NoSweep, NoPayload
    <2>4. WkTypeOK
      BY <2>1, <2>2, <2>3 DEF WkInit, WkTypeOK
    <2>5. IntakeInv /\ SweepInv /\ MessageInv
      BY <2>1, <2>2, <2>3 DEF WkInit, IntakeInv, SweepInv, MessageInv
    <2> QED  BY <2>4, <2>5 DEF WkInv
  <1>2. WkInv /\ [WkNext]_wkVars => WkInv'
    BY WkStep
  <1> QED  BY <1>1, <1>2, PTL DEF WkSpec

\* An accepted e-mail that is still to be sent has its payload, and while it is
\* queued an outbox item or a message, unless its job ran out of retries.
THEOREM QueuedCanBeSentHolds == WkSpec => []QueuedCanBeSent
  <1>1. WkInv => QueuedCanBeSent
    BY DEF WkInv, IntakeInv, MessageInv, QueuedCanBeSent
  <1> QED  BY <1>1, WkInvariant, PTL

-----------------------------------------------------------------------------
(* The log retention resource, for any list of log groups and any number of *)
(* invocations.                                                             *)

Policies == {"missing", "none", "old", Desired}

LrPc == {"idle", "describe", "put", "deleteGroup", "undo", "respond", "answered", "thrown"}

LrStatus == {"none", "SUCCESS", "FAILED"}

HandlerType ==
    [pc : LrPc, request : {"none", "Create", "Update", "Delete"}, i : Nat, attempt : Nat,
     found : [GroupSet -> Policies] \cup {<<>>}, changed : Seq(GroupSet),
     doubt : SUBSET GroupSet, undoFailed : SUBSET GroupSet,
     status : LrStatus, invocation : Nat]

\* The handler keeps its types, and its place in the list.
LrTypeOK ==
    /\ retention \in [GroupSet -> Policies]
    /\ handler \in HandlerType
    /\ handler.pc # "idle" => handler.found \in [GroupSet -> Policies]
    /\ handler.pc \in {"describe", "put"} =>
         handler.i \in 1..Len(Groups) /\ handler.doubt = {}
    /\ handler.pc = "describe" /\ handler.i = 1 => handler.changed = <<>>
    /\ handler.pc = "put" /\ handler.i = 1 => handler.changed = <<>>
    /\ handler.pc = "deleteGroup" => handler.changed = <<>>
    /\ handler.pc = "undo" => Len(handler.changed) > 0

\* The group has been put since the invocation began, or is being put.
InHand(g) ==
    \/ /\ handler.pc \in {"describe", "put", "undo"}
       /\ \E n \in DOMAIN handler.changed : handler.changed[n] = g
    \/ handler.pc = "put" /\ g = Groups[handler.i]

\* Until it succeeds, an invocation knows every group whose policy is not what
\* it found.
KnownInv ==
    handler.pc \in {"describe", "put", "deleteGroup", "undo"}
    \/ (handler.pc \in {"respond", "answered", "thrown"} /\ handler.status = "FAILED")
    => \A g \in GroupSet :
         \/ retention[g] = handler.found[g]
         \/ g \in handler.doubt \cup handler.undoFailed
         \/ InHand(g)

LrInv == LrTypeOK /\ KnownInv

-----------------------------------------------------------------------------
\* What stays of the handler when it goes on to the next group.
LEMMA NextGroupLemma ==
    ASSUME NEW h \in HandlerType
    PROVE  LET n == NextGroup(h) IN
             /\ n \in HandlerType
             /\ n.i = h.i + 1 /\ n.changed = h.changed /\ n.found = h.found
             /\ n.doubt = h.doubt /\ n.undoFailed = h.undoFailed
             /\ h.i = Len(Groups) => n.pc = "respond" /\ n.status = "SUCCESS"
             /\ h.i # Len(Groups) => n.pc = "describe"
  <1> DEFINE pc2 == IF h.i = Len(Groups) THEN "respond" ELSE "describe"
             st2 == IF h.i = Len(Groups) THEN "SUCCESS" ELSE h.status
             h1 == [h EXCEPT !.i = h.i + 1]
             h2 == [h1 EXCEPT !.attempt = 0]
             h3 == [h2 EXCEPT !.pc = pc2]
             h4 == [h3 EXCEPT !.status = st2]
  <1>1. NextGroup(h) = h4
    BY DEF NextGroup
  <1>2. h1 \in HandlerType /\ h1.i = h.i + 1 /\ h1.changed = h.changed /\ h1.found = h.found
        /\ h1.doubt = h.doubt /\ h1.undoFailed = h.undoFailed
    BY SMTT(60) DEF HandlerType
  <1> HIDE DEF h1
  <1>3. h2 \in HandlerType /\ h2.i = h.i + 1 /\ h2.changed = h.changed /\ h2.found = h.found
        /\ h2.doubt = h.doubt /\ h2.undoFailed = h.undoFailed
    BY SMTT(60), <1>2 DEF HandlerType
  <1> HIDE DEF h2
  <1>4. h3 \in HandlerType /\ h3.i = h.i + 1 /\ h3.changed = h.changed /\ h3.found = h.found
        /\ h3.doubt = h.doubt /\ h3.undoFailed = h.undoFailed /\ h3.pc = pc2
    BY SMTT(60), <1>3 DEF HandlerType, LrPc
  <1> HIDE DEF h3
  <1>5. h4 \in HandlerType /\ h4.i = h.i + 1 /\ h4.changed = h.changed /\ h4.found = h.found
        /\ h4.doubt = h.doubt /\ h4.undoFailed = h.undoFailed /\ h4.pc = pc2 /\ h4.status = st2
    <2>1. st2 \in LrStatus
      BY SMTT(60) DEF HandlerType, LrStatus
    <2> HIDE DEF st2, pc2
    <2> QED  BY SMTT(60), <1>4, <2>1 DEF HandlerType
  <1> HIDE DEF h4
  <1> QED  BY <1>1, <1>5

\* What stays of the handler when it gives up.
LEMMA UnwindLemma ==
    ASSUME NEW h \in HandlerType
    PROVE  LET n == Unwind(h) IN
             /\ n \in HandlerType
             /\ n.changed = h.changed /\ n.found = h.found
             /\ n.doubt = h.doubt /\ n.undoFailed = h.undoFailed
             /\ n.status = "FAILED"
             /\ n.pc = IF h.changed = <<>> THEN "respond" ELSE "undo"
  <1> DEFINE pc2 == IF h.changed = <<>> THEN "respond" ELSE "undo"
             h1 == [h EXCEPT !.attempt = 0]
             h2 == [h1 EXCEPT !.status = "FAILED"]
             h3 == [h2 EXCEPT !.pc = pc2]
  <1>1. Unwind(h) = h3
    BY DEF Unwind
  <1>2. h1 \in HandlerType /\ h1.changed = h.changed /\ h1.found = h.found
        /\ h1.doubt = h.doubt /\ h1.undoFailed = h.undoFailed
    BY SMTT(60) DEF HandlerType
  <1> HIDE DEF h1
  <1>3. h2 \in HandlerType /\ h2.changed = h.changed /\ h2.found = h.found
        /\ h2.doubt = h.doubt /\ h2.undoFailed = h.undoFailed /\ h2.status = "FAILED"
    BY SMTT(60), <1>2 DEF HandlerType, LrStatus
  <1> HIDE DEF h2
  <1>4. h3 \in HandlerType /\ h3.changed = h.changed /\ h3.found = h.found
        /\ h3.doubt = h.doubt /\ h3.undoFailed = h.undoFailed /\ h3.status = "FAILED"
        /\ h3.pc = pc2
    BY SMTT(60), <1>3 DEF HandlerType, LrPc
  <1> HIDE DEF h3
  <1> QED  BY <1>1, <1>4

\* Another attempt of the call in hand changes nothing else.
LEMMA AgainLemma ==
    ASSUME LrInv, handler' = Again, handler.pc # "idle",
           retention' \in [GroupSet -> Policies],
           \A g \in GroupSet : retention'[g] = retention[g] \/ InHand(g)
    PROVE  LrInv'
  <1>1. /\ handler' \in HandlerType
        /\ handler'.pc = handler.pc /\ handler'.i = handler.i
        /\ handler'.changed = handler.changed /\ handler'.found = handler.found
        /\ handler'.doubt = handler.doubt /\ handler'.undoFailed = handler.undoFailed
        /\ handler'.status = handler.status
    BY SMTT(60) DEF LrInv, LrTypeOK, HandlerType, Again
  <1>2. LrTypeOK'
    BY <1>1 DEF LrInv, LrTypeOK
  <1>3. \A g \in GroupSet : InHand(g)' <=> InHand(g)
    BY <1>1 DEF InHand
  <1>4. KnownInv'
    BY <1>1, <1>3 DEF LrInv, KnownInv
  <1> QED  BY <1>2, <1>4 DEF LrInv

\* The answer, whatever becomes of it.
LEMMA RespondLemma ==
    ASSUME LrInv, UNCHANGED retention, handler' \in HandlerType,
           handler'.pc \in {"respond", "answered", "thrown"},
           handler'.found \in [GroupSet -> Policies],
           handler'.status = "FAILED" =>
             \A g \in GroupSet : \/ retention[g] = handler'.found[g]
                                 \/ g \in handler'.doubt \cup handler'.undoFailed
    PROVE  LrInv'
  <1>1. LrTypeOK'
    BY DEF LrInv, LrTypeOK
  <1>2. KnownInv'
    BY DEF LrInv, KnownInv
  <1> QED  BY <1>1, <1>2 DEF LrInv

\* Every step of the custom resource keeps the invariant.
LEMMA LrStep ==
    ASSUME LrInv, [LrNext]_lrVars
    PROVE  LrInv'
  <1> DEFINE H == handler
             R == retention
  <1>t. /\ H \in HandlerType /\ R \in [GroupSet -> Policies]
        /\ H.pc \in LrPc /\ H.i \in Nat /\ H.attempt \in Nat /\ H.changed \in Seq(GroupSet)
        /\ H.invocation \in Nat
        /\ Len(Groups) \in Nat \ {0} /\ DOMAIN Groups = 1..Len(Groups)
    BY SMTT(60), GroupsAreListed DEF LrInv, LrTypeOK, HandlerType
  <1>1. ASSUME NEW request \in {"Create", "Update", "Delete"}, Invoke(request)
        PROVE  LrInv'
    <2> DEFINE pc2 == IF request = "Delete" THEN "deleteGroup" ELSE "describe"
               h1 == [IdleHandler EXCEPT !.request = request]
               next == H.invocation + 1
               h2 == [h1 EXCEPT !.invocation = next]
               h3 == [h2 EXCEPT !.found = R]
               h4 == [h3 EXCEPT !.i = 1]
               l == [h4 EXCEPT !.pc = pc2]
    <2>1. handler' = l /\ retention' = R
      BY <1>1 DEF Invoke
    <2>2. IdleHandler \in HandlerType /\ IdleHandler.changed = <<>> /\ IdleHandler.status = "none"
          /\ IdleHandler.doubt = {}
      BY SMTT(60) DEF IdleHandler, HandlerType, LrPc, LrStatus
    <2>3. h1 \in HandlerType /\ h1.changed = <<>> /\ h1.status = "none" /\ h1.doubt = {}
      BY SMTT(60), <2>2 DEF HandlerType
    <2> HIDE DEF h1
    <2>4. h2 \in HandlerType /\ h2.changed = <<>> /\ h2.status = "none" /\ h2.doubt = {}
      <3>1. next \in Nat
        BY <1>t
      <3> HIDE DEF next
      <3> QED  BY SMTT(60), <2>3, <3>1 DEF HandlerType
    <2> HIDE DEF h2
    <2>5. h3 \in HandlerType /\ h3.changed = <<>> /\ h3.status = "none" /\ h3.doubt = {}
          /\ h3.found = R
      BY ZenonT(60), <1>t, <2>4 DEF HandlerType
    <2> HIDE DEF h3
    <2>6. h4 \in HandlerType /\ h4.changed = <<>> /\ h4.status = "none" /\ h4.doubt = {}
          /\ h4.found = R /\ h4.i = 1
      BY SMTT(60), <2>5 DEF HandlerType
    <2> HIDE DEF h4
    <2>7. pc2 \in {"deleteGroup", "describe"}
      OBVIOUS
    <2>8. l \in HandlerType /\ l.pc = pc2 /\ l.i = 1 /\ l.changed = <<>> /\ l.found = R
          /\ l.status = "none" /\ l.doubt = {}
      <3> HIDE DEF pc2
      <3> QED  BY SMTT(60), <2>6, <2>7 DEF HandlerType, LrPc
    <2> HIDE DEF l, pc2
    <2>9. LrTypeOK'
      BY <1>t, <2>1, <2>7, <2>8 DEF LrTypeOK
    <2>10. KnownInv'
      BY <2>1, <2>8 DEF KnownInv
    <2> QED  BY <2>9, <2>10 DEF LrInv
  <1>2. CASE RefuseProperties
    <2> DEFINE h1 == [H EXCEPT !.pc = "respond"]
               h2 == [h1 EXCEPT !.status = "FAILED"]
    <2>1. handler' = h2 /\ retention' = R
      BY <1>2 DEF RefuseProperties
    <2>2. h1 \in HandlerType /\ h1.pc = "respond" /\ h1.found = H.found
          /\ h1.doubt = H.doubt /\ h1.undoFailed = H.undoFailed
      BY SMTT(60), <1>t DEF HandlerType, LrPc
    <2> HIDE DEF h1
    <2>3. h2 \in HandlerType /\ h2.pc = "respond" /\ h2.found = H.found
          /\ h2.doubt = H.doubt /\ h2.undoFailed = H.undoFailed
      BY SMTT(60), <2>2 DEF HandlerType, LrStatus
    <2> HIDE DEF h2
    <2>4. /\ H.found \in [GroupSet -> Policies]
          /\ \A g \in GroupSet : R[g] = H.found[g] \/ g \in H.doubt \cup H.undoFailed
      BY <1>2 DEF RefuseProperties, LrInv, LrTypeOK, KnownInv, InHand
    <2> QED  BY <2>1, <2>3, <2>4, RespondLemma
  \* The group in hand is done: it is as it was found, or it is among the changed.
  <1>n. ASSUME NEW h \in HandlerType, handler' = NextGroup(h), H.pc \in {"describe", "put"},
               h.i = H.i, h.found = H.found, h.doubt = H.doubt, h.undoFailed = H.undoFailed,
               retention' \in [GroupSet -> Policies],
               \A g \in GroupSet : \/ retention'[g] = H.found[g]
                                   \/ g \in H.doubt \cup H.undoFailed
                                   \/ \E n \in DOMAIN h.changed : h.changed[n] = g
        PROVE  LrInv'
    <2> DEFINE n == NextGroup(h)
    <2>1. /\ n \in HandlerType
          /\ n.i = h.i + 1 /\ n.changed = h.changed /\ n.found = h.found
          /\ n.doubt = h.doubt /\ n.undoFailed = h.undoFailed
          /\ h.i = Len(Groups) => n.pc = "respond" /\ n.status = "SUCCESS"
          /\ h.i # Len(Groups) => n.pc = "describe"
      BY NextGroupLemma
    <2> HIDE DEF n
    <2>2. handler' = n
      BY <1>n DEF n
    <2>3. H.found \in [GroupSet -> Policies] /\ H.i \in 1..Len(Groups) /\ H.doubt = {}
      BY <1>n DEF LrInv, LrTypeOK
    <2>4. LrTypeOK'
      BY <1>n, <1>t, <2>1, <2>2, <2>3 DEF LrTypeOK
    <2>5. KnownInv'
      BY <1>n, <2>1, <2>2 DEF KnownInv, InHand
    <2> QED  BY <2>4, <2>5 DEF LrInv
  <1>3. CASE Describe
    <2> DEFINE g == Groups[H.i]
    <2>1. H.pc = "describe" /\ retention' = R
      BY <1>3 DEF Describe
    <2>2. CASE handler' = NextGroup(H)
      BY <1>n, <1>t, <2>1, <2>2 DEF LrInv, KnownInv, InHand
    <2>3. CASE handler' = [H EXCEPT !.pc = "put", !.attempt = 0]
      <3> DEFINE h1 == [H EXCEPT !.pc = "put"]
                 h2 == [h1 EXCEPT !.attempt = 0]
      <3>1. handler' = h2
        BY <2>3
      <3>2. h1 \in HandlerType /\ h1.pc = "put" /\ h1.i = H.i /\ h1.changed = H.changed
            /\ h1.found = H.found /\ h1.doubt = H.doubt /\ h1.undoFailed = H.undoFailed
        BY SMTT(60), <1>t DEF HandlerType, LrPc
      <3> HIDE DEF h1
      <3>3. h2 \in HandlerType /\ h2.pc = "put" /\ h2.i = H.i /\ h2.changed = H.changed
            /\ h2.found = H.found /\ h2.doubt = H.doubt /\ h2.undoFailed = H.undoFailed
        BY SMTT(60), <3>2 DEF HandlerType
      <3> HIDE DEF h2
      <3>4. LrTypeOK'
        BY <2>1, <3>1, <3>3 DEF LrInv, LrTypeOK
      <3>5. KnownInv'
        BY <2>1, <3>1, <3>3 DEF LrInv, KnownInv, InHand
      <3> QED  BY <3>4, <3>5 DEF LrInv
    <2>4. CASE handler' = Again
      BY <1>t, <2>1, <2>4, AgainLemma
    <2>5. CASE handler' = Unwind(H)
      <3> DEFINE n == Unwind(H)
      <3>1. /\ n \in HandlerType
            /\ n.changed = H.changed /\ n.found = H.found
            /\ n.doubt = H.doubt /\ n.undoFailed = H.undoFailed
            /\ n.status = "FAILED"
            /\ n.pc = IF H.changed = <<>> THEN "respond" ELSE "undo"
        BY <1>t, UnwindLemma
      <3> HIDE DEF n
      <3>2. handler' = n
        BY <2>5 DEF n
      <3>3. LrTypeOK'
        BY <1>t, <2>1, <3>1, <3>2 DEF LrInv, LrTypeOK
      <3>4. KnownInv'
        BY <2>1, <3>1, <3>2 DEF LrInv, KnownInv, InHand
      <3> QED  BY <3>3, <3>4 DEF LrInv
    <2> QED  BY <1>3, <2>2, <2>3, <2>4, <2>5 DEF Describe
  <1>4. CASE Put
    <2> DEFINE g == Groups[H.i]
               noted == [H EXCEPT !.changed = Append(H.changed, g)]
    <2>1. H.pc = "put" /\ H.i \in 1..Len(Groups) /\ g \in GroupSet
      BY <1>4, <1>t DEF Put, LrInv, LrTypeOK, GroupSet
    <2>2. retention' \in {R, [R EXCEPT ![g] = Desired]}
      BY <1>4 DEF Put
    <2>3. /\ retention' \in [GroupSet -> Policies]
          /\ \A q \in GroupSet : q # g => retention'[q] = R[q]
      BY <1>t, <2>1, <2>2 DEF Policies, Desired
    <2>4. \A q \in GroupSet : q # g =>
             \/ retention'[q] = H.found[q]
             \/ q \in H.doubt \cup H.undoFailed
             \/ \E n \in DOMAIN H.changed : H.changed[n] = q
      BY <2>1, <2>3 DEF LrInv, KnownInv, InHand
    <2>5. CASE handler' = NextGroup(noted)
      <3>1. noted \in HandlerType /\ noted.i = H.i /\ noted.found = H.found
            /\ noted.doubt = H.doubt /\ noted.undoFailed = H.undoFailed
            /\ noted.changed = Append(H.changed, g)
        <4> DEFINE longer == Append(H.changed, g)
        <4>1. longer \in Seq(GroupSet)
          BY <1>t, <2>1
        <4> HIDE DEF longer
        <4> QED  BY ZenonT(60), <1>t, <4>1 DEF HandlerType, longer
      <3>2. /\ \A n \in DOMAIN H.changed : n \in DOMAIN noted.changed
                                           /\ noted.changed[n] = H.changed[n]
            /\ Len(H.changed) + 1 \in DOMAIN noted.changed
            /\ noted.changed[Len(H.changed) + 1] = g
        BY <1>t, <2>1, <3>1
      <3> HIDE DEF noted, g
      <3>3. \A q \in GroupSet : \/ retention'[q] = H.found[q]
                                \/ q \in H.doubt \cup H.undoFailed
                                \/ \E n \in DOMAIN noted.changed : noted.changed[n] = q
        BY <2>4, <3>2
      <3> QED  BY <1>n, <2>1, <2>3, <2>5, <3>1, <3>3
    <2>6. CASE handler' = Again
      BY <2>1, <2>3, <2>6, AgainLemma DEF InHand
    <2>7. CASE handler' = [Unwind(H) EXCEPT !.doubt = {g}]
      <3> DEFINE u == Unwind(H)
                 n == [u EXCEPT !.doubt = {g}]
      <3>1. /\ u \in HandlerType
            /\ u.changed = H.changed /\ u.found = H.found
            /\ u.doubt = H.doubt /\ u.undoFailed = H.undoFailed
            /\ u.status = "FAILED"
            /\ u.pc = IF H.changed = <<>> THEN "respond" ELSE "undo"
        BY <1>t, UnwindLemma
      <3> HIDE DEF u
      <3>2. handler' = n
        BY <2>7 DEF u
      <3>3. /\ n \in HandlerType
            /\ n.changed = H.changed /\ n.found = H.found
            /\ n.doubt = {g} /\ n.undoFailed = H.undoFailed
            /\ n.status = "FAILED"
            /\ n.pc = IF H.changed = <<>> THEN "respond" ELSE "undo"
        BY SMTT(60), <2>1, <3>1 DEF HandlerType
      <3> HIDE DEF n
      <3>4. LrTypeOK'
        BY <1>t, <2>1, <2>3, <3>2, <3>3 DEF LrInv, LrTypeOK
      <3>5. H.doubt = {}
        BY <2>1 DEF LrInv, LrTypeOK
      <3>6. KnownInv'
        BY <2>4, <3>2, <3>3, <3>5 DEF KnownInv, InHand
      <3> QED  BY <3>4, <3>6 DEF LrInv
    <2> QED  BY <1>4, <2>5, <2>6, <2>7 DEF Put
  <1>5. CASE Undo
    <2> DEFINE n == Len(H.changed)
               g == H.changed[n]
               rest == SubSeq(H.changed, 1, n - 1)
               pc2 == IF n = 1 THEN "respond" ELSE "undo"
               h1 == [H EXCEPT !.changed = rest]
               h2 == [h1 EXCEPT !.attempt = 0]
               popped == [h2 EXCEPT !.pc = pc2]
    <2>1. H.pc = "undo" /\ n \in Nat \ {0} /\ g \in GroupSet
          /\ H.found \in [GroupSet -> Policies]
      BY <1>5, <1>t DEF Undo, LrInv, LrTypeOK
    <2>2. /\ rest \in Seq(GroupSet)
          /\ Len(rest) = n - 1
          /\ \A k \in DOMAIN H.changed : k # n => k \in DOMAIN rest /\ rest[k] = H.changed[k]
      BY <1>t, <2>1
    <2> HIDE DEF rest
    <2>3. h1 \in HandlerType /\ h1.changed = rest /\ h1.found = H.found
          /\ h1.doubt = H.doubt /\ h1.undoFailed = H.undoFailed /\ h1.status = H.status
      BY ZenonT(60), <1>t, <2>2 DEF HandlerType
    <2> HIDE DEF h1
    <2>4. h2 \in HandlerType /\ h2.changed = rest /\ h2.found = H.found
          /\ h2.doubt = H.doubt /\ h2.undoFailed = H.undoFailed /\ h2.status = H.status
      BY SMTT(60), <2>3 DEF HandlerType
    <2> HIDE DEF h2
    <2>5. pc2 \in {"respond", "undo"} /\ (pc2 = "respond" <=> n = 1)
      OBVIOUS
    <2> HIDE DEF pc2
    <2>6. popped \in HandlerType /\ popped.changed = rest /\ popped.found = H.found
          /\ popped.doubt = H.doubt /\ popped.undoFailed = H.undoFailed
          /\ popped.pc = pc2
      BY SMTT(60), <2>4, <2>5 DEF HandlerType, LrPc
    <2>7. popped = [H EXCEPT !.changed = SubSeq(@, 1, n - 1), !.attempt = 0,
                             !.pc = IF n = 1 THEN "respond" ELSE "undo"]
      BY DEF h1, h2, pc2, rest
    <2> HIDE DEF popped, n, g
    <2>8. \A q \in GroupSet : q # g =>
             \/ R[q] = H.found[q]
             \/ q \in H.doubt \cup H.undoFailed
             \/ n # 1 /\ \E k \in DOMAIN rest : rest[k] = q
      <3> SUFFICES ASSUME NEW q \in GroupSet, q # g, R[q] # H.found[q],
                          q \notin H.doubt \cup H.undoFailed
                   PROVE  n # 1 /\ \E k \in DOMAIN rest : rest[k] = q
        OBVIOUS
      <3>1. PICK k \in DOMAIN H.changed : H.changed[k] = q
        BY <2>1 DEF LrInv, KnownInv, InHand
      <3>2. k # n
        BY <3>1 DEF g
      <3>3. k \in DOMAIN rest /\ rest[k] = q
        BY <2>2, <3>1, <3>2
      <3>4. DOMAIN rest = 1..(n - 1)
        BY <2>1, <2>2
      <3> QED  BY <2>1, <3>3, <3>4
    <2>9. ASSUME NEW h \in HandlerType, handler' = h, h.pc = pc2, h.found = H.found,
                 h.changed = rest, retention' \in [GroupSet -> Policies],
                 \A q \in GroupSet : q # g => retention'[q] = R[q],
                 h.doubt = H.doubt, H.undoFailed \subseteq h.undoFailed,
                 retention'[g] = H.found[g] \/ g \in h.undoFailed
          PROVE  LrInv'
      <3>1. LrTypeOK'
        BY <2>1, <2>2, <2>5, <2>9 DEF LrTypeOK
      <3>2. ASSUME NEW q \in GroupSet
            PROVE  \/ retention'[q] = handler'.found[q]
                   \/ q \in handler'.doubt \cup handler'.undoFailed
                   \/ InHand(q)'
        <4>1. CASE q = g
          BY <2>9, <4>1
        <4>2. CASE q # g
          BY <2>5, <2>8, <2>9, <4>2 DEF InHand
        <4> QED  BY <4>1, <4>2
      <3>3. KnownInv'
        BY <3>2 DEF KnownInv
      <3> QED  BY <3>1, <3>3 DEF LrInv
    <2>10. CASE retention' = [R EXCEPT ![g] = H.found[g]] /\ handler' = popped
      <3>1. retention' \in [GroupSet -> Policies] /\ retention'[g] = H.found[g]
            /\ \A q \in GroupSet : q # g => retention'[q] = R[q]
        BY <1>t, <2>1, <2>10
      <3> QED  BY <2>6, <2>9, <2>10, <3>1
    <2>11. CASE retention' = R /\ handler' = Again
      BY <1>t, <2>1, <2>11, AgainLemma
    <2>12. CASE retention' = R
                /\ handler' = [popped EXCEPT !.undoFailed = popped.undoFailed \cup {g}]
      <3> DEFINE failed == H.undoFailed \cup {g}
                 h == [popped EXCEPT !.undoFailed = failed]
      <3>1. failed \in SUBSET GroupSet
        BY SMTT(60), <1>t, <2>1 DEF HandlerType
      <3>2. handler' = h
        BY <2>6, <2>12
      <3> HIDE DEF failed
      <3>3. h \in HandlerType /\ h.changed = rest /\ h.found = H.found
            /\ h.doubt = H.doubt /\ h.undoFailed = failed /\ h.pc = pc2
        BY SMTT(60), <2>6, <3>1 DEF HandlerType
      <3> HIDE DEF h
      <3>4. H.undoFailed \subseteq failed /\ g \in failed
        BY DEF failed
      <3> QED  BY <1>t, <2>9, <2>12, <3>2, <3>3, <3>4
    <2> QED  BY <1>5, <2>7, <2>10, <2>11, <2>12 DEF Undo, n, g
  <1>6. CASE DeleteProviderLogGroup
    <2>1. /\ H.pc = "deleteGroup" /\ retention' = R /\ H.changed = <<>>
          /\ H.found \in [GroupSet -> Policies]
      BY <1>6 DEF DeleteProviderLogGroup, LrInv, LrTypeOK
    <2>2. \A g \in GroupSet : R[g] = H.found[g] \/ g \in H.doubt \cup H.undoFailed
      BY <2>1 DEF LrInv, KnownInv, InHand
    <2>3. ASSUME NEW st \in {"SUCCESS", "FAILED"},
                 handler' = [H EXCEPT !.pc = "respond", !.status = st, !.attempt = 0]
          PROVE  LrInv'
      <3> DEFINE h1 == [H EXCEPT !.pc = "respond"]
                 h2 == [h1 EXCEPT !.status = st]
                 h3 == [h2 EXCEPT !.attempt = 0]
      <3>1. handler' = h3
        BY <2>3
      <3>2. h1 \in HandlerType /\ h1.pc = "respond" /\ h1.found = H.found
            /\ h1.doubt = H.doubt /\ h1.undoFailed = H.undoFailed
        BY SMTT(60), <1>t DEF HandlerType, LrPc
      <3> HIDE DEF h1
      <3>3. h2 \in HandlerType /\ h2.pc = "respond" /\ h2.found = H.found
            /\ h2.doubt = H.doubt /\ h2.undoFailed = H.undoFailed
        BY SMTT(60), <3>2 DEF HandlerType, LrStatus
      <3> HIDE DEF h2
      <3>4. h3 \in HandlerType /\ h3.pc = "respond" /\ h3.found = H.found
            /\ h3.doubt = H.doubt /\ h3.undoFailed = H.undoFailed
        BY SMTT(60), <3>3 DEF HandlerType
      <3> HIDE DEF h3
      <3> QED  BY <2>1, <2>2, <3>1, <3>4, RespondLemma
    <2>4. CASE handler' = Again
      BY <1>t, <2>1, <2>4, AgainLemma
    <2>5. CASE handler' = [H EXCEPT !.pc = "respond", !.status = "SUCCESS", !.attempt = 0]
      BY <2>3, <2>5
    <2>6. CASE handler' = [H EXCEPT !.pc = "respond", !.status = "FAILED", !.attempt = 0]
      BY <2>3, <2>6
    <2> QED  BY <1>6, <2>4, <2>5, <2>6 DEF DeleteProviderLogGroup
  <1>7. CASE Respond
    <2>1. /\ H.pc = "respond" /\ retention' = R
          /\ H.found \in [GroupSet -> Policies]
      BY <1>7 DEF Respond, LrInv, LrTypeOK
    <2>2. H.status = "FAILED" =>
            \A g \in GroupSet : R[g] = H.found[g] \/ g \in H.doubt \cup H.undoFailed
      BY <2>1 DEF LrInv, KnownInv, InHand
    <2>3. CASE handler' = Again
      BY <1>t, <2>1, <2>3, AgainLemma
    <2>4. ASSUME NEW point \in {"answered", "thrown"}, handler' = [H EXCEPT !.pc = point]
          PROVE  LrInv'
      <3>1. handler' \in HandlerType /\ handler'.pc = point /\ handler'.found = H.found
            /\ handler'.doubt = H.doubt /\ handler'.undoFailed = H.undoFailed
            /\ handler'.status = H.status
        BY SMTT(60), <1>t, <2>4 DEF HandlerType, LrPc
      <3> QED  BY <2>1, <2>2, <3>1, RespondLemma
    <2> QED  BY <1>7, <2>3, <2>4 DEF Respond
  <1>8. CASE UNCHANGED lrVars
    BY <1>8 DEF lrVars, LrInv, LrTypeOK, KnownInv, InHand
  <1> QED  BY <1>1, <1>2, <1>3, <1>4, <1>5, <1>6, <1>7, <1>8 DEF LrNext

\* At every point of an invocation every group that is not as it was found is
\* in hand, in doubt or known not to have been restored
\* (applyLegacyLogRetention of log-retention.ts).
THEOREM LrInvariant == LrSpec => []LrInv
  <1>1. LrInit => LrInv
    <2> SUFFICES ASSUME LrInit PROVE LrInv
      OBVIOUS
    <2>1. handler.pc = "idle" /\ handler \in HandlerType
      BY SMTT(60) DEF LrInit, IdleHandler, HandlerType, LrPc, LrStatus
    <2>2. retention \in [GroupSet -> Policies]
      BY DEF LrInit, Policies
    <2> QED  BY <2>1, <2>2 DEF LrInv, LrTypeOK, KnownInv
  <1>2. LrInv /\ [LrNext]_lrVars => LrInv'
    BY LrStep
  <1> QED  BY <1>1, <1>2, PTL DEF LrSpec

\* An invocation that answers FAILED has put back every policy it changed,
\* except one in doubt or one whose restoration failed, for any list of groups
\* and whatever earlier invocations did.
THEOREM FailedRestoresHolds == LrSpec => []FailedRestores
  <1>1. LrInv => FailedRestores
    BY DEF LrInv, KnownInv, InHand, FailedRestores
  <1> QED  BY <1>1, LrInvariant, PTL
-----------------------------------------------------------------------------
(* Provider events: what was acknowledged is recorded.                      *)

\* A step list of a report: to be checked, or what is left of its calls.
StepLists ==
    {<<>>, <<"check">>, <<"apply">>, <<"suppress">>, <<"apply", "suppress">>,
     <<"suppress", "apply">>}

ReportRecords ==
    [state : {"none", "waiting", "acked"}, kind : Kinds \cup {"delivered"},
     of : Nat, tries : Nat]

EventTypes ==
    /\ report \in [Reports -> ReportRecords]
    /\ intake \in [batch : Seq(Reports), done : SUBSET Reports, steps : StepLists]
    /\ recorded \subseteq Reports /\ contended \subseteq Reports
    /\ intake.steps # <<>> => intake.batch # <<>>

\* The recipient was put on the suppression list, whatever an operator did to
\* the entry afterwards.
WasPut == suppression # "none" \/ lifted

\* Nothing is left to do for a report of this kind.
Settles(kind, isRecorded, put, isContended) ==
    Recordable(kind) =>
      \/ isRecorded /\ ((\E i \in DOMAIN StepsOf(kind) : StepsOf(kind)[i] = "suppress") => put)
      \/ prov = "cloudflare" /\ isContended

Settled(r) == Settles(KindOf(r), r \in recorded, WasPut, r \in contended)

\* What the handler has behind it, in the batch and in the report at its head.
IntakeHolds ==
    /\ \A r \in Reports : report[r].state = "acked" => Settled(r)
    /\ \A r \in intake.done : report[r].state # "none" /\ Settled(r)
    /\ \A i \in 1..Len(intake.batch) : report[intake.batch[i]].state # "none"

CallsHold(kind, steps, isRecorded, put) ==
    \/ steps \in {<<>>, <<"check">>}
    \/ steps = StepsOf(kind)
    \/ StepsOf(kind) = <<"apply", "suppress">> /\ steps = <<"suppress">> /\ isRecorded
    \/ StepsOf(kind) = <<"suppress", "apply">> /\ steps = <<"apply">> /\ put

HeadHolds ==
    intake.steps # <<>> =>
        CallsHold(KindOf(Current), intake.steps, Current \in recorded, WasPut)

EventInv == EventTypes /\ IntakeHolds /\ HeadHolds

\* The calls of a report, in either order.
LEMMA StepsAre ==
    ASSUME NEW kind
    PROVE  StepsOf(kind) \in {<<>>, <<"apply">>, <<"apply", "suppress">>, <<"suppress", "apply">>}
<1>1. processSesEvent(kind) \in {<<>>, <<"apply">>, <<"suppress", "apply">>}
  BY DEF processSesEvent
<1>2. processCloudflareEmailSendingEvent(kind) \in {<<"apply">>, <<"apply", "suppress">>}
  BY DEF processCloudflareEmailSendingEvent
<1>3. processAcsEmailDeliveryEvent(kind) \in {<<"apply">>, <<"apply", "suppress">>}
  BY DEF processAcsEmailDeliveryEvent
<1>4. processSendGridEmailEvent(kind) \in {<<>>, <<"apply">>, <<"apply", "suppress">>}
  BY DEF processSendGridEmailEvent
<1>5. processAcsEmailEngagementEvent = <<"apply">>
  BY DEF processAcsEmailEngagementEvent
<1> QED BY <1>1, <1>2, <1>3, <1>4, <1>5 DEF StepsOf

\* One call less.
LEMMA StepTails ==
    /\ Head(<<"apply">>) = "apply" /\ Tail(<<"apply">>) = <<>>
    /\ Head(<<"suppress">>) = "suppress" /\ Tail(<<"suppress">>) = <<>>
    /\ Head(<<"apply", "suppress">>) = "apply" /\ Tail(<<"apply", "suppress">>) = <<"suppress">>
    /\ Head(<<"suppress", "apply">>) = "suppress" /\ Tail(<<"suppress", "apply">>) = <<"apply">>
    /\ Head(<<"check">>) = "check"
  OBVIOUS

\* The step lists differ.
LEMMA StepListsDiffer ==
    /\ <<>> # <<"check">> /\ <<>> # <<"apply">> /\ <<>> # <<"suppress">>
    /\ <<>> # <<"apply", "suppress">> /\ <<>> # <<"suppress", "apply">>
    /\ <<"check">> # <<"apply">> /\ <<"check">> # <<"suppress">>
    /\ <<"check">> # <<"apply", "suppress">> /\ <<"check">> # <<"suppress", "apply">>
    /\ <<"apply">> # <<"suppress">> /\ <<"apply">> # <<"apply", "suppress">>
    /\ <<"apply">> # <<"suppress", "apply">> /\ <<"suppress">> # <<"apply", "suppress">>
    /\ <<"suppress">> # <<"suppress", "apply">>
    /\ <<"apply", "suppress">> # <<"suppress", "apply">>
  OBVIOUS

\* A report that only has to be recorded has no call to the suppression list.
LEMMA OnlyApply ==
    ASSUME NEW kind, StepsOf(kind) = <<"apply">>
    PROVE  ~\E i \in DOMAIN StepsOf(kind) : StepsOf(kind)[i] = "suppress"
  OBVIOUS

\* The provider does not change, and neither do the calls of a kind.
LEMMA ProviderStays ==
    ASSUME prov' = prov
    PROVE  /\ \A kind : StepsOf(kind)' = StepsOf(kind)
           /\ \A kind : Recordable(kind)' <=> Recordable(kind)
           /\ \A kind, a, b, c : Settles(kind, a, b, c)' <=> Settles(kind, a, b, c)
           /\ Kinds' = Kinds /\ ReportRecords' = ReportRecords
<1>1. \A kind : StepsOf(kind)' = StepsOf(kind)
  BY DEF StepsOf
<1>2. \A kind : Recordable(kind)' <=> Recordable(kind)
  BY <1>1 DEF Recordable
<1>3. \A kind, a, b, c : Settles(kind, a, b, c)' <=> Settles(kind, a, b, c)
  BY <1>1, <1>2 DEF Settles
<1>4. Kinds' = Kinds
  BY DEF Kinds, Normalised
<1> QED BY <1>1, <1>2, <1>3, <1>4 DEF ReportRecords

\* The head of a batch and what comes after it.
LEMMA BatchParts ==
    ASSUME NEW b \in Seq(Reports), b # <<>>
    PROVE  /\ Head(b) \in Reports /\ Head(b) = b[1] /\ 1 \in 1..Len(b)
           /\ Tail(b) \in Seq(Reports)
           /\ \A i \in 1..Len(Tail(b)) : i + 1 \in 1..Len(b) /\ Tail(b)[i] = b[i + 1]
  OBVIOUS

\* A handler that starts on a batch.
LEMMA StartedIs ==
    ASSUME NEW b \in Seq(Reports), NEW d \in SUBSET Reports
    PROVE  LET s == Started(b, d) IN
           /\ s \in [batch : Seq(Reports), done : SUBSET Reports, steps : StepLists]
           /\ s.steps \in {<<>>, <<"check">>} /\ (s.steps # <<>> => s.batch # <<>>)
           /\ s.done \subseteq d /\ (s.batch = b \/ s.batch = <<>>)
<1>1. CASE b = <<>>
  <2>1. Started(b, d) = [batch |-> <<>>, done |-> {}, steps |-> <<>>]
    BY <1>1 DEF Started, Resting
  <2>2. <<>> \in Seq(Reports) /\ <<>> \in StepLists
    BY DEF StepLists
  <2> QED BY <2>1, <2>2
<1>2. CASE b # <<>>
  <2>1. Started(b, d) = [batch |-> b, done |-> d, steps |-> <<"check">>]
    BY <1>2 DEF Started
  <2>2. <<"check">> \in StepLists
    BY DEF StepLists
  <2> QED BY <1>2, <2>1, <2>2
<1> QED BY <1>1, <1>2

\* Nothing that a report has behind it is taken back.
Monotone ==
    /\ prov' = prov
    /\ recorded \subseteq recorded' /\ recorded' \subseteq Reports
    /\ contended \subseteq contended' /\ contended' \subseteq Reports
    /\ WasPut => WasPut'

LEMMA SettledStays ==
    ASSUME Monotone
    PROVE  \A kind, r : Settles(kind, r \in recorded, WasPut, r \in contended)
                        => Settles(kind, r \in recorded', WasPut', r \in contended')
  BY DEF Monotone, Settles

\* A step to another place of the handler: the reports keep their kinds, what
\* is acknowledged or done is settled.
LEMMA HandlerMoves ==
    ASSUME EventInv, Monotone,
           report' \in [Reports -> ReportRecords],
           \A r \in Reports : report[r].state # "none" =>
               report'[r].kind = report[r].kind /\ report'[r].state # "none",
           intake' \in [batch : Seq(Reports), done : SUBSET Reports, steps : StepLists],
           intake'.steps # <<>> => intake'.batch # <<>>,
           \A r \in Reports : report'[r].state = "acked" =>
               \/ report[r].state = "acked"
               \/ report[r].state # "none"
                  /\ Settles(KindOf(r), r \in recorded', WasPut', r \in contended'),
           \A r \in intake'.done :
               \/ r \in intake.done
               \/ report[r].state # "none"
                  /\ Settles(KindOf(r), r \in recorded', WasPut', r \in contended'),
           \A i \in 1..Len(intake'.batch) : report'[intake'.batch[i]].state # "none",
           intake'.steps # <<>> =>
               CallsHold(report'[Head(intake'.batch)].kind, intake'.steps,
                         Head(intake'.batch) \in recorded', WasPut')
    PROVE  EventInv'
<1>1. prov' = prov
  BY DEF Monotone
<1>2. EventTypes'
  BY <1>1, ProviderStays DEF EventTypes, Monotone
<1>3. ASSUME NEW r \in Reports, report[r].state # "none",
             Settles(KindOf(r), r \in recorded', WasPut', r \in contended')
      PROVE  Settled(r)'
  <2>1. KindOf(r)' = KindOf(r)
    BY <1>3 DEF KindOf
  <2> QED BY <1>1, <1>3, <2>1, ProviderStays DEF Settled
<1>4. ASSUME NEW r \in Reports, report[r].state # "none", Settled(r)
      PROVE  Settled(r)'
  <2>1. Settles(KindOf(r), r \in recorded', WasPut', r \in contended')
    BY <1>4, SettledStays DEF Settled
  <2> QED BY <1>3, <1>4, <2>1
<1>5. ASSUME NEW r \in Reports, report'[r].state = "acked" PROVE Settled(r)'
  <2>1. CASE report[r].state = "acked"
    BY <1>4, <2>1 DEF EventInv, IntakeHolds
  <2>2. CASE report[r].state # "acked"
    BY <1>3, <1>5, <2>2
  <2> QED BY <2>1, <2>2
<1>6. ASSUME NEW r \in intake'.done PROVE report'[r].state # "none" /\ Settled(r)'
  <2>1. r \in Reports
    OBVIOUS
  <2>2. CASE r \in intake.done
    BY <1>4, <2>1, <2>2 DEF EventInv, IntakeHolds
  <2>3. CASE r \notin intake.done
    BY <1>3, <1>6, <2>1, <2>3
  <2> QED BY <2>2, <2>3
<1>7. IntakeHolds'
  BY <1>5, <1>6 DEF IntakeHolds
<1>8. HeadHolds'
  <2>1. SUFFICES ASSUME intake'.steps # <<>>
                 PROVE  CallsHold(KindOf(Current), intake.steps, Current \in recorded, WasPut)'
    BY DEF HeadHolds
  <2>2. CallsHold(report'[Head(intake'.batch)].kind, intake'.steps,
                  Head(intake'.batch) \in recorded', WasPut')
    BY <2>1
  <2> QED BY <1>1, <2>2, ProviderStays DEF CallsHold, KindOf, Current
<1> QED BY <1>2, <1>7, <1>8 DEF EventInv

\* What a handler knows of the report it works on.
LEMMA CurrentIs ==
    ASSUME EventInv, intake.steps # <<>>
    PROVE  /\ Current \in Reports /\ report[Current].state # "none"
           /\ intake.batch \in Seq(Reports) /\ intake.batch # <<>>
           /\ intake.done \in SUBSET Reports
           /\ Tail(intake.batch) \in Seq(Reports)
           /\ \A i \in 1..Len(Tail(intake.batch)) :
                report[Tail(intake.batch)[i]].state # "none"
<1>1. intake.batch \in Seq(Reports) /\ intake.batch # <<>> /\ intake.done \in SUBSET Reports
  BY DEF EventInv, EventTypes
<1>2. \A i \in 1..Len(intake.batch) : report[intake.batch[i]].state # "none"
  BY DEF EventInv, IntakeHolds
<1> QED BY <1>1, <1>2, BatchParts DEF Current

\* An error that leaves the rest of the batch, or nothing, to do.
LEMMA GivenUpKeeps ==
    ASSUME EventInv, Monotone, intake.steps # <<>>, UNCHANGED report,
           intake' = Resting \/ intake' = Started(Tail(intake.batch), intake.done)
    PROVE  EventInv'
<1>1. PICK b \in Seq(Reports) : /\ intake' = Started(b, intake.done) \/ intake' = Resting
                                /\ b = Tail(intake.batch)
  BY CurrentIs
<1>2. /\ intake' \in [batch : Seq(Reports), done : SUBSET Reports, steps : StepLists]
      /\ intake'.steps \in {<<>>, <<"check">>} /\ (intake'.steps # <<>> => intake'.batch # <<>>)
      /\ intake'.done \subseteq intake.done /\ (intake'.batch = b \/ intake'.batch = <<>>)
  <2>1. CASE intake' = Started(b, intake.done)
    BY <2>1, CurrentIs, StartedIs
  <2>2. CASE intake' = Resting
    <3>1. <<>> \in Seq(Reports) /\ <<>> \in StepLists
      BY DEF StepLists
    <3> QED BY <2>2, <3>1 DEF Resting
  <2> QED BY <1>1, <2>1, <2>2
<1>3. \A i \in 1..Len(intake'.batch) : report'[intake'.batch[i]].state # "none"
  <2>1. CASE intake'.batch = b
    BY <1>1, <2>1, CurrentIs
  <2>2. CASE intake'.batch = <<>>
    <3>1. Len(intake'.batch) = 0
      BY <2>2
    <3> QED BY <3>1
  <2> QED BY <1>2, <2>1, <2>2
<1>4. intake'.steps # <<>> =>
        CallsHold(report'[Head(intake'.batch)].kind, intake'.steps,
                  Head(intake'.batch) \in recorded', WasPut')
  BY <1>2 DEF CallsHold
<1>5. report' \in [Reports -> ReportRecords]
  BY DEF EventInv, EventTypes
<1> QED BY <1>2, <1>3, <1>4, <1>5, HandlerMoves

\* The acknowledgement of a set of reports.
LEMMA AckedIs ==
    ASSUME EventInv, NEW rs \in SUBSET Reports
    PROVE  /\ Acked(rs) \in [Reports -> ReportRecords]
           /\ \A r \in Reports : /\ Acked(rs)[r].kind = report[r].kind
                                 /\ r \in rs => Acked(rs)[r].state = "acked"
                                 /\ r \notin rs => Acked(rs)[r] = report[r]
<1>1. report \in [Reports -> ReportRecords]
  BY DEF EventInv, EventTypes
<1>2. ASSUME NEW r \in Reports
      PROVE  /\ Acked(rs)[r] \in ReportRecords /\ Acked(rs)[r].kind = report[r].kind
             /\ r \in rs => Acked(rs)[r].state = "acked"
             /\ r \notin rs => Acked(rs)[r] = report[r]
  <2>1. report[r] \in ReportRecords
    BY <1>1
  <2>2. CASE r \in rs
    <3>1. Acked(rs)[r] = [report[r] EXCEPT !.state = "acked"]
      BY <2>2 DEF Acked
    <3> QED BY <2>1, <2>2, <3>1 DEF ReportRecords
  <2>3. CASE r \notin rs
    BY <2>1, <2>3 DEF Acked
  <2> QED BY <2>2, <2>3
<1>3. Acked(rs) = [r \in Reports |-> Acked(rs)[r]]
  BY DEF Acked
<1> QED BY <1>2, <1>3

\* The end of a report that is settled: its acknowledgement, now or with the
\* rest of its batch.
LEMMA HandledKeeps ==
    ASSUME EventInv, Monotone, intake.steps # <<>>, Handled(Current),
           Settles(KindOf(Current), Current \in recorded', WasPut', Current \in contended')
    PROVE  EventInv'
<1> DEFINE done == intake.done \cup {Current}
           b == Tail(intake.batch)
<1>1. /\ intake' = Started(b, done)
      /\ report' = report \/ report' = Acked({Current}) \/ report' = Acked(done)
  BY DEF Handled
<1>2. done \in SUBSET Reports /\ {Current} \in SUBSET Reports /\ b \in Seq(Reports)
  BY CurrentIs
<1>3. PICK rs \in {{}, {Current}, done} :
        /\ report' \in [Reports -> ReportRecords]
        /\ \A r \in Reports : /\ report'[r].kind = report[r].kind
                              /\ r \in rs => report'[r].state = "acked"
                              /\ r \notin rs => report'[r] = report[r]
  <2>1. CASE report' = report
    <3>1. report \in [Reports -> ReportRecords]
      BY DEF EventInv, EventTypes
    <3> QED BY <2>1, <3>1
  <2>2. CASE report' = Acked({Current})
    BY <1>2, <2>2, AckedIs
  <2>3. CASE report' = Acked(done)
    BY <1>2, <2>3, AckedIs
  <2> QED BY <1>1, <2>1, <2>2, <2>3
<1>4. rs \subseteq done
  BY <1>3
<1>5. /\ intake' \in [batch : Seq(Reports), done : SUBSET Reports, steps : StepLists]
      /\ intake'.steps \in {<<>>, <<"check">>} /\ (intake'.steps # <<>> => intake'.batch # <<>>)
      /\ intake'.done \subseteq done /\ (intake'.batch = b \/ intake'.batch = <<>>)
  BY <1>1, <1>2, StartedIs
<1> HIDE DEF b
<1>6. \A r \in done : r \in Reports /\ report[r].state # "none"
  BY CurrentIs DEF EventInv, IntakeHolds
<1>7. \A r \in done :
        Settles(KindOf(r), r \in recorded', WasPut', r \in contended')
  <2>1. \A r \in intake.done : Settled(r)
    BY DEF EventInv, IntakeHolds
  <2> QED BY <2>1, SettledStays DEF Settled
<1>8. \A r \in Reports : report'[r].state = "acked" => report[r].state = "acked" \/ r \in done
  BY <1>3, <1>4
<1>9. \A r \in Reports : report[r].state # "none" =>
        report'[r].kind = report[r].kind /\ report'[r].state # "none"
  BY <1>3
<1>10. \A i \in 1..Len(intake'.batch) : report'[intake'.batch[i]].state # "none"
  <2>1. CASE intake'.batch = b
    <3>1. \A i \in 1..Len(b) : b[i] \in Reports /\ report[b[i]].state # "none"
      BY <1>2, CurrentIs DEF b
    <3> QED BY <1>9, <2>1, <3>1
  <2>2. CASE intake'.batch = <<>>
    <3>1. Len(intake'.batch) = 0
      BY <2>2
    <3> QED BY <3>1
  <2> QED BY <1>5, <2>1, <2>2
<1>11. intake'.steps # <<>> =>
         CallsHold(report'[Head(intake'.batch)].kind, intake'.steps,
                   Head(intake'.batch) \in recorded', WasPut')
  BY <1>5 DEF CallsHold
<1> HIDE DEF done
<1>12. \A r \in Reports : report'[r].state = "acked" =>
         \/ report[r].state = "acked"
         \/ report[r].state # "none"
            /\ Settles(KindOf(r), r \in recorded', WasPut', r \in contended')
  BY <1>6, <1>7, <1>8
<1>13. \A r \in intake'.done :
         \/ r \in intake.done
         \/ report[r].state # "none"
            /\ Settles(KindOf(r), r \in recorded', WasPut', r \in contended')
  BY <1>5, <1>6, <1>7
<1> QED BY <1>3, <1>5, <1>9, <1>10, <1>11, <1>12, <1>13, HandlerMoves

\* What is left to do for a report, or its end.
LEMMA StepsGoOn ==
    ASSUME EventInv, Monotone, intake.steps # <<>>, NEW steps \in StepLists,
           GoesOn(Current, steps),
           steps = <<>> =>
             Settles(KindOf(Current), Current \in recorded', WasPut', Current \in contended'),
           steps # <<>> =>
             CallsHold(KindOf(Current), steps, Current \in recorded', WasPut')
    PROVE  EventInv'
<1>1. CASE steps = <<>>
  BY <1>1, HandledKeeps DEF GoesOn
<1>2. CASE steps # <<>>
  <2>1. intake' = [intake EXCEPT !.steps = steps] /\ report' = report
    BY <1>2 DEF GoesOn
  <2>2. intake \in [batch : Seq(Reports), done : SUBSET Reports, steps : StepLists]
        /\ intake.batch # <<>> /\ report \in [Reports -> ReportRecords]
    BY CurrentIs DEF EventInv, EventTypes
  <2>3. /\ intake' \in [batch : Seq(Reports), done : SUBSET Reports, steps : StepLists]
        /\ intake'.batch = intake.batch /\ intake'.done = intake.done /\ intake'.steps = steps
    BY <2>1, <2>2
  <2>4. \A i \in 1..Len(intake'.batch) : report'[intake'.batch[i]].state # "none"
    BY <2>1, <2>3 DEF EventInv, IntakeHolds
  <2>5. CallsHold(report'[Head(intake'.batch)].kind, intake'.steps,
                  Head(intake'.batch) \in recorded', WasPut')
    BY <1>2, <2>1, <2>3 DEF Current, KindOf
  <2>6. /\ \A r \in Reports : report[r].state # "none" =>
              report'[r].kind = report[r].kind /\ report'[r].state # "none"
        /\ \A r \in Reports : report'[r].state = "acked" => report[r].state = "acked"
        /\ \A r \in intake'.done : r \in intake.done
    BY <2>1, <2>3
  <2> QED BY <2>1, <2>2, <2>3, <2>4, <2>5, <2>6, HandlerMoves
<1> QED BY <1>1, <1>2

\* An error: the next of the batch, the end of the batch, or, from Cloudflare's
\* consumer, the acknowledgement of a report that is settled or has lost a
\* conflict.
LEMMA ErrorKeeps ==
    ASSUME EventInv, Monotone, intake.steps # <<>>,
           NEW error \in {"invalid", "conflict", "uncorrelated", "store"},
           Fails(Current, error),
           error = "invalid" => ~Recordable(KindOf(Current)),
           error = "conflict" => Current \in contended'
    PROVE  EventInv'
<1>1. CASE prov # "cloudflare"
  BY <1>1, GivenUpKeeps DEF Fails, handleSesEvent
<1>2. CASE prov = "cloudflare" /\ ~shouldRetryOperationalError(EventError(error))
  <2>1. Handled(Current)
    BY <1>2 DEF Fails, consumeCloudflareEmailEventBatch
  <2>2. error \in {"invalid", "conflict"}
    BY <1>2 DEF EventError, shouldRetryOperationalError
  <2>3. Settles(KindOf(Current), Current \in recorded', WasPut', Current \in contended')
    BY <1>2, <2>2 DEF Settles
  <2> QED BY <2>1, <2>3, HandledKeeps
<1>3. CASE prov = "cloudflare" /\ shouldRetryOperationalError(EventError(error))
  <2>1. intake' = Started(Tail(intake.batch), intake.done) /\ UNCHANGED report
    BY <1>3 DEF Fails, consumeCloudflareEmailEventBatch
  <2> QED BY <2>1, GivenUpKeeps
<1> QED BY <1>1, <1>2, <1>3

\* CheckReport: an invalid report has nothing to record.
LEMMA CheckKeeps ==
    ASSUME EventInv, CheckReport
    PROVE  EventInv'
<1>1. intake.steps # <<>> /\ Monotone
  BY StepListsDiffer DEF CheckReport, Monotone, WasPut, EventInv, EventTypes
<1>2. CASE KindOf(Current) = "invalid"
  <2>1. ~Recordable(KindOf(Current))
    BY <1>2 DEF Recordable
  <2>2. Fails(Current, "invalid")
    BY <1>2 DEF CheckReport
  <2> QED BY <1>1, <2>1, <2>2, ErrorKeeps
<1>3. CASE KindOf(Current) # "invalid"
  <2>1. GoesOn(Current, StepsOf(KindOf(Current)))
    BY <1>3 DEF CheckReport
  <2>2. StepsOf(KindOf(Current)) \in StepLists
    BY StepsAre DEF StepLists
  <2>3. StepsOf(KindOf(Current)) = <<>> =>
          Settles(KindOf(Current), Current \in recorded', WasPut', Current \in contended')
    BY DEF Settles, Recordable
  <2>4. CallsHold(KindOf(Current), StepsOf(KindOf(Current)), Current \in recorded', WasPut')
    BY DEF CallsHold
  <2> QED BY <1>1, <2>1, <2>2, <2>3, <2>4, StepsGoOn
<1> QED BY <1>2, <1>3

\* A call at the head of the steps: where the report is.
LEMMA CallIs ==
    ASSUME EventInv, intake.steps # <<>>, Head(intake.steps) \in {"apply", "suppress"}
    PROVE  CallsHold(KindOf(Current), intake.steps, Current \in recorded, WasPut)
           /\ intake.steps \in {<<"apply">>, <<"suppress">>, <<"apply", "suppress">>,
                                <<"suppress", "apply">>}
  BY StepTails, StepListsDiffer DEF EventInv, EventTypes, HeadHolds, StepLists

\* ApplyReport: the event is in the ledger, and its suppression follows.
LEMMA ApplyKeeps ==
    ASSUME EventInv, ApplyReport
    PROVE  EventInv'
<1>1. intake.steps # <<>> /\ Head(intake.steps) = "apply"
  BY DEF ApplyReport
<1>2. CASE Correlated(Current)
  <2>1. /\ recorded' = recorded \cup {Current} /\ GoesOn(Current, Tail(intake.steps))
        /\ prov' = prov /\ contended' = contended /\ suppression' = suppression
        /\ lifted' = lifted
    BY <1>2 DEF ApplyReport, AfterApply
  <2>2. Monotone
    BY <1>1, <2>1, CurrentIs DEF Monotone, WasPut, EventInv, EventTypes
  <2>3. Current \in recorded' /\ (WasPut => WasPut')
    BY <2>1, <2>2 DEF Monotone
  <2>4. CASE intake.steps = <<"apply", "suppress">>
    <3>1. StepsOf(KindOf(Current)) = <<"apply", "suppress">>
      BY <1>1, <2>4, CallIs, StepListsDiffer DEF CallsHold
    <3>2. Tail(intake.steps) = <<"suppress">> /\ <<"suppress">> \in StepLists
      BY <2>4, StepTails DEF StepLists
    <3>3. CallsHold(KindOf(Current), <<"suppress">>, Current \in recorded', WasPut')
      BY <2>3, <3>1 DEF CallsHold
    <3> QED BY <1>1, <2>1, <2>2, <3>2, <3>3, StepListsDiffer, StepsGoOn
  <2>5. CASE intake.steps = <<"apply">>
    <3>1. Tail(intake.steps) = <<>> /\ <<>> \in StepLists
      BY <2>5, StepTails DEF StepLists
    <3>2. StepsOf(KindOf(Current)) = <<"apply">> \/ WasPut
      BY <1>1, <2>5, CallIs, StepListsDiffer DEF CallsHold
    <3>3. Settles(KindOf(Current), Current \in recorded', WasPut', Current \in contended')
      BY <2>3, <3>2, OnlyApply DEF Settles
    <3> QED BY <1>1, <2>1, <2>2, <3>1, <3>3, StepsGoOn
  <2> QED BY <1>1, <2>4, <2>5, CallIs, StepTails
<1>3. CASE ~Correlated(Current)
  <2>1. Fails(Current, "uncorrelated") /\ Monotone
    BY <1>3 DEF ApplyReport, Monotone, WasPut, EventInv, EventTypes
  <2> QED BY <1>1, <2>1, ErrorKeeps
<1> QED BY <1>2, <1>3

\* PutSuppression: the recipient is on the list.
LEMMA PutKeeps ==
    ASSUME EventInv, PutSuppression
    PROVE  EventInv'
<1>1. /\ intake.steps # <<>> /\ Head(intake.steps) = "suppress"
      /\ GoesOn(Current, Tail(intake.steps)) /\ suppression' \in {"complaint", "bounce"}
      /\ prov' = prov /\ recorded' = recorded /\ contended' = contended
  BY DEF PutSuppression
<1>2. Monotone /\ WasPut'
  BY <1>1 DEF Monotone, WasPut, EventInv, EventTypes
<1>3. CASE intake.steps = <<"suppress", "apply">>
  <2>1. StepsOf(KindOf(Current)) = <<"suppress", "apply">>
    BY <1>1, <1>3, CallIs, StepListsDiffer DEF CallsHold
  <2>2. Tail(intake.steps) = <<"apply">> /\ <<"apply">> \in StepLists
    BY <1>3, StepTails DEF StepLists
  <2>3. CallsHold(KindOf(Current), <<"apply">>, Current \in recorded', WasPut')
    BY <1>2, <2>1 DEF CallsHold
  <2> QED BY <1>1, <1>2, <2>2, <2>3, StepListsDiffer, StepsGoOn
<1>4. CASE intake.steps = <<"suppress">>
  <2>1. Tail(intake.steps) = <<>> /\ <<>> \in StepLists
    BY <1>4, StepTails DEF StepLists
  <2>2. Current \in recorded'
    BY <1>1, <1>4, CallIs, StepsAre, StepListsDiffer DEF CallsHold
  <2>3. Settles(KindOf(Current), Current \in recorded', WasPut', Current \in contended')
    BY <1>2, <2>2 DEF Settles
  <2> QED BY <1>1, <1>2, <2>1, <2>3, StepsGoOn
<1> QED BY <1>1, <1>3, <1>4, CallIs, StepTails

\* ApplyConflicts and StoreFails: the report comes again, or lost a conflict.
LEMMA StoreErrorKeeps ==
    ASSUME EventInv, ApplyConflicts \/ StoreFails
    PROVE  EventInv'
<1>1. intake.steps # <<>>
  BY DEF ApplyConflicts, StoreFails
<1>2. CASE ApplyConflicts
  <2>1. Fails(Current, "conflict") /\ contended' = contended \cup {Current}
        /\ prov' = prov /\ recorded' = recorded /\ suppression' = suppression
        /\ lifted' = lifted
    BY <1>2 DEF ApplyConflicts
  <2>2. Monotone /\ Current \in contended'
    BY <1>1, <2>1, CurrentIs DEF Monotone, WasPut, EventInv, EventTypes
  <2> QED BY <1>1, <2>1, <2>2, ErrorKeeps
<1>3. CASE StoreFails
  <2>1. Fails(Current, "store") /\ Monotone
    BY <1>3 DEF StoreFails, Monotone, WasPut, EventInv, EventTypes
  <2> QED BY <1>1, <2>1, ErrorKeeps
<1> QED BY <1>2, <1>3

\* ReportIsMade: a new report is in no batch yet.
LEMMA ReportMadeKeeps ==
    ASSUME EventInv, NEW r \in Reports, NEW kind \in Kinds, NEW n \in 1..MaxSubmissions,
           ReportIsMade(r, kind, n)
    PROVE  EventInv'
<1>1. /\ report[r].state = "none" /\ Monotone /\ intake' = intake
      /\ report' = [report EXCEPT ![r] =
                      [state |-> "waiting", kind |-> kind, of |-> n, tries |-> 0]]
  BY DEF ReportIsMade, Monotone, WasPut, EventInv, EventTypes
<1>2. /\ report \in [Reports -> ReportRecords]
      /\ intake \in [batch : Seq(Reports), done : SUBSET Reports, steps : StepLists]
      /\ intake.steps # <<>> => intake.batch # <<>>
  BY DEF EventInv, EventTypes
<1>3. [state |-> "waiting", kind |-> kind, of |-> n, tries |-> 0] \in ReportRecords
  BY DEF ReportRecords
<1>4. /\ report' \in [Reports -> ReportRecords]
      /\ report'[r].state = "waiting"
      /\ \A s \in Reports : s # r => report'[s] = report[s]
  BY <1>1, <1>2, <1>3
<1>5. \A i \in 1..Len(intake.batch) :
        intake.batch[i] \in Reports /\ report[intake.batch[i]].state # "none"
  BY <1>2 DEF EventInv, IntakeHolds
<1>6. \A i \in 1..Len(intake'.batch) : report'[intake'.batch[i]].state # "none"
  BY <1>1, <1>4, <1>5
<1>7. intake'.steps # <<>> =>
        CallsHold(report'[Head(intake'.batch)].kind, intake'.steps,
                  Head(intake'.batch) \in recorded', WasPut')
  <2>1. SUFFICES ASSUME intake.steps # <<>>
                 PROVE  CallsHold(report'[Current].kind, intake.steps, Current \in recorded', WasPut')
    BY <1>1 DEF Current
  <2>2. Current \in Reports /\ report'[Current] = report[Current]
    BY <1>1, <1>4, <2>1, CurrentIs
  <2>3. CallsHold(KindOf(Current), intake.steps, Current \in recorded, WasPut)
    BY <2>1 DEF EventInv, HeadHolds
  <2> QED BY <1>1, <2>2, <2>3 DEF CallsHold, KindOf, Monotone
<1>8. /\ \A s \in Reports : report[s].state # "none" =>
            report'[s].kind = report[s].kind /\ report'[s].state # "none"
      /\ \A s \in Reports : report'[s].state = "acked" => report[s].state = "acked"
      /\ \A s \in intake'.done : s \in intake.done
  BY <1>1, <1>4
<1> QED BY <1>1, <1>2, <1>4, <1>6, <1>7, <1>8, HandlerMoves

\* Deliver: a batch of reports that were made, from its start.
LEMMA DeliverKeeps ==
    ASSUME EventInv, NEW batch \in Seq(Reports), Deliver(batch)
    PROVE  EventInv'
<1>1. Monotone
  BY DEF Deliver, Monotone, WasPut, EventInv, EventTypes
<1>2. report \in [Reports -> ReportRecords]
  BY DEF EventInv, EventTypes
<1>3. ASSUME NEW r \in Reports
      PROVE  /\ report'[r] \in ReportRecords /\ report'[r].kind = report[r].kind
             /\ report'[r].state = report[r].state
  <2>1. report[r] \in ReportRecords
    BY <1>2
  <2>2. report'[r] = report[r] \/ report'[r] = [report[r] EXCEPT !.tries = report[r].tries + 1]
    BY DEF Deliver
  <2>3. report[r].tries + 1 \in Nat
    BY <2>1 DEF ReportRecords
  <2> QED BY <2>1, <2>2, <2>3 DEF ReportRecords
<1>4. report' \in [Reports -> ReportRecords]
  <2>1. report' = [r \in Reports |-> report'[r]]
    BY DEF Deliver
  <2> QED BY <1>3, <2>1
<1>5. /\ intake' \in [batch : Seq(Reports), done : SUBSET Reports, steps : StepLists]
      /\ intake'.steps \in {<<>>, <<"check">>} /\ (intake'.steps # <<>> => intake'.batch # <<>>)
      /\ intake'.done = {} /\ (intake'.batch = batch \/ intake'.batch = <<>>)
  <2>1. CASE intake' = Started(batch, {})
    <3>1. {} \in SUBSET Reports
      OBVIOUS
    <3> QED BY <2>1, <3>1, StartedIs
  <2>2. CASE intake' = Resting
    <3>1. <<>> \in Seq(Reports) /\ <<>> \in StepLists
      BY DEF StepLists
    <3> QED BY <2>2, <3>1 DEF Resting
  <2> QED BY <2>1, <2>2 DEF Deliver
<1>6. \A i \in 1..Len(intake'.batch) : report'[intake'.batch[i]].state # "none"
  <2>1. CASE intake'.batch = batch
    <3>1. \A i \in 1..Len(batch) : batch[i] \in Reports /\ report[batch[i]].state # "none"
      BY DEF Deliver
    <3> QED BY <1>3, <2>1, <3>1
  <2>2. CASE intake'.batch = <<>>
    <3>1. Len(intake'.batch) = 0
      BY <2>2
    <3> QED BY <3>1
  <2> QED BY <1>5, <2>1, <2>2
<1>7. intake'.steps # <<>> =>
        CallsHold(report'[Head(intake'.batch)].kind, intake'.steps,
                  Head(intake'.batch) \in recorded', WasPut')
  BY <1>5 DEF CallsHold
<1>8. /\ \A r \in Reports : report[r].state # "none" =>
            report'[r].kind = report[r].kind /\ report'[r].state # "none"
      /\ \A r \in Reports : report'[r].state = "acked" => report[r].state = "acked"
      /\ \A r \in intake'.done : r \in intake.done
  BY <1>3, <1>5
<1> QED BY <1>1, <1>4, <1>5, <1>6, <1>7, <1>8, HandlerMoves

\* The steps of the send worker, and the operator who removes an entry.
LEMMA OutsideKeeps ==
    ASSUME EventInv, Monotone, report' = report, intake' = intake
    PROVE  EventInv'
<1>1. /\ report \in [Reports -> ReportRecords]
      /\ intake \in [batch : Seq(Reports), done : SUBSET Reports, steps : StepLists]
      /\ intake.steps # <<>> => intake.batch # <<>>
      /\ \A i \in 1..Len(intake.batch) : report[intake.batch[i]].state # "none"
  BY DEF EventInv, EventTypes, IntakeHolds
<1>2. intake.steps # <<>> =>
        CallsHold(report[Head(intake.batch)].kind, intake.steps,
                  Head(intake.batch) \in recorded', WasPut')
  BY DEF EventInv, HeadHolds, CallsHold, KindOf, Current, Monotone
<1> QED BY <1>1, <1>2, HandlerMoves

\* In every order of attempts, reports, batches and errors, what is done with
\* or acknowledged is settled.
THEOREM EventInvariant == EvSpec => []EventInv
<1>1. EvInit => EventInv
  <2> SUFFICES ASSUME EvInit PROVE EventInv
    OBVIOUS
  <2>1. [state |-> "none", kind |-> "delivered", of |-> 0, tries |-> 0] \in ReportRecords
    BY DEF ReportRecords
  <2>2. Resting.steps = <<>> /\ Resting.batch = <<>> /\ Resting.done = {}
        /\ Resting \in [batch : Seq(Reports), done : SUBSET Reports, steps : StepLists]
    <3>1. <<>> \in Seq(Reports) /\ <<>> \in StepLists
      BY DEF StepLists
    <3> QED BY <3>1 DEF Resting
  <2>3. EventTypes
    BY <2>1, <2>2 DEF EvInit, EventTypes
  <2>4. IntakeHolds
    <3>1. Len(intake.batch) = 0
      BY <2>2 DEF EvInit
    <3> QED BY <2>2, <3>1 DEF EvInit, IntakeHolds
  <2>5. HeadHolds
    BY <2>2 DEF EvInit, HeadHolds
  <2> QED BY <2>3, <2>4, <2>5 DEF EventInv
<1>2. EventInv /\ [EvNext]_evVars => EventInv'
  <2> SUFFICES ASSUME EventInv, [EvNext]_evVars PROVE EventInv'
    OBVIOUS
  <2>1. ASSUME NEW n \in 1..MaxSubmissions,
               \/ BeginAttempt(n) \/ AcsSendEndsBadly(n) \/ CompleteAttempt(n)
               \/ \E m \in Mails : Preflight(n, m)
               \/ \E code \in Answers \cup (IF prov = "cloudflare" THEN {400} ELSE {}) :
                     TransportSend(n, code)
        PROVE  EventInv'
    <3>1. /\ prov' = prov /\ report' = report /\ recorded' = recorded
          /\ suppression' = suppression /\ lifted' = lifted /\ contended' = contended
          /\ intake' = intake
      BY <2>1 DEF BeginAttempt, AcsSendEndsBadly, CompleteAttempt, Preflight, TransportSend
    <3>2. Monotone
      BY <3>1 DEF Monotone, WasPut, EventInv, EventTypes
    <3> QED BY <3>1, <3>2, OutsideKeeps
  <2>2. ASSUME NEW n \in 1..MaxSubmissions, NEW r \in Reports, NEW kind \in Kinds,
               ReportIsMade(r, kind, n)
        PROVE  EventInv'
    BY <2>2, ReportMadeKeeps
  <2>3. ASSUME NEW r \in Reports, Deliver(<<r>>) PROVE EventInv'
    <3>1. <<r>> \in Seq(Reports)
      OBVIOUS
    <3> QED BY <2>3, <3>1, DeliverKeeps
  <2>4. ASSUME NEW r \in Reports, NEW s \in Reports, Deliver(<<r, s>>) PROVE EventInv'
    <3>1. <<r, s>> \in Seq(Reports)
      OBVIOUS
    <3> QED BY <2>4, <3>1, DeliverKeeps
  <2>5. CASE CheckReport
    BY <2>5, CheckKeeps
  <2>6. CASE ApplyReport
    BY <2>6, ApplyKeeps
  <2>7. CASE ApplyConflicts \/ StoreFails
    BY <2>7, StoreErrorKeeps
  <2>8. CASE PutSuppression
    BY <2>8, PutKeeps
  <2>9. CASE RemoveSuppression
    <3>1. /\ prov' = prov /\ report' = report /\ recorded' = recorded
          /\ contended' = contended /\ intake' = intake /\ lifted'
      BY <2>9 DEF RemoveSuppression
    <3>2. Monotone
      BY <3>1 DEF Monotone, WasPut, EventInv, EventTypes
    <3> QED BY <3>1, <3>2, OutsideKeeps
  <2>10. CASE UNCHANGED evVars
    <3>1. /\ prov' = prov /\ report' = report /\ recorded' = recorded
          /\ suppression' = suppression /\ lifted' = lifted /\ contended' = contended
          /\ intake' = intake
      BY <2>10 DEF evVars
    <3>2. Monotone
      BY <3>1 DEF Monotone, WasPut, EventInv, EventTypes
    <3> QED BY <3>1, <3>2, OutsideKeeps
  <2> QED BY <2>1, <2>2, <2>3, <2>4, <2>5, <2>6, <2>7, <2>8, <2>9, <2>10 DEF EvNext
<1> QED BY <1>1, <1>2, PTL DEF EvSpec

\* A report that was acknowledged is in the ledger and on the suppression list,
\* for any reports, attempts, redeliveries and store errors.
THEOREM AcknowledgedIsRecordedHolds == EvSpec => []AcknowledgedIsRecorded
<1>1. EventInv => AcknowledgedIsRecorded
  BY DEF EventInv, IntakeHolds, Settled, Settles, WasPut, AcknowledgedIsRecorded, Suppresses
<1> QED BY <1>1, EventInvariant, PTL

-----------------------------------------------------------------------------
(* The proof scripts: what their evidence says is so.                       *)

ScriptSteps(kind) ==
    IF kind = "hosted"
      THEN {"start", "baseline", "health", "create", "first", "second", "initial", "delayed",
            "advance", "wait", "final", "clean", "verify", "discover", "end", "over"}
    ELSE IF kind = "seed"
      THEN {"start", "baseline", "health", "upload", "create", "first", "second", "initial",
            "snapshot", "clean", "verify", "unlist", "end", "over"}
    ELSE {"start", "health", "snapshot", "advance", "wait", "final", "clean", "verify",
          "unlist", "end", "over"}

AllSteps ==
    {"start", "baseline", "health", "upload", "create", "first", "second", "initial", "delayed",
     "snapshot", "advance", "wait", "final", "clean", "verify", "discover", "unlist", "end",
     "over"}

Scripts ==
    [kind : {"hosted", "seed", "restore"}, retain : BOOLEAN, step : AllSteps,
     known : SUBSET {"email", "outbox", "upload"}, attempted : BOOLEAN,
     failure : {"none", "failed", "refused", "residue", "closing"}]

FixtureRows == {"email", "upload", "wakeup", "send", "stray"}

Fixtures ==
    [mail : {"none", "scheduled", "due", "sent", "failed"},
     item : {"none", "pending", "dispatched"} \cup OutboxSweepers,
     job : {"none", "ready", "processed", "done"}]

ProofTypes ==
    /\ proof \in Scripts
    /\ rows \subseteq FixtureRows
    /\ creating \in {"none", "received", "committed", "answered"}
    /\ fixture \in Fixtures
    /\ sweeping \in [OutboxSweepers -> {"idle", "publish", "acknowledge"}]
    /\ damaged \subseteq {"email", "upload", "wakeup", "object"}
    /\ "stray" \in rows => "stray" \in late

\* What a script has learned by its place in it.
ScriptHolds(p) ==
    /\ p.step \in ScriptSteps(p.kind)
    /\ p.step \notin {"clean", "verify", "discover", "unlist", "end", "over"} =>
         p.failure = "none"
    /\ p.kind = "hosted" =>
         /\ "upload" \notin p.known
         /\ p.step \in {"start", "baseline", "health", "create"} => ~p.attempted
         /\ p.step \in {"start", "baseline", "health", "create", "first", "discover"} =>
              "email" \notin p.known
         /\ p.step \in {"first", "discover"} => p.attempted
         /\ p.step \in {"second", "initial", "delayed", "advance", "wait", "final", "clean",
                        "verify"} => "email" \in p.known
         /\ p.step = "verify" => "outbox" \in p.known
    /\ p.kind = "seed" =>
         /\ p.retain
         /\ p.step \in {"start", "baseline", "health", "upload"} => p.known = {}
         /\ p.step \in {"create", "first"} => p.known = {"upload"}
         /\ p.step \in {"second", "initial"} => p.known = {"upload", "email"}
         /\ p.step \in {"snapshot", "clean", "verify"} => p.known = {"upload", "email", "outbox"}
         /\ p.step = "unlist" => "upload" \in p.known
         /\ "outbox" \in p.known => "upload" \in p.known
    /\ p.kind = "restore" => p.known = {"email", "outbox", "upload"} /\ ~p.retain

\* Rows the script answers for.
Own == rows \ late

\* Until it cleans up, everything the script answers for hangs on the e-mail,
\* and an e-mail it knows is there.
BeforeCleaning ==
    proof.kind # "restore" /\ proof.step \notin {"verify", "unlist", "end", "over"} =>
      /\ "email" \notin rows =>
           /\ fixture.mail = "none" /\ fixture.item = "none"
           /\ creating \in {"none", "received"}
           /\ \A w \in OutboxSweepers : sweeping[w] = "idle"
           /\ Own \subseteq {"upload"}
      /\ "email" \in proof.known => "email" \in rows
      /\ proof.step \in {"start", "baseline", "health", "upload", "create"} =>
           "email" \notin rows /\ creating = "none"

\* What the cleanup has verified, and what is left in the end.
AfterCleaning ==
    /\ proof.step = "unlist" /\ "outbox" \in proof.known => Own \subseteq {"upload"}
    /\ proof.step \in {"end", "over"} =>
         proof.failure \in {"refused", "residue"} \/ Retained \/ Own \subseteq Unidentified

\* Only the first script uploads nothing, and only after the seed is anything sent.
KindHolds ==
    /\ proof.kind = "hosted" => "upload" \notin rows
    /\ proof.kind = "seed" => fixture.mail \in {"none", "scheduled"}

\* What a backup lost stays lost, and is met before a verification succeeds.
LossIsMet ==
    proof.kind = "restore" =>
      /\ creating = "none"
      /\ rows \cap damaged = {}
      /\ fixture.mail = "sent" => "object" \notin damaged
      /\ proof.failure = "none" /\ proof.step \in {"advance", "wait"} => damaged \subseteq {"object"}
      /\ proof.failure = "none"
         /\ proof.step \in {"final", "clean", "verify", "unlist", "end", "over"} => damaged = {}

ProofInv ==
    ProofTypes /\ ScriptHolds(proof) /\ BeforeCleaning /\ AfterCleaning /\ KindHolds /\ LossIsMet

\* Where a script goes by a step, and what it knows and reports then.
Goes(p, q, step, failure, known, attempted) ==
    /\ q \in Scripts
    /\ q.kind = p.kind /\ q.retain = p.retain
    /\ q.step = step /\ q.failure = failure /\ q.known = known /\ q.attempted = attempted

Known == SUBSET {"email", "outbox", "upload"}
Failures == {"none", "failed", "refused", "residue", "closing"}

\* A script that only continues.
LEMMA OnlyStep ==
    ASSUME NEW p \in Scripts, NEW s \in AllSteps, NEW q, q = [p EXCEPT !.step = s]
    PROVE  Goes(p, q, s, p.failure, p.known, p.attempted)
<1>1. q \in Scripts BY DEF Scripts
<1>2. q.kind = p.kind /\ q.retain = p.retain /\ q.step = s /\ q.failure = p.failure
      /\ q.known = p.known /\ q.attempted = p.attempted
  BY DEF Scripts
<1> QED BY <1>1, <1>2 DEF Goes

\* A script that ends up somewhere with a failure.
LEMMA FailureAndStep ==
    ASSUME NEW p \in Scripts, NEW s \in AllSteps, NEW f \in Failures, NEW q,
           q = [p EXCEPT !.failure = f, !.step = s]
    PROVE  Goes(p, q, s, f, p.known, p.attempted)
<1>1. PICK r : r = [p EXCEPT !.failure = f]
  OBVIOUS
<1>2. r \in Scripts /\ r.kind = p.kind /\ r.retain = p.retain /\ r.step = p.step
      /\ r.failure = f /\ r.known = p.known /\ r.attempted = p.attempted
  BY <1>1 DEF Scripts, Failures
<1>3. q = [r EXCEPT !.step = s]
  BY <1>1
<1>4. Goes(r, q, s, r.failure, r.known, r.attempted)
  BY <1>2, <1>3, OnlyStep
<1> QED BY <1>2, <1>4 DEF Goes

\* The same, written in the other order.
LEMMA StepAndFailure ==
    ASSUME NEW p \in Scripts, NEW s \in AllSteps, NEW f \in Failures, NEW q,
           q = [p EXCEPT !.step = s, !.failure = f]
    PROVE  Goes(p, q, s, f, p.known, p.attempted)
<1>1. PICK r : r = [p EXCEPT !.step = s]
  OBVIOUS
<1>2. Goes(p, r, s, p.failure, p.known, p.attempted)
  BY <1>1, OnlyStep
<1>3. q = [r EXCEPT !.failure = f]
  BY <1>1
<1>4. q \in Scripts /\ q.kind = r.kind /\ q.retain = r.retain /\ q.step = r.step
      /\ q.failure = f /\ q.known = r.known /\ q.attempted = r.attempted
  BY <1>2, <1>3 DEF Scripts, Goes, Failures
<1> QED BY <1>2, <1>4 DEF Goes

\* A script that goes on with what it has learned.
LEMMA StepAndKnown ==
    ASSUME NEW p \in Scripts, NEW s \in AllSteps, NEW k \in Known, NEW q,
           \/ q = [p EXCEPT !.step = s, !.known = k]
           \/ q = [p EXCEPT !.known = k, !.step = s]
    PROVE  Goes(p, q, s, p.failure, k, p.attempted)
<1>1. PICK r : r = [p EXCEPT !.known = k]
  OBVIOUS
<1>2. r \in Scripts /\ r.kind = p.kind /\ r.retain = p.retain /\ r.step = p.step
      /\ r.failure = p.failure /\ r.known = k /\ r.attempted = p.attempted
  BY <1>1 DEF Scripts, Known
<1>3. CASE q = [p EXCEPT !.known = k, !.step = s]
  <2>1. q = [r EXCEPT !.step = s]
    BY <1>1, <1>3
  <2> QED BY <1>2, <2>1, OnlyStep DEF Goes
<1>4. CASE q = [p EXCEPT !.step = s, !.known = k]
  <2>1. PICK t : t = [p EXCEPT !.step = s]
    OBVIOUS
  <2>2. Goes(p, t, s, p.failure, p.known, p.attempted)
    BY <2>1, OnlyStep
  <2>3. q = [t EXCEPT !.known = k]
    BY <2>1, <1>4
  <2>4. q \in Scripts /\ q.kind = t.kind /\ q.retain = t.retain /\ q.step = t.step
        /\ q.failure = t.failure /\ q.known = k /\ q.attempted = t.attempted
    BY <2>2, <2>3 DEF Scripts, Goes, Known
  <2> QED BY <2>2, <2>4 DEF Goes
<1> QED BY <1>3, <1>4

\* A script that has sent its request.
LEMMA StepAndAttempted ==
    ASSUME NEW p \in Scripts, NEW s \in AllSteps, NEW q,
           q = [p EXCEPT !.step = s, !.attempted = TRUE]
    PROVE  Goes(p, q, s, p.failure, p.known, TRUE)
<1>1. PICK r : r = [p EXCEPT !.step = s]
  OBVIOUS
<1>2. Goes(p, r, s, p.failure, p.known, p.attempted)
  BY <1>1, OnlyStep
<1>3. q = [r EXCEPT !.attempted = TRUE]
  BY <1>1
<1>4. q \in Scripts /\ q.kind = r.kind /\ q.retain = r.retain /\ q.step = r.step
      /\ q.failure = r.failure /\ q.known = r.known /\ (q.attempted <=> TRUE)
  BY <1>2, <1>3 DEF Scripts, Goes
<1>5. q.attempted = TRUE
  BY <1>4 DEF Scripts
<1> QED BY <1>2, <1>4, <1>5 DEF Goes

\* The step of a script that goes on as the script prescribes.
LEMMA ContinueIs ==
    ASSUME NEW s \in AllSteps, proof \in Scripts, Continue(s)
    PROVE  Goes(proof, proof', s, proof.failure, proof.known, proof.attempted)
BY OnlyStep DEF Continue

\* The step of a script that fails.
LEMMA FailIs ==
    ASSUME proof \in Scripts, Fail
    PROVE  Goes(proof, proof', StepAfterFailure, "failed", proof.known, proof.attempted)
<1>1. StepAfterFailure \in AllSteps
  BY DEF StepAfterFailure, AllSteps
<1> QED BY <1>1, FailureAndStep DEF Fail, Failures

\* The step of a script whose cleanup fails.
LEMMA CleanupFailsIs ==
    ASSUME proof \in Scripts, CleanupFails
    PROVE  Goes(proof, proof', "end", "residue", proof.known, proof.attempted)
<1>1. "end" \in AllSteps /\ "residue" \in Failures
  BY DEF AllSteps, Failures
<1> QED BY <1>1, FailureAndStep DEF CleanupFails

\* Steps in which a script checks or asks for something that may fail.
Failing ==
    {"baseline", "health", "upload", "first", "second", "initial", "delayed", "snapshot",
     "advance", "wait", "final"}

\* A failing script has learned enough to delete what it answers for, or has
\* created nothing, or reports less than it knows of.
LEMMA FailKeeps ==
    ASSUME ProofInv, Fail, proof.step \in Failing,
           rows' = rows \/ (proof.step = "upload" /\ rows' = rows \cup {"upload"}),
           UNCHANGED <<fixture, creating, sweeping, damaged, late>>
    PROVE  ProofInv'
<1>1. proof \in Scripts
  BY DEF ProofInv, ProofTypes
<1>2. Goes(proof, proof', StepAfterFailure, "failed", proof.known, proof.attempted)
  BY <1>1, FailIs
<1>3. /\ proof' \in Scripts
      /\ proof'.kind = proof.kind /\ proof'.retain = proof.retain
      /\ proof'.step = StepAfterFailure /\ proof'.failure = "failed"
      /\ proof'.known = proof.known /\ proof'.attempted = proof.attempted
  BY <1>2 DEF Goes
<1>4. ProofTypes'
  BY <1>3 DEF ProofInv, ProofTypes, FixtureRows
<1>5. proof.kind \in {"hosted", "seed", "restore"} /\ proof.known \in Known
      /\ proof.attempted \in BOOLEAN
  BY <1>1 DEF Scripts, Known
<1>6. proof.step = "upload" => proof.kind = "seed"
  BY <1>5 DEF ProofInv, ScriptHolds, ScriptSteps
<1>7. KindHolds'
  BY <1>3, <1>6 DEF ProofInv, KindHolds
<1>8. LossIsMet'
  BY <1>3, <1>6 DEF ProofInv, LossIsMet
<1>9. CASE proof.kind = "hosted"
  <2>1. /\ rows' = rows /\ Own' = Own
        /\ proof.step \in Failing \ {"upload"}
        /\ StepAfterFailure = (IF "email" \in proof.known THEN "clean"
                               ELSE IF proof.attempted THEN "discover" ELSE "end")
    BY <1>6, <1>9 DEF StepAfterFailure, Own
  <2>2. ScriptHolds(proof')
    BY <1>3, <1>5, <1>9, <2>1 DEF ProofInv, ScriptHolds, ScriptSteps, Failing
  <2>3. BeforeCleaning'
    BY <1>3, <1>5, <1>9, <2>1 DEF ProofInv, ScriptHolds, BeforeCleaning, Failing
  <2>4. proof'.step = "end" => Own \subseteq {}
    <3> SUFFICES ASSUME proof'.step = "end" PROVE Own \subseteq {}
      OBVIOUS
    <3>1. "email" \notin proof.known /\ ~proof.attempted
      BY <1>3, <1>5, <2>1
    <3>2. proof.step \in {"baseline", "health"}
      BY <1>9, <2>1, <3>1 DEF ProofInv, ScriptHolds, ScriptSteps, Failing
    <3>3. "email" \notin rows
      BY <1>9, <3>2 DEF ProofInv, BeforeCleaning
    <3>4. Own \subseteq {"upload"}
      BY <1>9, <3>2, <3>3 DEF ProofInv, BeforeCleaning
    <3> QED BY <1>9, <3>4 DEF ProofInv, KindHolds, Own
  <2>5. AfterCleaning'
    BY <1>3, <1>9, <2>1, <2>4 DEF AfterCleaning
  <2> QED BY <1>4, <1>7, <1>8, <2>2, <2>3, <2>5 DEF ProofInv
<1>10. CASE proof.kind = "seed"
  <2>1. StepAfterFailure =
          (IF "outbox" \notin proof.known
             THEN IF proof.known \in {{"upload"}, {"upload", "email"}} THEN "unlist" ELSE "end"
             ELSE "clean")
    BY <1>10 DEF StepAfterFailure
  <2>2. /\ proof.step \in {"baseline", "health", "upload"} => proof.known = {}
        /\ proof.step = "first" => proof.known = {"upload"}
        /\ proof.step \in {"second", "initial"} => proof.known = {"upload", "email"}
        /\ proof.step = "snapshot" => proof.known = {"upload", "email", "outbox"}
        /\ proof.step \in {"baseline", "health", "upload", "first", "second", "initial",
                           "snapshot"}
    BY <1>10 DEF ProofInv, ScriptHolds, ScriptSteps, Failing
  <2>3. ScriptHolds(proof')
    BY <1>3, <1>5, <1>10, <2>1, <2>2 DEF ProofInv, ScriptHolds, ScriptSteps
  <2>4. BeforeCleaning'
    BY <1>3, <1>5, <1>10, <2>1, <2>2 DEF ProofInv, BeforeCleaning
  <2>5. AfterCleaning'
    <3>1. proof'.step # "over" /\ (proof'.step = "unlist" => "outbox" \notin proof.known)
      BY <1>3, <2>1
    <3>2. proof'.step = "end" => proof.step \in {"baseline", "health", "upload"}
      BY <1>3, <2>1, <2>2
    <3>3. proof.step \in {"baseline", "health", "upload"} =>
            "email" \notin rows /\ Own \subseteq {"upload"} /\ proof.known = {}
      BY <1>10, <2>2 DEF ProofInv, BeforeCleaning
    <3>4. proof.step \in {"baseline", "health", "upload"} => Own' \subseteq {"upload"}
      BY <3>3 DEF Own
    <3>5. proof'.step = "end" => Own' \subseteq Unidentified'
      BY <1>3, <1>10, <3>2, <3>3, <3>4 DEF Unidentified
    <3> QED BY <1>3, <3>1, <3>5 DEF AfterCleaning
  <2> QED BY <1>4, <1>7, <1>8, <2>3, <2>4, <2>5 DEF ProofInv
<1>11. CASE proof.kind = "restore"
  <2>1. StepAfterFailure = "clean" /\ proof'.step = "clean"
    BY <1>3, <1>11 DEF StepAfterFailure
  <2>2. ScriptHolds(proof')
    BY <1>3, <1>5, <1>11, <2>1 DEF ProofInv, ScriptHolds, ScriptSteps
  <2>3. BeforeCleaning'
    BY <1>3, <1>11 DEF BeforeCleaning
  <2>4. AfterCleaning'
    BY <2>1 DEF AfterCleaning
  <2> QED BY <1>4, <1>7, <1>8, <2>2, <2>3, <2>4 DEF ProofInv
<1> QED BY <1>5, <1>9, <1>10, <1>11

\* A cleanup that fails says so, and nothing is promised of it.
LEMMA CleanupFailsKeeps ==
    ASSUME ProofInv, CleanupFails, proof.step \in {"discover", "clean", "verify", "unlist"},
           UNCHANGED <<rows, fixture, creating, sweeping, damaged, late>>
    PROVE  ProofInv'
<1>1. proof \in Scripts
  BY DEF ProofInv, ProofTypes
<1>2. Goes(proof, proof', "end", "residue", proof.known, proof.attempted)
  BY <1>1, CleanupFailsIs
<1>3. /\ proof' \in Scripts
      /\ proof'.kind = proof.kind /\ proof'.retain = proof.retain
      /\ proof'.step = "end" /\ proof'.failure = "residue"
      /\ proof'.known = proof.known /\ proof'.attempted = proof.attempted
  BY <1>2 DEF Goes
<1>4. ProofTypes'
  BY <1>3 DEF ProofInv, ProofTypes
<1>5. ScriptHolds(proof')
  <2>1. proof.kind \in {"hosted", "seed", "restore"}
    BY <1>1 DEF Scripts
  <2> QED BY <1>3, <2>1 DEF ProofInv, ScriptHolds, ScriptSteps
<1>6. BeforeCleaning'
  BY <1>3 DEF BeforeCleaning
<1>7. AfterCleaning'
  BY <1>3 DEF AfterCleaning
<1>8. KindHolds'
  BY <1>3 DEF ProofInv, KindHolds
<1>9. LossIsMet'
  BY <1>3 DEF ProofInv, LossIsMet
<1> QED BY <1>4, <1>5, <1>6, <1>7, <1>8, <1>9 DEF ProofInv

\* What a step of the script has to show when only the script moves on and it
\* has not failed before: the places it may be in, and what it checked.
LEMMA MovesOn ==
    ASSUME ProofInv, NEW s, NEW k,
           Goes(proof, proof', s, "none", k, proof.attempted),
           proof.failure = "none",
           proof.step \in Failing \cup {"start"},
           k \in {proof.known, proof.known \cup {"email"}, proof.known \cup {"outbox"}},
           "email" \in k => "email" \in rows \/ proof.kind = "restore",
           s \in Failing \/ s \in {"create", "clean"} \/ (s = "end" /\ proof.retain),
           s = "baseline" => proof.kind # "restore",
           s \in {"baseline", "health", "upload", "create"} => proof.step \in {"start", "baseline", "health"},
           UNCHANGED <<rows, fixture, sweeping, damaged, late>>,
           \/ creating' = creating
           \/ creating' \in {"none", "received"} /\ creating = "answered"
              /\ s \in {"second", "initial"},
           ScriptHolds(proof'),
           proof.kind = "restore" =>
             /\ creating' = creating
             /\ s \in {"advance", "wait"} => damaged \subseteq {"object"}
             /\ s \in {"final", "clean", "verify", "unlist", "end", "over"} => damaged = {}
    PROVE  ProofInv'
<1>1. /\ proof' \in Scripts
      /\ proof'.kind = proof.kind /\ proof'.retain = proof.retain
      /\ proof'.step = s /\ proof'.failure = "none"
      /\ proof'.known = k /\ proof'.attempted = proof.attempted
  BY DEF Goes
<1>2. ProofTypes'
  BY <1>1 DEF ProofInv, ProofTypes
<1>3. KindHolds'
  BY <1>1 DEF ProofInv, KindHolds
<1>4. LossIsMet'
  BY <1>1 DEF ProofInv, LossIsMet
<1>5. AfterCleaning'
  BY <1>1 DEF AfterCleaning, Retained, Failing
<1>6. BeforeCleaning'
  <2> SUFFICES ASSUME proof.kind # "restore", s \notin {"verify", "unlist", "end", "over"}
               PROVE  BeforeCleaning'
    BY <1>1 DEF BeforeCleaning
  <2>1. Own' = Own
    BY DEF Own
  <2>2. "email" \notin rows => creating' = creating
    BY DEF ProofInv, BeforeCleaning, Failing
  <2> QED BY <1>1, <2>1, <2>2 DEF ProofInv, BeforeCleaning, Failing
<1> QED BY <1>2, <1>3, <1>4, <1>5, <1>6 DEF ProofInv

\* The options of a script are accepted, or it ends before it has begun.
LEMMA ValidateKeeps ==
    ASSUME ProofInv, validateOptions
    PROVE  ProofInv'
<1>1. /\ proof \in Scripts /\ proof.step = "start" /\ proof.failure = "none"
      /\ UNCHANGED <<rows, fixture, creating, sweeping, damaged, late>>
      /\ proof.kind \in {"hosted", "seed", "restore"}
  BY DEF validateOptions, AtStep, ProofInv, ProofTypes, ScriptHolds, Scripts
<1>2. CASE Continue(IF proof.kind = "restore" THEN "health" ELSE "baseline")
  <2>1. PICK s : s = (IF proof.kind = "restore" THEN "health" ELSE "baseline")
    OBVIOUS
  <2>2. s \in {"health", "baseline"} /\ s \in AllSteps /\ s \in Failing
        /\ (s = "baseline" <=> proof.kind # "restore")
    BY <2>1 DEF AllSteps, Failing
  <2>3. Goes(proof, proof', s, "none", proof.known, proof.attempted)
    BY <1>1, <1>2, <2>1, <2>2, ContinueIs
  <2>4. ScriptHolds(proof')
    BY <1>1, <2>2, <2>3 DEF Goes, ProofInv, ScriptHolds, ScriptSteps
  <2>5. "email" \in proof.known => "email" \in rows \/ proof.kind = "restore"
    BY <1>1 DEF ProofInv, BeforeCleaning
  <2> QED BY <1>1, <2>2, <2>3, <2>4, <2>5, MovesOn DEF Failing
<1>3. CASE proof' = [proof EXCEPT !.failure = "refused", !.step = "over"]
  <2>1. "over" \in AllSteps /\ "refused" \in Failures
    BY DEF AllSteps, Failures
  <2>2. Goes(proof, proof', "over", "refused", proof.known, proof.attempted)
    BY <1>1, <1>3, <2>1, FailureAndStep
  <2>3. /\ proof' \in Scripts
        /\ proof'.kind = proof.kind /\ proof'.retain = proof.retain
        /\ proof'.step = "over" /\ proof'.failure = "refused"
        /\ proof'.known = proof.known /\ proof'.attempted = proof.attempted
    BY <2>2 DEF Goes
  <2>4. ProofTypes'
    BY <1>1, <2>3 DEF ProofInv, ProofTypes
  <2>5. ScriptHolds(proof')
    BY <1>1, <2>3 DEF ProofInv, ScriptHolds, ScriptSteps
  <2>6. BeforeCleaning' /\ AfterCleaning'
    BY <2>3 DEF BeforeCleaning, AfterCleaning
  <2>7. KindHolds' /\ LossIsMet'
    BY <1>1, <2>3 DEF ProofInv, KindHolds, LossIsMet
  <2> QED BY <2>4, <2>5, <2>6, <2>7 DEF ProofInv
<1> QED BY <1>2, <1>3 DEF validateOptions

\* The baseline is empty, or the proof does not begin.
LEMMA BaselineKeeps ==
    ASSUME ProofInv, assertEmptyBaseline
    PROVE  ProofInv'
<1>1. Checks("baseline", rows = {}, Continue("health"))
  BY DEF assertEmptyBaseline
<1>2. /\ proof.step = "baseline"
      /\ UNCHANGED <<rows, fixture, creating, sweeping, damaged, late>>
      /\ (Continue("health") \/ Fail)
  BY <1>1 DEF Checks, AtStep, FailsUnless
<1>3. Fail => ProofInv'
  BY <1>2, FailKeeps DEF Failing
<1>4. /\ proof \in Scripts /\ proof.failure = "none" /\ "health" \in AllSteps
      /\ proof.kind \in {"hosted", "seed"}
  BY <1>2 DEF ProofInv, ProofTypes, ScriptHolds, ScriptSteps, Scripts, AllSteps
<1>5. CASE Continue("health")
  <2>1. Goes(proof, proof', "health", "none", proof.known, proof.attempted)
    BY <1>4, <1>5, ContinueIs
  <2>2. ScriptHolds(proof')
    BY <1>2, <1>4, <2>1 DEF Goes, ProofInv, ScriptHolds, ScriptSteps
  <2>3. "email" \in proof.known => "email" \in rows
    BY <1>2, <1>4 DEF ProofInv, BeforeCleaning
  <2> QED BY <1>2, <1>4, <2>1, <2>2, <2>3, MovesOn DEF Failing
<1> QED BY <1>2, <1>3, <1>5

\* The deployment answers its health check, or the proof fails.
LEMMA HealthKeeps ==
    ASSUME ProofInv, healthCheck
    PROVE  ProofInv'
<1> DEFINE to == IF proof.kind = "hosted" THEN "create"
                 ELSE IF proof.kind = "seed" THEN "upload" ELSE "snapshot"
<1>1. PICK s : s = to
  OBVIOUS
<1>2. /\ proof.step = "health"
      /\ UNCHANGED <<rows, fixture, creating, sweeping, damaged, late>>
      /\ (Continue(s) \/ Fail)
  BY <1>1 DEF healthCheck, Checks, AtStep, FailsUnless
<1>3. Fail => ProofInv'
  BY <1>2, FailKeeps DEF Failing
<1>4. /\ proof \in Scripts /\ proof.failure = "none"
      /\ proof.kind \in {"hosted", "seed", "restore"}
  BY <1>2 DEF ProofInv, ProofTypes, ScriptHolds, ScriptSteps, Scripts
<1>5. /\ s \in {"create", "upload", "snapshot"} /\ s \in AllSteps
      /\ (s = "create" <=> proof.kind = "hosted") /\ (s = "upload" <=> proof.kind = "seed")
      /\ (s = "snapshot" <=> proof.kind = "restore")
  BY <1>1, <1>4 DEF AllSteps
<1>6. CASE Continue(s)
  <2>1. Goes(proof, proof', s, "none", proof.known, proof.attempted)
    BY <1>4, <1>5, <1>6, ContinueIs
  <2>2. ScriptHolds(proof')
    BY <1>2, <1>4, <1>5, <2>1 DEF Goes, ProofInv, ScriptHolds, ScriptSteps
  <2>3. "email" \in proof.known => "email" \in rows \/ proof.kind = "restore"
    BY <1>2, <1>4 DEF ProofInv, BeforeCleaning
  <2>4. s \in Failing \/ s \in {"create", "clean"}
    BY <1>5 DEF Failing
  <2> QED BY <1>2, <1>4, <1>5, <2>1, <2>2, <2>3, <2>4, MovesOn DEF Failing
<1> QED BY <1>2, <1>3, <1>6

\* The upload is registered, and known when its content is stored as well.
LEMMA UploadKeeps ==
    ASSUME ProofInv, uploadLocalAttachments
    PROVE  ProofInv'
<1>1. /\ proof.step = "upload" /\ UNCHANGED <<fixture, creating, sweeping, damaged, late>>
  BY DEF uploadLocalAttachments, AtStep
<1>2. CASE rows' \in {rows, rows \cup {"upload"}} /\ Fail
  BY <1>1, <1>2, FailKeeps DEF Failing
<1>3. CASE /\ rows' = rows \cup {"upload"}
           /\ proof' = [proof EXCEPT !.step = "create", !.known = @ \cup {"upload"}]
  <2>1. /\ proof \in Scripts /\ proof.failure = "none" /\ proof.kind = "seed"
        /\ proof.known = {} /\ "create" \in AllSteps /\ proof.retain
    BY <1>1 DEF ProofInv, ProofTypes, ScriptHolds, ScriptSteps, Scripts, AllSteps
  <2>2. PICK k : k = proof.known \cup {"upload"}
    OBVIOUS
  <2>3. k = {"upload"} /\ k \in Known
    BY <2>1, <2>2 DEF Known
  <2>4. Goes(proof, proof', "create", "none", k, proof.attempted)
    <3>0. proof' = [proof EXCEPT !.step = "create", !.known = k]
      BY <1>3, <2>2
    <3>1. proof \in Scripts /\ "create" \in AllSteps /\ k \in Known /\ proof.failure = "none"
      BY <2>1, <2>3
    <3> QED BY <3>0, <3>1, StepAndKnown
  <2>5. /\ proof' \in Scripts
        /\ proof'.kind = "seed" /\ proof'.retain = proof.retain
        /\ proof'.step = "create" /\ proof'.failure = "none"
        /\ proof'.known = {"upload"} /\ proof'.attempted = proof.attempted
    BY <2>1, <2>3, <2>4 DEF Goes
  <2>6. ProofTypes'
    BY <1>1, <1>3, <2>5 DEF ProofInv, ProofTypes, FixtureRows
  <2>7. ScriptHolds(proof')
    BY <2>1, <2>5 DEF ScriptHolds, ScriptSteps
  <2>8. BeforeCleaning'
    <3>1. /\ "email" \notin rows /\ creating = "none" /\ Own \subseteq {"upload"}
          /\ fixture.mail = "none" /\ fixture.item = "none"
          /\ \A w \in OutboxSweepers : sweeping[w] = "idle"
      BY <1>1, <2>1 DEF ProofInv, BeforeCleaning
    <3>2. "email" \notin rows' /\ Own' \subseteq {"upload"}
      BY <1>1, <1>3, <3>1 DEF Own
    <3> QED BY <1>1, <2>5, <3>1, <3>2 DEF BeforeCleaning
  <2>9. AfterCleaning'
    BY <2>5 DEF AfterCleaning
  <2>10. KindHolds' /\ LossIsMet'
    BY <1>1, <2>1, <2>5 DEF ProofInv, KindHolds, LossIsMet
  <2> QED BY <2>6, <2>7, <2>8, <2>9, <2>10 DEF ProofInv
<1> QED BY <1>2, <1>3 DEF uploadLocalAttachments

\* The request to create the fixture is sent.
LEMMA PostKeeps ==
    ASSUME ProofInv, postEmail
    PROVE  ProofInv'
<1>1. /\ proof.step = "create" /\ UNCHANGED <<rows, fixture, sweeping, damaged, late>>
      /\ creating' = "received"
      /\ proof' = [proof EXCEPT !.step = "first", !.attempted = TRUE]
  BY DEF postEmail, AtStep
<1>2. /\ proof \in Scripts /\ proof.failure = "none" /\ proof.kind \in {"hosted", "seed"}
      /\ "first" \in AllSteps
  BY <1>1 DEF ProofInv, ProofTypes, ScriptHolds, ScriptSteps, Scripts, AllSteps
<1>3. Goes(proof, proof', "first", "none", proof.known, TRUE)
  BY <1>1, <1>2, StepAndAttempted
<1>4. /\ proof' \in Scripts
      /\ proof'.kind = proof.kind /\ proof'.retain = proof.retain
      /\ proof'.step = "first" /\ proof'.failure = "none"
      /\ proof'.known = proof.known /\ proof'.attempted = TRUE
  BY <1>3 DEF Goes
<1>5. ProofTypes'
  BY <1>1, <1>4 DEF ProofInv, ProofTypes
<1>6. ScriptHolds(proof')
  BY <1>1, <1>2, <1>4 DEF ProofInv, ScriptHolds, ScriptSteps
<1>7. BeforeCleaning'
  <2>1. Own' = Own
    BY <1>1 DEF Own
  <2> QED BY <1>1, <1>2, <1>4, <2>1 DEF ProofInv, BeforeCleaning
<1>8. AfterCleaning' /\ KindHolds' /\ LossIsMet'
  BY <1>1, <1>2, <1>4 DEF ProofInv, AfterCleaning, KindHolds, LossIsMet
<1> QED BY <1>5, <1>6, <1>7, <1>8 DEF ProofInv

\* The first answer names the e-mail, which is there.
LEMMA ReplayKeeps ==
    ASSUME ProofInv, replayEmail
    PROVE  ProofInv'
<1>1. /\ proof.step = "first" /\ UNCHANGED <<rows, fixture, sweeping, damaged, late>>
      /\ creating = "answered" /\ creating' = "received"
      /\ proof' = [proof EXCEPT !.step = "second", !.known = @ \cup {"email"}]
  BY DEF replayEmail, AtStep
<1>2. /\ proof \in Scripts /\ proof.failure = "none" /\ proof.kind \in {"hosted", "seed"}
      /\ "second" \in AllSteps
  BY <1>1 DEF ProofInv, ProofTypes, ScriptHolds, ScriptSteps, Scripts, AllSteps
<1>3. "email" \in rows
  BY <1>1, <1>2 DEF ProofInv, BeforeCleaning
<1>4. PICK k : k = proof.known \cup {"email"}
  OBVIOUS
<1>5. k \in Known
  BY <1>2, <1>4 DEF Known, Scripts
<1>6. Goes(proof, proof', "second", "none", k, proof.attempted)
  BY <1>1, <1>2, <1>4, <1>5, StepAndKnown
<1>7. ScriptHolds(proof')
  BY <1>1, <1>2, <1>4, <1>6 DEF Goes, ProofInv, ScriptHolds, ScriptSteps
<1> QED BY <1>1, <1>2, <1>3, <1>4, <1>6, <1>7, MovesOn DEF Failing

\* The repeated request is answered from the stored response.
LEMMA ReplayAnsweredKeeps ==
    ASSUME ProofInv, replayAnswered
    PROVE  ProofInv'
<1>1. /\ proof.step = "second" /\ UNCHANGED <<rows, fixture, sweeping, damaged, late>>
      /\ creating = "answered" /\ creating' = "none" /\ Continue("initial")
  BY DEF replayAnswered, AtStep
<1>2. /\ proof \in Scripts /\ proof.failure = "none" /\ proof.kind \in {"hosted", "seed"}
      /\ "initial" \in AllSteps
  BY <1>1 DEF ProofInv, ProofTypes, ScriptHolds, ScriptSteps, Scripts, AllSteps
<1>3. "email" \in rows
  BY <1>1, <1>2 DEF ProofInv, BeforeCleaning
<1>4. Goes(proof, proof', "initial", "none", proof.known, proof.attempted)
  BY <1>1, <1>2, ContinueIs
<1>5. ScriptHolds(proof')
  BY <1>1, <1>2, <1>4 DEF Goes, ProofInv, ScriptHolds, ScriptSteps
<1> QED BY <1>1, <1>2, <1>3, <1>4, <1>5, MovesOn DEF Failing

\* A script that gives a request or the wait up fails.
LEMMA TimesOutKeeps ==
    ASSUME ProofInv, requestTimesOut \/ waitTimesOut
    PROVE  ProofInv'
<1>1. /\ proof.step \in {"first", "second", "wait"} /\ Fail
      /\ UNCHANGED <<rows, fixture, creating, sweeping, damaged, late>>
  BY DEF requestTimesOut, waitTimesOut, AtStep
<1> QED BY <1>1, FailKeeps DEF Failing

\* The created fixture is what was asked for, or the script fails.
LEMMA InitialKeeps ==
    ASSUME ProofInv, assertInitialFixture
    PROVE  ProofInv'
<1> DEFINE to == IF proof.kind = "seed" THEN "snapshot" ELSE "delayed"
<1>1. PICK s, k : s = to /\ k = proof.known \cup {"outbox"}
  OBVIOUS
<1>2. /\ proof.step = "initial"
      /\ UNCHANGED <<rows, fixture, creating, sweeping, damaged, late>>
      /\ \/ "email" \in rows /\ proof' = [proof EXCEPT !.known = k, !.step = s]
         \/ Fail
  BY <1>1 DEF assertInitialFixture, Checks, AtStep, FailsUnless
<1>3. Fail => ProofInv'
  BY <1>2, FailKeeps DEF Failing
<1>4. /\ proof \in Scripts /\ proof.failure = "none" /\ proof.kind \in {"hosted", "seed"}
      /\ s \in AllSteps /\ k \in Known /\ s \in {"snapshot", "delayed"}
      /\ (s = "snapshot" <=> proof.kind = "seed")
  BY <1>1, <1>2 DEF ProofInv, ProofTypes, ScriptHolds, ScriptSteps, Scripts, AllSteps, Known
<1>5. CASE "email" \in rows /\ proof' = [proof EXCEPT !.known = k, !.step = s]
  <2>1. Goes(proof, proof', s, "none", k, proof.attempted)
    BY <1>4, <1>5, StepAndKnown
  <2>2. ScriptHolds(proof')
    BY <1>1, <1>2, <1>4, <2>1 DEF Goes, ProofInv, ScriptHolds, ScriptSteps
  <2> QED BY <1>1, <1>2, <1>4, <1>5, <2>1, <2>2, MovesOn DEF Failing
<1> QED BY <1>2, <1>3, <1>5

\* The wake-up job is found, or the script fails.
LEMMA DelayedKeeps ==
    ASSUME ProofInv, delayedJobCount
    PROVE  ProofInv'
<1>1. /\ proof.step = "delayed"
      /\ UNCHANGED <<rows, fixture, creating, sweeping, damaged, late>>
      /\ Continue("advance") \/ Fail
  BY DEF delayedJobCount, Checks, AtStep, FailsUnless
<1>2. Fail => ProofInv'
  BY <1>1, FailKeeps DEF Failing
<1>3. /\ proof \in Scripts /\ proof.failure = "none" /\ proof.kind = "hosted"
      /\ "advance" \in AllSteps
  BY <1>1 DEF ProofInv, ProofTypes, ScriptHolds, ScriptSteps, Scripts, AllSteps
<1>4. CASE Continue("advance")
  <2>1. Goes(proof, proof', "advance", "none", proof.known, proof.attempted)
    BY <1>3, <1>4, ContinueIs
  <2>2. ScriptHolds(proof')
    BY <1>1, <1>3, <2>1 DEF Goes, ProofInv, ScriptHolds, ScriptSteps
  <2>3. "email" \in proof.known => "email" \in rows
    BY <1>1, <1>3 DEF ProofInv, BeforeCleaning
  <2> QED BY <1>1, <1>3, <2>1, <2>2, <2>3, MovesOn DEF Failing
<1> QED BY <1>1, <1>2, <1>4

\* The snapshot is complete, or the script fails: the seed ends with it, and the
\* restore goes on only if none of the fixture's rows was lost.
LEMMA SnapshotKeeps ==
    ASSUME ProofInv, fixtureSnapshot
    PROVE  ProofInv'
<1> DEFINE to == IF proof.kind = "seed" THEN "end" ELSE "advance"
<1>1. PICK s : s = to
  OBVIOUS
<1>2. /\ proof.step = "snapshot"
      /\ UNCHANGED <<rows, fixture, creating, sweeping, damaged, late>>
      /\ \/ {"email", "upload", "wakeup"} \subseteq rows /\ Continue(s)
         \/ Fail
  BY <1>1 DEF fixtureSnapshot, Checks, AtStep, FailsUnless
<1>3. Fail => ProofInv'
  BY <1>2, FailKeeps DEF Failing
<1>4. /\ proof \in Scripts /\ proof.failure = "none" /\ proof.kind \in {"restore", "seed"}
      /\ s \in AllSteps /\ s \in {"end", "advance"} /\ (s = "end" <=> proof.kind = "seed")
  BY <1>1, <1>2 DEF ProofInv, ProofTypes, ScriptHolds, ScriptSteps, Scripts, AllSteps
<1>5. CASE {"email", "upload", "wakeup"} \subseteq rows /\ Continue(s)
  <2>1. Goes(proof, proof', s, "none", proof.known, proof.attempted)
    BY <1>4, <1>5, ContinueIs
  <2>2. ScriptHolds(proof')
    BY <1>1, <1>2, <1>4, <2>1 DEF Goes, ProofInv, ScriptHolds, ScriptSteps
  <2>3. proof.kind = "restore" => damaged \subseteq {"object"}
    BY <1>5 DEF ProofInv, ProofTypes, LossIsMet
  <2>4. proof.kind = "seed" => proof.retain
    BY DEF ProofInv, ScriptHolds
  <2>5. s \in Failing \/ (s = "end" /\ proof.retain)
    BY <1>4, <2>4 DEF Failing
  <2> QED BY <1>2, <1>4, <1>5, <2>1, <2>2, <2>3, <2>5, MovesOn DEF Failing
<1> QED BY <1>2, <1>3, <1>5

\* The e-mail shows as sent, or the script fails; an e-mail that is sent had its
\* attachment.
LEMMA WaitKeeps ==
    ASSUME ProofInv, waitForSent
    PROVE  ProofInv'
<1>1. /\ proof.step = "wait"
      /\ UNCHANGED <<rows, fixture, creating, sweeping, damaged, late>>
      /\ (fixture.mail = "sent" /\ Continue("final")) \/ Fail
  BY DEF waitForSent, Checks, AtStep, FailsUnless
<1>2. Fail => ProofInv'
  BY <1>1, FailKeeps DEF Failing
<1>3. /\ proof \in Scripts /\ proof.failure = "none" /\ proof.kind \in {"hosted", "restore"}
      /\ "final" \in AllSteps
  BY <1>1 DEF ProofInv, ProofTypes, ScriptHolds, ScriptSteps, Scripts, AllSteps
<1>4. CASE fixture.mail = "sent" /\ Continue("final")
  <2>1. Goes(proof, proof', "final", "none", proof.known, proof.attempted)
    BY <1>3, <1>4, ContinueIs
  <2>2. ScriptHolds(proof')
    BY <1>1, <1>3, <2>1 DEF Goes, ProofInv, ScriptHolds, ScriptSteps
  <2>3. "email" \in proof.known => "email" \in rows \/ proof.kind = "restore"
    BY <1>1, <1>3 DEF ProofInv, BeforeCleaning
  <2>4. proof.kind = "restore" => damaged = {}
    BY <1>1, <1>3, <1>4 DEF ProofInv, LossIsMet
  <2> QED BY <1>1, <1>3, <2>1, <2>2, <2>3, <2>4, MovesOn DEF Failing
<1> QED BY <1>1, <1>2, <1>4

\* The fixture has ended as it should, or the script fails.
LEMMA FinalKeeps ==
    ASSUME ProofInv, assertFinalFixture
    PROVE  ProofInv'
<1> DEFINE to == IF proof.retain THEN "end" ELSE "clean"
<1>1. PICK s : s = to
  OBVIOUS
<1>2. /\ proof.step = "final"
      /\ UNCHANGED <<rows, fixture, creating, sweeping, damaged, late>>
      /\ Continue(s) \/ Fail
  BY <1>1 DEF assertFinalFixture, Checks, AtStep, FailsUnless
<1>3. Fail => ProofInv'
  BY <1>2, FailKeeps DEF Failing
<1>4. /\ proof \in Scripts /\ proof.failure = "none" /\ proof.kind \in {"hosted", "restore"}
      /\ s \in AllSteps /\ s \in {"end", "clean"} /\ (s = "end" <=> proof.retain)
  BY <1>1, <1>2 DEF ProofInv, ProofTypes, ScriptHolds, ScriptSteps, Scripts, AllSteps
<1>5. CASE Continue(s)
  <2>1. Goes(proof, proof', s, "none", proof.known, proof.attempted)
    BY <1>4, <1>5, ContinueIs
  <2>2. ScriptHolds(proof')
    BY <1>1, <1>2, <1>4, <2>1 DEF Goes, ProofInv, ScriptHolds, ScriptSteps
  <2>3. "email" \in proof.known => "email" \in rows \/ proof.kind = "restore"
    BY <1>2, <1>4 DEF ProofInv, BeforeCleaning
  <2>4. proof.kind = "restore" => damaged = {}
    BY <1>2, <1>4 DEF ProofInv, LossIsMet
  <2> QED BY <1>2, <1>4, <2>1, <2>2, <2>3, <2>4, MovesOn DEF Failing
<1> QED BY <1>2, <1>3, <1>5

MailStates == {"none", "scheduled", "due", "sent", "failed"}
Items == {"none", "pending", "dispatched"} \cup OutboxSweepers
Jobs == {"none", "ready", "processed", "done"}

\* Its outbox item moves, and nothing else.
LEMMA ItemIs ==
    ASSUME NEW f \in Fixtures, NEW x \in Items, NEW h, h = [f EXCEPT !.item = x]
    PROVE  h \in Fixtures /\ h.mail = f.mail /\ h.item = x /\ h.job = f.job
BY DEF Fixtures, Items

\* Its e-mail moves, and nothing else.
LEMMA MailIs ==
    ASSUME NEW f \in Fixtures, NEW m \in MailStates, NEW h, h = [f EXCEPT !.mail = m]
    PROVE  h \in Fixtures /\ h.mail = m /\ h.item = f.item /\ h.job = f.job
BY DEF Fixtures, MailStates

\* Its job moves, and nothing else.
LEMMA JobIs ==
    ASSUME NEW f \in Fixtures, NEW j \in Jobs, NEW h, h = [f EXCEPT !.job = j]
    PROVE  h \in Fixtures /\ h.mail = f.mail /\ h.item = f.item /\ h.job = j
BY DEF Fixtures, Jobs

\* The fixture is made due and loses its wake-up, or the script fails.
LEMMA AdvanceKeeps ==
    ASSUME ProofInv, advanceDueRow
    PROVE  ProofInv'
<1>1. proof.step = "advance" /\ UNCHANGED <<creating, sweeping, damaged, late>>
  BY DEF advanceDueRow, AtStep
<1>2. CASE Fail /\ UNCHANGED <<rows, fixture>>
  BY <1>1, <1>2, FailKeeps DEF Failing
<1>3. CASE /\ rows' = rows \ {"wakeup"}
           /\ fixture' = [fixture EXCEPT !.mail = "due", !.item = "pending"]
           /\ Continue("wait")
  <2>1. /\ proof \in Scripts /\ proof.failure = "none" /\ proof.kind \in {"hosted", "restore"}
        /\ "wait" \in AllSteps /\ fixture \in Fixtures
    BY <1>1 DEF ProofInv, ProofTypes, ScriptHolds, ScriptSteps, Scripts, AllSteps
  <2>2. Goes(proof, proof', "wait", "none", proof.known, proof.attempted)
    BY <1>3, <2>1, ContinueIs
  <2>3. /\ proof' \in Scripts
        /\ proof'.kind = proof.kind /\ proof'.retain = proof.retain
        /\ proof'.step = "wait" /\ proof'.failure = "none"
        /\ proof'.known = proof.known /\ proof'.attempted = proof.attempted
    BY <2>2 DEF Goes
  <2>4. "due" \in MailStates /\ "pending" \in Items
    BY DEF MailStates, Items
  <2>5. fixture' \in Fixtures /\ fixture'.mail = "due" /\ fixture'.item = "pending"
    <3>1. PICK g : g = [fixture EXCEPT !.mail = "due"]
      OBVIOUS
    <3>2. g \in Fixtures /\ g.mail = "due"
      BY <2>1, <2>4, <3>1, MailIs
    <3>3. fixture' = [g EXCEPT !.item = "pending"]
      BY <1>3, <3>1
    <3> QED BY <2>4, <3>2, <3>3, ItemIs
  <2>6. ProofTypes'
    BY <1>1, <1>3, <2>3, <2>5 DEF ProofInv, ProofTypes
  <2>7. ScriptHolds(proof')
    BY <1>1, <2>1, <2>3 DEF ProofInv, ScriptHolds, ScriptSteps
  <2>8. BeforeCleaning'
    <3> SUFFICES ASSUME proof.kind = "hosted" PROVE BeforeCleaning'
      BY <2>1, <2>3 DEF BeforeCleaning
    <3>1. "email" \in proof.known
      BY <1>1 DEF ProofInv, ScriptHolds
    <3>2. "email" \in rows'
      BY <1>1, <1>3, <3>1 DEF ProofInv, BeforeCleaning
    <3> QED BY <2>3, <3>2 DEF BeforeCleaning
  <2>9. AfterCleaning'
    BY <2>3 DEF AfterCleaning
  <2>10. KindHolds'
    BY <1>3, <2>1, <2>3 DEF ProofInv, KindHolds
  <2>11. LossIsMet'
    BY <1>1, <1>3, <2>1, <2>3, <2>5 DEF ProofInv, LossIsMet
  <2> QED BY <2>6, <2>7, <2>8, <2>9, <2>10, <2>11 DEF ProofInv
<1> QED BY <1>2, <1>3 DEF advanceDueRow, FailsUnless

\* A script that was not answered looks for what its request created.
LEMMA DiscoverKeeps ==
    ASSUME ProofInv, discoverFixtureEmailId
    PROVE  ProofInv'
<1>1. /\ proof.step = "discover"
      /\ UNCHANGED <<rows, fixture, creating, sweeping, damaged, late>>
  BY DEF discoverFixtureEmailId, AtStep
<1>2. CASE CleanupFails
  BY <1>1, <1>2, CleanupFailsKeeps
<1>3. CASE proof' = [proof EXCEPT !.step = IF "email" \in rows THEN "clean" ELSE "end",
                                  !.known = @ \cup ({"email"} \cap rows)]
  <2>1. PICK s, k : /\ s = (IF "email" \in rows THEN "clean" ELSE "end")
                    /\ k = proof.known \cup ({"email"} \cap rows)
    OBVIOUS
  <2>2. /\ proof \in Scripts /\ proof.kind = "hosted" /\ s \in AllSteps /\ k \in Known
        /\ proof.attempted
    BY <1>1, <2>1 DEF ProofInv, ProofTypes, ScriptHolds, ScriptSteps, Scripts, AllSteps, Known
  <2>3. proof' = [proof EXCEPT !.step = s, !.known = k]
    BY <1>3, <2>1
  <2>4. Goes(proof, proof', s, proof.failure, k, proof.attempted)
    BY <2>2, <2>3, StepAndKnown
  <2>5. /\ proof' \in Scripts
        /\ proof'.kind = "hosted" /\ proof'.retain = proof.retain
        /\ proof'.step = s /\ proof'.failure = proof.failure
        /\ proof'.known = k /\ proof'.attempted = proof.attempted
    BY <2>2, <2>4 DEF Goes
  <2>6. ProofTypes'
    BY <1>1, <2>5 DEF ProofInv, ProofTypes
  <2>7. ScriptHolds(proof')
    BY <1>1, <2>1, <2>2, <2>5 DEF ProofInv, ScriptHolds, ScriptSteps
  <2>8. BeforeCleaning'
    <3>1. s = "clean" => "email" \in rows
      BY <2>1
    <3>2. s = "clean" \/ s = "end"
      BY <2>1
    <3> QED BY <1>1, <2>5, <3>1, <3>2 DEF BeforeCleaning
  <2>9. AfterCleaning'
    <3>1. s = "end" => "email" \notin rows
      BY <2>1
    <3>2. s = "end" => Own \subseteq {"upload"}
      BY <1>1, <2>2, <3>1 DEF ProofInv, BeforeCleaning
    <3>3. s = "end" => Own \subseteq {}
      BY <2>2, <3>2 DEF ProofInv, KindHolds, Own
    <3>4. s = "end" => Own' \subseteq {}
      BY <1>1, <3>3 DEF Own
    <3> QED BY <2>1, <2>5, <3>4 DEF AfterCleaning
  <2>10. KindHolds' /\ LossIsMet'
    BY <1>1, <2>2, <2>5 DEF ProofInv, KindHolds, LossIsMet
  <2> QED BY <2>6, <2>7, <2>8, <2>9, <2>10 DEF ProofInv
<1> QED BY <1>2, <1>3 DEF discoverFixtureEmailId

\* The fixture is deleted by the identities the script knows by then, which
\* include the outbox item's if the e-mail was still there.
LEMMA CleanupKeeps ==
    ASSUME ProofInv, cleanupFixture
    PROVE  ProofInv'
<1>1. proof.step = "clean" /\ UNCHANGED <<creating, sweeping, damaged, late>>
  BY DEF cleanupFixture, AtStep
<1>2. CASE CleanupFails /\ UNCHANGED <<rows, fixture>>
  BY <1>1, <1>2, CleanupFailsKeeps
<1>3. CASE /\ rows' = rows \ ByIdentity(OutboxResolved)
           /\ fixture' = NoFixture
           /\ proof' = [proof EXCEPT !.step = "verify",
                           !.known = IF OutboxResolved THEN @ \cup {"outbox"} ELSE @]
  <2>1. PICK k : k = (IF OutboxResolved THEN proof.known \cup {"outbox"} ELSE proof.known)
    OBVIOUS
  <2>2. /\ proof \in Scripts /\ proof.kind \in {"hosted", "seed", "restore"}
        /\ "verify" \in AllSteps /\ k \in Known
    BY <2>1 DEF ProofInv, ProofTypes, Scripts, AllSteps, Known
  <2>3. proof' = [proof EXCEPT !.step = "verify", !.known = k]
    BY <1>3, <2>1
  <2>4. Goes(proof, proof', "verify", proof.failure, k, proof.attempted)
    BY <2>2, <2>3, StepAndKnown
  <2>5. /\ proof' \in Scripts
        /\ proof'.kind = proof.kind /\ proof'.retain = proof.retain
        /\ proof'.step = "verify" /\ proof'.failure = proof.failure
        /\ proof'.known = k /\ proof'.attempted = proof.attempted
    BY <2>4 DEF Goes
  <2>6. rows' \subseteq rows
    BY <1>3
  <2>7. fixture' \in Fixtures /\ fixture'.mail = "none"
    BY <1>3 DEF NoFixture, Fixtures
  <2>8. ProofTypes'
    BY <1>1, <2>5, <2>6, <2>7 DEF ProofInv, ProofTypes
  <2>9. ScriptHolds(proof')
    <3>1. CASE proof.kind = "hosted"
      <4>1. "email" \in rows
        BY <1>1, <3>1 DEF ProofInv, ScriptHolds, BeforeCleaning
      <4>2. k = proof.known \cup {"outbox"}
        BY <2>1, <4>1 DEF OutboxResolved
      <4> QED BY <1>1, <2>5, <3>1, <4>2 DEF ProofInv, ScriptHolds, ScriptSteps
    <3>2. CASE proof.kind \in {"seed", "restore"}
      <4>1. "outbox" \in proof.known
        BY <1>1, <3>2 DEF ProofInv, ScriptHolds
      <4>2. k = proof.known
        BY <2>1, <2>2, <4>1 DEF Scripts
      <4> QED BY <1>1, <2>5, <3>2, <4>2 DEF ProofInv, ScriptHolds, ScriptSteps
    <3> QED BY <2>2, <3>1, <3>2
  <2>10. BeforeCleaning' /\ AfterCleaning'
    BY <2>5 DEF BeforeCleaning, AfterCleaning
  <2>11. KindHolds'
    BY <2>5, <2>6, <2>7 DEF ProofInv, KindHolds
  <2>12. LossIsMet'
    BY <1>1, <2>5, <2>6, <2>7 DEF ProofInv, LossIsMet
  <2> QED BY <2>8, <2>9, <2>10, <2>11, <2>12 DEF ProofInv
<1> QED BY <1>2, <1>3 DEF cleanupFixture

\* Nothing the script can look for is left, or it reports a residue.
LEMMA CountKeeps ==
    ASSUME ProofInv, countRemaining
    PROVE  ProofInv'
<1> DEFINE to == IF proof.kind = "hosted" THEN "end" ELSE "unlist"
<1>1. PICK s : s = to
  OBVIOUS
<1>2. /\ proof.step = "verify"
      /\ UNCHANGED <<rows, fixture, creating, sweeping, damaged, late>>
  BY DEF countRemaining, AtStep
<1>3. CASE CleanupFails
  BY <1>2, <1>3, CleanupFailsKeeps
<1>4. CASE rows \cap ByIdentity("outbox" \in proof.known) = {} /\ Continue(s)
  <2>1. /\ proof \in Scripts /\ proof.kind \in {"hosted", "seed", "restore"}
        /\ s \in AllSteps /\ s \in {"end", "unlist"} /\ (s = "end" <=> proof.kind = "hosted")
    BY <1>1 DEF ProofInv, ProofTypes, Scripts, AllSteps
  <2>2. Goes(proof, proof', s, proof.failure, proof.known, proof.attempted)
    BY <1>4, <2>1, ContinueIs
  <2>3. /\ proof' \in Scripts
        /\ proof'.kind = proof.kind /\ proof'.retain = proof.retain
        /\ proof'.step = s /\ proof'.failure = proof.failure
        /\ proof'.known = proof.known /\ proof'.attempted = proof.attempted
    BY <2>2 DEF Goes
  <2>4. "outbox" \in proof.known
    BY <1>2, <2>1 DEF ProofInv, ScriptHolds
  <2>5. rows \cap {"email", "send", "wakeup"} = {}
    BY <1>4, <2>4 DEF ByIdentity
  <2>6. Own \subseteq {"upload"}
    BY <2>5 DEF ProofInv, ProofTypes, FixtureRows, Own
  <2>7. ProofTypes'
    BY <1>2, <2>3 DEF ProofInv, ProofTypes
  <2>8. ScriptHolds(proof')
    BY <1>2, <2>1, <2>3 DEF ProofInv, ScriptHolds, ScriptSteps
  <2>9. BeforeCleaning'
    BY <2>1, <2>3 DEF BeforeCleaning
  <2>10. AfterCleaning'
    <3>1. Own' = Own
      BY <1>2 DEF Own
    <3>2. proof.kind = "hosted" => Own \subseteq {}
      BY <2>6 DEF ProofInv, KindHolds, Own
    <3> QED BY <2>1, <2>3, <2>6, <3>1, <3>2 DEF AfterCleaning
  <2>11. KindHolds' /\ LossIsMet'
    BY <1>2, <2>1, <2>3 DEF ProofInv, KindHolds, LossIsMet
  <2> QED BY <2>7, <2>8, <2>9, <2>10, <2>11 DEF ProofInv
<1> QED BY <1>1, <1>3, <1>4 DEF countRemaining

\* The upload goes last; what a failed seed did not know of is left.
LEMMA UnlistKeeps ==
    ASSUME ProofInv, deleteAttachmentMetadata
    PROVE  ProofInv'
<1>1. proof.step = "unlist" /\ UNCHANGED <<fixture, creating, sweeping, damaged, late>>
  BY DEF deleteAttachmentMetadata, AtStep
<1>2. CASE CleanupFails /\ UNCHANGED rows
  BY <1>1, <1>2, CleanupFailsKeeps
<1>3. CASE rows' = rows \ {"upload"} /\ Continue("end")
  <2>1. /\ proof \in Scripts /\ proof.kind \in {"seed", "restore"} /\ "end" \in AllSteps
    BY <1>1 DEF ProofInv, ProofTypes, ScriptHolds, ScriptSteps, Scripts, AllSteps
  <2>2. Goes(proof, proof', "end", proof.failure, proof.known, proof.attempted)
    BY <1>3, <2>1, ContinueIs
  <2>3. /\ proof' \in Scripts
        /\ proof'.kind = proof.kind /\ proof'.retain = proof.retain
        /\ proof'.step = "end" /\ proof'.failure = proof.failure
        /\ proof'.known = proof.known /\ proof'.attempted = proof.attempted
    BY <2>2 DEF Goes
  <2>4. ProofTypes'
    BY <1>1, <1>3, <2>3 DEF ProofInv, ProofTypes
  <2>5. ScriptHolds(proof')
    BY <1>1, <2>1, <2>3 DEF ProofInv, ScriptHolds, ScriptSteps
  <2>6. BeforeCleaning'
    BY <2>3 DEF BeforeCleaning
  <2>7. Own' = Own \ {"upload"}
    BY <1>1, <1>3 DEF Own
  <2>8. AfterCleaning'
    <3>1. CASE "outbox" \in proof.known
      <4>1. Own' \subseteq {}
        BY <1>1, <2>7, <3>1 DEF ProofInv, AfterCleaning
      <4> QED BY <2>3, <4>1 DEF AfterCleaning
    <3>2. CASE "outbox" \notin proof.known
      <4>1. proof.kind = "seed"
        BY <2>1, <3>2 DEF ProofInv, ScriptHolds
      <4>2. Unidentified' = {"email", "wakeup", "send"} \cup ({"upload"} \ proof.known)
        BY <2>3, <3>2, <4>1 DEF Unidentified
      <4>3. Own' \subseteq {"email", "wakeup", "send"}
        BY <2>7 DEF ProofInv, ProofTypes, FixtureRows, Own
      <4> QED BY <2>3, <4>2, <4>3 DEF AfterCleaning
    <3> QED BY <3>1, <3>2
  <2>9. KindHolds' /\ LossIsMet'
    BY <1>1, <1>3, <2>1, <2>3 DEF ProofInv, KindHolds, LossIsMet
  <2> QED BY <2>4, <2>5, <2>6, <2>8, <2>9 DEF ProofInv
<1> QED BY <1>2, <1>3 DEF deleteAttachmentMetadata

\* The script ends; a pool that fails to close does not change what it left.
LEMMA EndKeeps ==
    ASSUME ProofInv, endPool
    PROVE  ProofInv'
<1>1. proof.step = "end" /\ UNCHANGED <<rows, fixture, creating, sweeping, damaged, late>>
  BY DEF endPool, AtStep
<1>2. PICK f : f \in {proof.failure, IF proof.failure = "none" THEN "closing" ELSE proof.failure}
               /\ Goes(proof, proof', "over", f, proof.known, proof.attempted)
  <2>1. proof \in Scripts /\ "over" \in AllSteps /\ proof.failure \in Failures
    BY DEF ProofInv, ProofTypes, Scripts, AllSteps, Failures
  <2>2. CASE Continue("over")
    <3>1. Goes(proof, proof', "over", proof.failure, proof.known, proof.attempted)
      BY <2>1, <2>2, ContinueIs
    <3> QED BY <3>1
  <2>3. CASE proof' = [proof EXCEPT !.step = "over",
                                    !.failure = IF @ = "none" THEN "closing" ELSE @]
    <3>1. PICK f : f = (IF proof.failure = "none" THEN "closing" ELSE proof.failure)
      OBVIOUS
    <3>2. f \in Failures
      BY <2>1, <3>1 DEF Failures
    <3>3. proof' = [proof EXCEPT !.step = "over", !.failure = f]
      BY <2>3, <3>1
    <3>4. Goes(proof, proof', "over", f, proof.known, proof.attempted)
      BY <2>1, <3>2, <3>3, StepAndFailure
    <3> QED BY <3>1, <3>4
  <2> QED BY <2>2, <2>3 DEF endPool
<1>3. f = proof.failure \/ (proof.failure = "none" /\ f = "closing")
  BY <1>2
<1>4. /\ proof' \in Scripts
      /\ proof'.kind = proof.kind /\ proof'.retain = proof.retain
      /\ proof'.step = "over" /\ proof'.failure = f
      /\ proof'.known = proof.known /\ proof'.attempted = proof.attempted
  BY <1>2 DEF Goes
<1>5. ProofTypes'
  BY <1>1, <1>4 DEF ProofInv, ProofTypes
<1>6. ScriptHolds(proof')
  <2>1. proof.kind \in {"hosted", "seed", "restore"}
    BY DEF ProofInv, ProofTypes, Scripts
  <2> QED BY <1>1, <1>4, <2>1 DEF ProofInv, ScriptHolds, ScriptSteps
<1>7. BeforeCleaning'
  BY <1>4 DEF BeforeCleaning
<1>8. AfterCleaning'
  <2>1. Own' = Own /\ Unidentified' = Unidentified
    BY <1>1, <1>4 DEF Own, Unidentified
  <2>2. Retained => Retained'
    BY <1>3, <1>4 DEF Retained
  <2> QED BY <1>1, <1>3, <1>4, <2>1, <2>2 DEF ProofInv, AfterCleaning
<1>9. KindHolds' /\ LossIsMet'
  BY <1>1, <1>3, <1>4 DEF ProofInv, KindHolds, LossIsMet
<1> QED BY <1>5, <1>6, <1>7, <1>8, <1>9 DEF ProofInv

\* Where the script has ended or ends, the deployment's rows are late ones.
LEMMA LateOnes ==
    ASSUME ProofInv, UNCHANGED proof,
           proof.step \in {"unlist", "end", "over"} => Own' \subseteq Own
    PROVE  ScriptHolds(proof') /\ AfterCleaning'
<1>1. ScriptHolds(proof')
  BY DEF ProofInv
<1>2. Unidentified' = Unidentified /\ (Retained <=> Retained')
  BY DEF Unidentified, Retained
<1>3. AfterCleaning'
  BY <1>2 DEF ProofInv, AfterCleaning
<1> QED BY <1>1, <1>3

\* A row written for the fixture.
LEMMA WrittenIs ==
    ASSUME ProofTypes, NEW r \in FixtureRows, rows' = rows \cup {r}, Written(r)
    PROVE  /\ rows' \subseteq FixtureRows
           /\ "stray" \in rows' /\ r # "stray" => "stray" \in late'
           /\ late \subseteq late'
           /\ proof.step \in {"unlist", "end", "over"} => Own' \subseteq Own
           /\ r = "stray" => Own' \subseteq Own \cup {"stray"}
BY DEF ProofTypes, Written, Own

\* The API creates the e-mail, once as long as its key leads to it.
LEMMA CommitKeeps ==
    ASSUME ProofInv, commitDelivery
    PROVE  ProofInv'
<1>1. /\ creating = "received" /\ creating' = "committed"
      /\ UNCHANGED <<proof, sweeping, damaged>>
  BY DEF commitDelivery
<1>2. proof.kind \in {"hosted", "seed"} /\ proof \in Scripts /\ fixture \in Fixtures
  BY <1>1 DEF ProofInv, ProofTypes, LossIsMet, Scripts
<1>3. CASE "email" \in rows
  <2>1. UNCHANGED <<rows, fixture, late>>
    BY <1>3 DEF commitDelivery
  <2>2. Own' = Own
    BY <2>1 DEF Own
  <2>3. ProofTypes'
    BY <1>1, <2>1 DEF ProofInv, ProofTypes
  <2>4. BeforeCleaning'
    BY <1>1, <1>3, <2>1 DEF ProofInv, BeforeCleaning
  <2>5. KindHolds' /\ LossIsMet'
    BY <1>1, <1>2, <2>1 DEF ProofInv, KindHolds, LossIsMet
  <2> QED BY <1>1, <2>2, <2>3, <2>4, <2>5, LateOnes DEF ProofInv
<1>4. CASE "email" \notin rows /\ "email" \in proof.known
  <2>1. rows' = rows \cup {"stray"} /\ late' = late \cup {"stray"} /\ UNCHANGED fixture
    BY <1>4 DEF commitDelivery
  <2>2. Own' \subseteq Own
    BY <2>1 DEF Own
  <2>3. ProofTypes'
    BY <1>1, <2>1 DEF ProofInv, ProofTypes, FixtureRows
  <2>4. BeforeCleaning'
    BY <1>1, <1>2, <1>4 DEF ProofInv, BeforeCleaning
  <2>5. KindHolds' /\ LossIsMet'
    BY <1>1, <1>2, <2>1 DEF ProofInv, KindHolds, LossIsMet
  <2> QED BY <1>1, <2>2, <2>3, <2>4, <2>5, LateOnes DEF ProofInv
<1>5. CASE "email" \notin rows /\ "email" \notin proof.known
  <2>1. /\ rows' = rows \cup {"email"} /\ Written("email")
        /\ fixture' = [fixture EXCEPT !.mail = "scheduled", !.item = "pending"]
    BY <1>5 DEF commitDelivery
  <2>2. fixture' \in Fixtures /\ fixture'.mail = "scheduled" /\ fixture'.item = "pending"
    <3>1. PICK g : g = [fixture EXCEPT !.mail = "scheduled"]
      OBVIOUS
    <3>2. "scheduled" \in MailStates /\ "pending" \in Items
      BY DEF MailStates, Items
    <3>3. g \in Fixtures /\ g.mail = "scheduled"
      BY <1>2, <3>1, <3>2, MailIs
    <3>4. fixture' = [g EXCEPT !.item = "pending"]
      BY <2>1, <3>1
    <3> QED BY <3>2, <3>3, <3>4, ItemIs
  <2>3. "email" \in FixtureRows /\ "email" # "stray"
    BY DEF FixtureRows
  <2>4. /\ rows' \subseteq FixtureRows /\ ("stray" \in rows' => "stray" \in late')
        /\ late \subseteq late'
        /\ proof.step \in {"unlist", "end", "over"} => Own' \subseteq Own
    BY <2>1, <2>3, WrittenIs DEF ProofInv
  <2>5. ProofTypes'
    BY <1>1, <2>2, <2>4 DEF ProofInv, ProofTypes
  <2>6. BeforeCleaning'
    BY <1>1, <1>2, <2>1 DEF ProofInv, BeforeCleaning
  <2>7. KindHolds'
    BY <1>1, <1>2, <2>1, <2>2 DEF ProofInv, KindHolds
  <2>8. LossIsMet'
    BY <1>1, <1>2 DEF LossIsMet
  <2> QED BY <1>1, <2>4, <2>5, <2>6, <2>7, <2>8, LateOnes DEF ProofInv
<1> QED BY <1>3, <1>4, <1>5

\* The wake-up is scheduled beside the e-mail, or its failure is dropped.
LEMMA WakeupKeeps ==
    ASSUME ProofInv, scheduleWakeup
    PROVE  ProofInv'
<1>1. /\ creating = "committed" /\ creating' = "answered"
      /\ UNCHANGED <<proof, fixture, sweeping, damaged>>
  BY DEF scheduleWakeup
<1>2. proof.kind \in {"hosted", "seed"} /\ proof \in Scripts
  BY <1>1 DEF ProofInv, ProofTypes, LossIsMet, Scripts
<1>3. \/ UNCHANGED <<rows, late>>
      \/ rows' = rows \cup {"wakeup"} /\ Written("wakeup")
  BY DEF scheduleWakeup
<1>4. /\ rows' \subseteq FixtureRows /\ ("stray" \in rows' => "stray" \in late')
      /\ rows \subseteq rows' /\ (rows' = rows \/ rows' = rows \cup {"wakeup"})
      /\ proof.step \in {"unlist", "end", "over"} => Own' \subseteq Own
  <2>1. CASE UNCHANGED <<rows, late>>
    BY <2>1 DEF ProofInv, ProofTypes, Own
  <2>2. CASE rows' = rows \cup {"wakeup"} /\ Written("wakeup")
    <3>1. "wakeup" \in FixtureRows /\ "wakeup" # "stray"
      BY DEF FixtureRows
    <3> QED BY <2>2, <3>1, WrittenIs DEF ProofInv
  <2> QED BY <1>3, <2>1, <2>2
<1>5. ProofTypes'
  BY <1>1, <1>4 DEF ProofInv, ProofTypes
<1>6. BeforeCleaning'
  BY <1>1, <1>2, <1>4 DEF ProofInv, BeforeCleaning
<1>7. KindHolds' /\ LossIsMet'
  BY <1>1, <1>2, <1>4 DEF ProofInv, KindHolds, LossIsMet
<1> QED BY <1>1, <1>4, <1>5, <1>6, <1>7, LateOnes DEF ProofInv

\* A sweep needs an e-mail that is due: there is none before there is an e-mail.
LEMMA LeaseKeeps ==
    ASSUME ProofInv, NEW w \in OutboxSweepers, leaseDueOutbox(w)
    PROVE  ProofInv'
<1>1. /\ fixture.mail \in {"due", "sent", "failed"}
      /\ fixture' = [fixture EXCEPT !.item = w]
      /\ sweeping' = [sweeping EXCEPT ![w] = "publish"]
      /\ UNCHANGED <<proof, rows, creating, damaged, late>>
  BY DEF leaseDueOutbox
<1>2. fixture \in Fixtures /\ w \in Items
  BY DEF ProofInv, ProofTypes, Items
<1>3. fixture' \in Fixtures /\ fixture'.mail = fixture.mail
  BY <1>1, <1>2, ItemIs
<1>4. ProofTypes'
  BY <1>1, <1>3 DEF ProofInv, ProofTypes
<1>5. Own' = Own
  BY <1>1 DEF Own
<1>6. BeforeCleaning'
  BY <1>1 DEF ProofInv, BeforeCleaning
<1>7. KindHolds' /\ LossIsMet'
  BY <1>1, <1>3 DEF ProofInv, KindHolds, LossIsMet
<1> QED BY <1>1, <1>4, <1>5, <1>6, <1>7, LateOnes DEF ProofInv

\* A stalled sweep may publish for an e-mail that is gone.
LEMMA PublishJobKeeps ==
    ASSUME ProofInv, NEW w \in OutboxSweepers, publish(w)
    PROVE  ProofInv'
<1>1. /\ sweeping[w] = "publish"
      /\ sweeping' = [sweeping EXCEPT ![w] = "acknowledge"]
      /\ UNCHANGED <<proof, creating, damaged>>
      /\ \/ UNCHANGED <<rows, fixture, late>>
         \/ /\ rows' = rows \cup {"send"} /\ Written("send")
            /\ fixture' = [fixture EXCEPT !.job = "ready"]
  BY DEF publish
<1>2. fixture \in Fixtures /\ "ready" \in Jobs
  BY DEF ProofInv, ProofTypes, Jobs
<1>3. fixture' \in Fixtures /\ fixture'.mail = fixture.mail
  BY <1>1, <1>2, JobIs
<1>4. /\ rows' \subseteq FixtureRows /\ ("stray" \in rows' => "stray" \in late')
      /\ rows \subseteq rows' /\ (rows' = rows \/ rows' = rows \cup {"send"})
      /\ proof.step \in {"unlist", "end", "over"} => Own' \subseteq Own
  <2>1. CASE UNCHANGED <<rows, fixture, late>>
    BY <2>1 DEF ProofInv, ProofTypes, Own
  <2>2. CASE rows' = rows \cup {"send"} /\ Written("send")
    <3>1. "send" \in FixtureRows /\ "send" # "stray"
      BY DEF FixtureRows
    <3> QED BY <2>2, <3>1, WrittenIs DEF ProofInv
  <2> QED BY <1>1, <2>1, <2>2
<1>5. ProofTypes'
  BY <1>1, <1>3, <1>4 DEF ProofInv, ProofTypes
<1>6. BeforeCleaning'
  BY <1>1, <1>4 DEF ProofInv, BeforeCleaning
<1>7. KindHolds' /\ LossIsMet'
  BY <1>1, <1>3, <1>4 DEF ProofInv, KindHolds, LossIsMet, ProofTypes
<1> QED BY <1>1, <1>4, <1>5, <1>6, <1>7, LateOnes DEF ProofInv

\* The end of a sweep, a sweep that is lost, and a lease that expires.
LEMMA SweepKeeps ==
    ASSUME ProofInv,
           \/ \E w \in OutboxSweepers : acknowledgeOutbox(w) \/ sweepLost(w)
           \/ leaseExpires
    PROVE  ProofInv'
<1>1. /\ fixture \in Fixtures /\ "dispatched" \in Items /\ "pending" \in Items
      /\ sweeping \in [OutboxSweepers -> {"idle", "publish", "acknowledge"}]
  BY DEF ProofInv, ProofTypes, Items
<1>2. CASE \E w \in OutboxSweepers : acknowledgeOutbox(w) \/ sweepLost(w)
  <2>1. PICK w \in OutboxSweepers : acknowledgeOutbox(w) \/ sweepLost(w)
    BY <1>2
  <2>2. /\ UNCHANGED <<proof, rows, creating, damaged, late>>
        /\ sweeping[w] # "idle" /\ sweeping' = [sweeping EXCEPT ![w] = "idle"]
        /\ \/ UNCHANGED fixture
           \/ fixture' = [fixture EXCEPT !.item = IF @ = w THEN "dispatched" ELSE @]
    BY <2>1 DEF acknowledgeOutbox, sweepLost
  <2>3. sweeping' \in [OutboxSweepers -> {"idle", "publish", "acknowledge"}]
    BY <1>1, <2>2
  <2>4. ~\A v \in OutboxSweepers : sweeping[v] = "idle"
    BY <2>2
  <2>5. PICK x : x = (IF fixture.item = w THEN "dispatched" ELSE fixture.item)
    OBVIOUS
  <2>6. x \in Items
    BY <1>1, <2>5 DEF Fixtures, Items
  <2>7. fixture' = fixture \/ fixture' = [fixture EXCEPT !.item = x]
    BY <2>2, <2>5
  <2>8. PICK g : g = [fixture EXCEPT !.item = x]
    OBVIOUS
  <2>9. g \in Fixtures /\ g.mail = fixture.mail /\ g.item = x
    BY <1>1, <2>6, <2>8, ItemIs
  <2>10. BeforeCleaning'
    <3>1. fixture'.mail = fixture.mail
      BY <2>7, <2>8, <2>9
    <3>2. Own' = Own
      BY <2>2 DEF Own
    <3> QED BY <2>2, <2>4, <3>1, <3>2 DEF ProofInv, BeforeCleaning
  <2>11. ProofTypes'
    BY <2>2, <2>3, <2>7, <2>8, <2>9 DEF ProofInv, ProofTypes
  <2>12. KindHolds' /\ LossIsMet'
    <3>1. fixture'.mail = fixture.mail
      BY <2>7, <2>8, <2>9
    <3> QED BY <2>2, <3>1 DEF ProofInv, KindHolds, LossIsMet
  <2>13. Own' = Own
    BY <2>2 DEF Own
  <2> QED BY <2>2, <2>10, <2>11, <2>12, <2>13, LateOnes DEF ProofInv
<1>3. CASE leaseExpires
  <2>1. /\ UNCHANGED <<proof, rows, creating, sweeping, damaged, late>>
        /\ fixture.item \in OutboxSweepers /\ fixture' = [fixture EXCEPT !.item = "pending"]
    BY <1>3 DEF leaseExpires
  <2>2. fixture' \in Fixtures /\ fixture'.mail = fixture.mail
    BY <1>1, <2>1, ItemIs
  <2>3. Own' = Own
    BY <2>1 DEF Own
  <2>4. ProofTypes'
    BY <2>1, <2>2 DEF ProofInv, ProofTypes
  <2>5. KindHolds' /\ LossIsMet'
    BY <2>1, <2>2 DEF ProofInv, KindHolds, LossIsMet
  <2>6. BeforeCleaning'
    <3>1. fixture.item # "none"
      BY <2>1, ProofConstants
    <3> QED BY <2>1, <2>2, <2>3, <3>1 DEF ProofInv, BeforeCleaning
  <2> QED BY <2>1, <2>3, <2>4, <2>5, <2>6, LateOnes DEF ProofInv
<1> QED BY <1>2, <1>3

\* The worker sends what is due, if its attachment is there.
LEMMA ProcessKeeps ==
    ASSUME ProofInv, processSend \/ acknowledgeJob
    PROVE  ProofInv'
<1> DEFINE to == IF fixture.mail # "due" THEN fixture.mail
                 ELSE IF "object" \in damaged THEN "failed" ELSE "sent"
<1>1. /\ UNCHANGED <<proof, rows, creating, sweeping, damaged, late>>
      /\ fixture \in Fixtures /\ "processed" \in Jobs /\ "done" \in Jobs
  BY DEF processSend, acknowledgeJob, ProofInv, ProofTypes, Jobs
<1>2. PICK m : m \in {fixture.mail, to} /\ fixture' \in Fixtures /\ fixture'.mail = m
               /\ fixture'.item = fixture.item
  <2>1. CASE acknowledgeJob
    <3>1. fixture' = [fixture EXCEPT !.job = "done"]
      BY <2>1 DEF acknowledgeJob
    <3>2. fixture' \in Fixtures /\ fixture'.mail = fixture.mail /\ fixture'.item = fixture.item
      BY <1>1, <3>1, JobIs
    <3> QED BY <3>2
  <2>2. CASE processSend
    <3>1. PICK m : m = to
      OBVIOUS
    <3>2. m \in MailStates
      BY <1>1, <3>1 DEF MailStates, Fixtures
    <3>3. fixture' = [fixture EXCEPT !.job = "processed", !.mail = m]
      BY <2>2, <3>1 DEF processSend
    <3>4. PICK g : g = [fixture EXCEPT !.job = "processed"]
      OBVIOUS
    <3>5. g \in Fixtures /\ g.mail = fixture.mail /\ g.item = fixture.item
      BY <1>1, <3>4, JobIs
    <3>6. fixture' = [g EXCEPT !.mail = m]
      BY <3>3, <3>4
    <3>7. fixture' \in Fixtures /\ fixture'.mail = m /\ fixture'.item = g.item
      BY <3>2, <3>5, <3>6, MailIs
    <3> QED BY <3>1, <3>5, <3>7
  <2> QED BY <2>1, <2>2
<1>3. /\ fixture.mail # "due" => fixture'.mail = fixture.mail
      /\ fixture'.mail = "sent" => fixture.mail = "sent" \/ "object" \notin damaged
  BY <1>2
<1>4. Own' = Own
  BY <1>1 DEF Own
<1>5. ProofTypes'
  BY <1>1, <1>2 DEF ProofInv, ProofTypes
<1>6. BeforeCleaning'
  BY <1>1, <1>2, <1>3, <1>4 DEF ProofInv, BeforeCleaning
<1>7. KindHolds'
  BY <1>1, <1>3 DEF ProofInv, KindHolds
<1>8. LossIsMet'
  BY <1>1, <1>3 DEF ProofInv, LossIsMet
<1> QED BY <1>1, <1>4, <1>5, <1>6, <1>7, <1>8, LateOnes DEF ProofInv

\* A restored database holds what the backup kept; the rest is damage.
LEMMA RestoreKeeps ==
    ASSUME ProofInv, restoreBackup
    PROVE  ProofInv'
<1>1. PICK lost \in SUBSET {"email", "upload", "wakeup"}, gone \in SUBSET {"object"} :
         /\ rows' = rows \ lost
         /\ fixture' = (IF "email" \in lost THEN NoFixture ELSE fixture)
         /\ damaged' = lost \cup gone
  BY DEF restoreBackup
<1>2. /\ proof.kind = "seed" /\ proof.step = "over"
      /\ proof' = Script("restore", FALSE, {"email", "outbox", "upload"})
      /\ creating' = "none" /\ sweeping' = [w \in OutboxSweepers |-> "idle"]
      /\ UNCHANGED late
  BY DEF restoreBackup, AtStep
<1>3. /\ proof' \in Scripts
      /\ proof'.kind = "restore" /\ ~proof'.retain /\ proof'.step = "start"
      /\ proof'.failure = "none" /\ proof'.known = {"email", "outbox", "upload"}
  BY <1>2 DEF Script, Scripts, AllSteps
<1>4. fixture' \in Fixtures /\ fixture'.mail # "sent"
  BY <1>1, <1>2 DEF ProofInv, ProofTypes, KindHolds, NoFixture, Fixtures
<1>5. ProofTypes'
  BY <1>1, <1>2, <1>3, <1>4 DEF ProofInv, ProofTypes
<1>6. ScriptHolds(proof')
  BY <1>3 DEF ScriptHolds, ScriptSteps
<1>7. BeforeCleaning' /\ AfterCleaning' /\ KindHolds'
  BY <1>3 DEF BeforeCleaning, AfterCleaning, KindHolds
<1>8. LossIsMet'
  <2>1. rows' \cap damaged' = {}
    BY <1>1 DEF ProofInv, ProofTypes, FixtureRows
  <2> QED BY <1>2, <1>3, <1>4, <2>1 DEF LossIsMet
<1> QED BY <1>5, <1>6, <1>7, <1>8 DEF ProofInv

\* Whatever the script, the deployment and the operator do, what the script has
\* learned accounts for every row it answers for: until its cleanup they hang
\* on an e-mail it knows or can find, the cleanup verifies that they are gone,
\* and a damaged backup is met before a verification succeeds.
THEOREM ProofInvariant == HpSpec => []ProofInv
<1>1. HpInit => ProofInv
  <2> SUFFICES ASSUME HpInit PROVE ProofInv
    OBVIOUS
  <2>1. /\ proof \in Scripts /\ proof.step = "start" /\ proof.known = {}
        /\ proof.failure = "none" /\ ~proof.attempted /\ proof.kind \in {"hosted", "seed"}
        /\ (proof.kind = "seed" => proof.retain)
    <3>1. PICK kind, retain : /\ proof = Script(kind, retain, {})
                              /\ kind \in {"hosted", "seed"} /\ retain \in BOOLEAN
                              /\ (kind = "seed" => retain)
      BY DEF HpInit
    <3>2. proof.kind = kind /\ (proof.retain <=> retain) /\ proof.step = "start"
          /\ proof.known = {} /\ proof.failure = "none" /\ ~proof.attempted
      BY <3>1 DEF Script
    <3>3. proof \in Scripts
      BY <3>1 DEF Script, Scripts, AllSteps
    <3> QED BY <3>1, <3>2, <3>3
  <2>2. /\ fixture \in Fixtures /\ fixture.mail = "none" /\ fixture.item = "none"
    BY DEF HpInit, NoFixture, Fixtures
  <2>3. ProofTypes
    BY <2>1, <2>2 DEF HpInit, ProofTypes, FixtureRows
  <2>4. ScriptHolds(proof)
    BY <2>1 DEF ScriptHolds, ScriptSteps
  <2>5. BeforeCleaning
    BY <2>1, <2>2 DEF HpInit, BeforeCleaning, Own
  <2>6. AfterCleaning /\ KindHolds /\ LossIsMet
    BY <2>1, <2>2 DEF HpInit, AfterCleaning, KindHolds, LossIsMet
  <2> QED BY <2>3, <2>4, <2>5, <2>6 DEF ProofInv
<1>2. ProofInv /\ [HpNext]_hpVars => ProofInv'
  <2> SUFFICES ASSUME ProofInv, [HpNext]_hpVars PROVE ProofInv'
    OBVIOUS
  <2>1. CASE UNCHANGED hpVars
    BY <2>1 DEF hpVars, ProofInv, ProofTypes, ScriptHolds, BeforeCleaning, AfterCleaning,
                KindHolds, LossIsMet, Own, Retained, Unidentified
  <2>2. CASE \/ validateOptions \/ assertEmptyBaseline \/ healthCheck \/ uploadLocalAttachments
             \/ postEmail \/ replayEmail \/ replayAnswered \/ requestTimesOut
    BY <2>2, ValidateKeeps, BaselineKeeps, HealthKeeps, UploadKeeps, PostKeeps, ReplayKeeps,
       ReplayAnsweredKeeps, TimesOutKeeps
  <2>3. CASE \/ assertInitialFixture \/ delayedJobCount \/ fixtureSnapshot \/ advanceDueRow
             \/ waitForSent \/ waitTimesOut \/ assertFinalFixture
    BY <2>3, InitialKeeps, DelayedKeeps, SnapshotKeeps, AdvanceKeeps, WaitKeeps,
       TimesOutKeeps, FinalKeeps
  <2>4. CASE \/ discoverFixtureEmailId \/ cleanupFixture \/ countRemaining
             \/ deleteAttachmentMetadata \/ endPool
    BY <2>4, DiscoverKeeps, CleanupKeeps, CountKeeps, UnlistKeeps, EndKeeps
  <2>5. CASE \/ commitDelivery \/ scheduleWakeup \/ processSend \/ acknowledgeJob
             \/ leaseExpires \/ restoreBackup
    BY <2>5, CommitKeeps, WakeupKeeps, ProcessKeeps, SweepKeeps, RestoreKeeps
  <2>6. CASE \E w \in OutboxSweepers : \/ leaseDueOutbox(w) \/ publish(w)
                                       \/ acknowledgeOutbox(w) \/ sweepLost(w)
    BY <2>6, LeaseKeeps, PublishJobKeeps, SweepKeeps
  <2> QED BY <2>1, <2>2, <2>3, <2>4, <2>5, <2>6 DEF HpNext
<1> QED BY <1>1, <1>2, PTL DEF HpSpec

\* The evidence of a proof can be relied on, however many sweepers there are and
\* however often a call fails: a script that ends without reporting a residue
\* has left only late rows, and a verification that succeeds saw all of the
\* backup (runHostedProof, createSeed and verifyRestore).
THEOREM EvidenceIsHonestHolds == HpSpec => []EvidenceIsHonest
<1>1. ProofInv => EvidenceIsHonest
  <2> SUFFICES ASSUME ProofInv, AtStep("over") PROVE EvidenceIsHonest
    BY DEF EvidenceIsHonest
  <2>1. \/ proof.failure \in {"refused", "residue"} \/ Retained
        \/ Own \subseteq Unidentified
    BY DEF ProofInv, AfterCleaning, AtStep
  <2>2. proof.kind = "restore" /\ proof.failure = "none" => damaged = {}
    BY DEF ProofInv, LossIsMet, AtStep
  <2> QED BY <2>1, <2>2 DEF EvidenceIsHonest, Own
<1> QED BY <1>1, ProofInvariant, PTL

-----------------------------------------------------------------------------
(* The migration from Resend, for any streams, comparisons and features.    *)

LastEvents == {"none", "sent"} \cup TerminalEvents

Sightings == [BothProviders -> LastEvents]

CanaryPc == {"idle", "HayaSend", "Resend", "poll"}

Canaries == [pc : CanaryPc, comparison : Comparisons \cup {"none"}, seen : Sightings]

RmTypeOK ==
    /\ lastEvent \in [BothProviders -> [Comparisons -> LastEvents]]
    /\ canary \in Canaries
    /\ canary.pc # "idle" => canary.comparison \in Comparisons
    /\ results \in [Comparisons -> [seen : Sightings, ok : BOOLEAN]]

\* A final event that was seen was the last one, or the one before it.
StillStands(event, p, c) ==
    event \in TerminalEvents => lastEvent[p][c] \in {event} \cup FollowedBy(event)

\* What a canary has seen, and what a printed result says, stands; a result
\* that says ok saw one final event at both providers.
RmSeenInv ==
    /\ canary.pc # "idle" =>
         \A p \in BothProviders : StillStands(canary.seen[p], p, canary.comparison)
    /\ \A c \in Comparisons, p \in BothProviders : StillStands(results[c].seen[p], p, c)
    /\ \A c \in Comparisons : results[c].ok => CanaryOk(results[c].seen)

RmInv == RmTypeOK /\ RmSeenInv

\* The initial states.
LEMMA RmInitLemma == RmInit => RmInv
<1> SUFFICES ASSUME RmInit PROVE RmInv
  OBVIOUS
<1>1. [p \in BothProviders |-> "none"] \in Sightings
  BY DEF Sightings, LastEvents
<1>2. RmTypeOK
  BY <1>1 DEF RmInit, RmTypeOK, IdleCanary, NoResult, Canaries, CanaryPc, LastEvents
<1>3. canary.pc = "idle"
  BY DEF RmInit, IdleCanary
<1>4. \A c \in Comparisons : ~results[c].ok /\ \A p \in BothProviders : results[c].seen[p] = "none"
  BY DEF RmInit, NoResult
<1> QED BY <1>2, <1>3, <1>4 DEF RmInv, RmSeenInv, StillStands, TerminalEvents

\* An event that moves an e-mail on leaves what was seen before it standing.
LEMMA StandsLemma ==
    ASSUME NEW event, NEW old \in LastEvents, NEW new \in LastEvents,
           new = old \/ old \in {"none", "sent"} \/ new \in FollowedBy(old),
           event \in TerminalEvents => old \in {event} \cup FollowedBy(event)
    PROVE  event \in TerminalEvents => new \in {event} \cup FollowedBy(event)
BY DEF LastEvents, TerminalEvents, FollowedBy

\* One e-mail of one provider moves on: everything seen stands.
LEMMA MovesOnLemma ==
    ASSUME RmTypeOK, NEW q \in BothProviders, NEW d \in Comparisons, NEW e \in LastEvents,
           lastEvent' = [lastEvent EXCEPT ![q][d] = e],
           e = lastEvent[q][d] \/ lastEvent[q][d] \in {"none", "sent"}
             \/ e \in FollowedBy(lastEvent[q][d])
    PROVE  /\ lastEvent' \in [BothProviders -> [Comparisons -> LastEvents]]
           /\ \A event : \A p \in BothProviders, c \in Comparisons :
                StillStands(event, p, c) => StillStands(event, p, c)'
<1>1. lastEvent' \in [BothProviders -> [Comparisons -> LastEvents]]
  BY DEF RmTypeOK
<1>2. ASSUME NEW event, NEW p \in BothProviders, NEW c \in Comparisons, StillStands(event, p, c)
      PROVE  StillStands(event, p, c)'
  <2>1. lastEvent[p][c] \in LastEvents /\ lastEvent'[p][c] \in LastEvents
    BY <1>1 DEF RmTypeOK
  <2>2. lastEvent'[p][c] = IF p = q /\ c = d THEN e ELSE lastEvent[p][c]
    BY DEF RmTypeOK
  <2>3. \/ lastEvent'[p][c] = lastEvent[p][c] \/ lastEvent[p][c] \in {"none", "sent"}
        \/ lastEvent'[p][c] \in FollowedBy(lastEvent[p][c])
    BY <2>2
  <2>4. event \in TerminalEvents => lastEvent[p][c] \in {event} \cup FollowedBy(event)
    BY <1>2 DEF StillStands
  <2>5. event \in TerminalEvents => lastEvent'[p][c] \in {event} \cup FollowedBy(event)
    BY <2>1, <2>3, <2>4, StandsLemma
  <2> QED BY <2>5 DEF StillStands
<1> QED BY <1>1, <1>2

\* Every step keeps the invariant.
LEMMA RmStep == RmInv /\ [RmNext]_rmVars => RmInv'
<1> SUFFICES ASSUME RmInv, [RmNext]_rmVars PROVE RmInv'
  OBVIOUS
<1> USE DEF RmInv
<1>1. ASSUME NEW c \in Comparisons, StartCanary(c) PROVE RmInv'
  <2>1. [p \in BothProviders |-> "none"] \in Sightings
    BY DEF Sightings, LastEvents
  <2>2. /\ canary' = [pc |-> "HayaSend", comparison |-> c, seen |-> [p \in BothProviders |-> "none"]]
        /\ UNCHANGED <<lastEvent, results>>
    BY <1>1 DEF StartCanary, IdleCanary
  <2>3. RmTypeOK'
    BY <2>1, <2>2 DEF RmTypeOK, Canaries, CanaryPc
  <2>4. \A p \in BothProviders : canary'.seen[p] = "none"
    BY <2>2
  <2> QED BY <2>2, <2>3, <2>4 DEF RmSeenInv, StillStands, TerminalEvents
<1>2. ASSUME NEW p \in BothProviders, SendCanary(p) PROVE RmInv'
  <2> DEFINE c == canary.comparison
  <2>1. c \in Comparisons
    BY <1>2 DEF SendCanary, RmTypeOK, BothProviders
  <2> DEFINE e == IF lastEvent[p][c] = "none" THEN "sent" ELSE lastEvent[p][c]
  <2>2. e \in LastEvents
    BY <2>1 DEF RmTypeOK, LastEvents
  <2>3. lastEvent' = [lastEvent EXCEPT ![p][c] = e] /\ results' = results
    BY <1>2 DEF SendCanary
  <2>4. e = lastEvent[p][c] \/ lastEvent[p][c] \in {"none", "sent"} \/ e \in FollowedBy(lastEvent[p][c])
    OBVIOUS
  <2>5. /\ lastEvent' \in [BothProviders -> [Comparisons -> LastEvents]]
        /\ \A event : \A q \in BothProviders, d \in Comparisons :
             StillStands(event, q, d) => StillStands(event, q, d)'
    <3> HIDE DEF c, e
    <3> QED BY <2>1, <2>2, <2>3, <2>4, MovesOnLemma
  <2>6. /\ canary'.pc \in CanaryPc /\ canary' \in Canaries
        /\ canary'.comparison = canary.comparison /\ canary'.seen = canary.seen
    BY <1>2 DEF SendCanary, RmTypeOK, Canaries, CanaryPc
  <2>7. canary.pc # "idle"
    BY <1>2 DEF SendCanary, BothProviders
  <2> QED BY <2>1, <2>3, <2>5, <2>6, <2>7 DEF RmTypeOK, RmSeenInv
<1>3. ASSUME NEW p \in BothProviders, PollCanary(p) PROVE RmInv'
  <2> DEFINE c == canary.comparison
  <2>1. c \in Comparisons /\ canary.pc = "poll"
    BY <1>3 DEF PollCanary, RmTypeOK
  <2>2. /\ canary' \in Canaries /\ canary'.pc = "poll" /\ canary'.comparison = c
        /\ \A q \in BothProviders :
             canary'.seen[q] = IF q = p THEN lastEvent[p][c] ELSE canary.seen[q]
    <3>1. lastEvent[p][c] \in LastEvents /\ canary \in Canaries /\ canary.seen \in Sightings
      BY <2>1 DEF RmTypeOK, Canaries
    <3>2. PICK s : s = [canary.seen EXCEPT ![p] = lastEvent[p][c]]
      OBVIOUS
    <3>3. s \in Sightings /\ \A q \in BothProviders : s[q] = IF q = p THEN lastEvent[p][c] ELSE canary.seen[q]
      BY <3>1, <3>2 DEF Sightings
    <3>4. canary' = [canary EXCEPT !.seen = s]
      BY <1>3, <3>2 DEF PollCanary
    <3>5. canary' \in Canaries /\ canary'.pc = canary.pc /\ canary'.comparison = c /\ canary'.seen = s
      BY <3>1, <3>3, <3>4 DEF Canaries
    <3> QED BY <2>1, <3>3, <3>5
  <2>3. UNCHANGED <<lastEvent, results>>
    BY <1>3 DEF PollCanary
  <2> QED BY <2>1, <2>2, <2>3 DEF RmTypeOK, RmSeenInv, StillStands
<1>4. ASSUME PrintResult PROVE RmInv'
  <2> DEFINE c == canary.comparison
             r == [seen |-> canary.seen, ok |-> CanaryOk(canary.seen)]
  <2>1. c \in Comparisons /\ canary.seen \in Sightings /\ canary.pc = "poll"
    BY <1>4 DEF PrintResult, RmTypeOK, Canaries
  <2>2. CanaryOk(canary.seen) \in BOOLEAN
    BY DEF CanaryOk
  <2>3. r \in [seen : Sightings, ok : BOOLEAN]
    BY <2>1, <2>2
  <2>4. results' = [results EXCEPT ![c] = r] /\ canary' = IdleCanary /\ lastEvent' = lastEvent
    BY <1>4 DEF PrintResult
  <2>5. results' \in [Comparisons -> [seen : Sightings, ok : BOOLEAN]]
    BY <2>3, <2>4 DEF RmTypeOK
  <2>6. \A d \in Comparisons : results'[d] = IF d = c THEN r ELSE results[d]
    BY <2>4 DEF RmTypeOK
  <2>7. [p \in BothProviders |-> "none"] \in Sightings
    BY DEF Sightings, LastEvents
  <2>8. RmTypeOK'
    BY <2>4, <2>5, <2>7 DEF RmTypeOK, IdleCanary, Canaries, CanaryPc
  <2>9. r.seen = canary.seen /\ (r.ok => CanaryOk(r.seen))
    OBVIOUS
  <2>10. ASSUME NEW d \in Comparisons
         PROVE  /\ \A p \in BothProviders : StillStands(results[d].seen[p], p, d)'
                /\ results'[d].ok => CanaryOk(results'[d].seen)
    <3>1. CASE d = c
      <4>1. results'[d] = r
        BY <2>6, <3>1
      <4>2. \A p \in BothProviders : StillStands(canary.seen[p], p, d)
        BY <2>1, <3>1 DEF RmSeenInv
      <4> HIDE DEF r
      <4> QED BY <4>1, <4>2, <2>4, <2>9 DEF StillStands
    <3>2. CASE d # c
      <4>1. results'[d] = results[d]
        BY <2>6, <3>2
      <4> QED BY <4>1, <2>4 DEF RmSeenInv, StillStands
    <3> QED BY <3>1, <3>2
  <2>11. canary'.pc = "idle"
    BY <2>4 DEF IdleCanary
  <2> QED BY <2>8, <2>10, <2>11 DEF RmSeenInv
<1>5. ASSUME AbortCanary PROVE RmInv'
  <2>1. [p \in BothProviders |-> "none"] \in Sightings
    BY DEF Sightings, LastEvents
  <2>2. canary'.pc = "idle" /\ canary' \in Canaries /\ UNCHANGED <<lastEvent, results>>
    BY <1>5, <2>1 DEF AbortCanary, IdleCanary, Canaries, CanaryPc
  <2> QED BY <2>2 DEF RmTypeOK, RmSeenInv, StillStands
<1>6. ASSUME NEW p \in BothProviders, NEW c \in Comparisons, NEW e \in TerminalEvents,
             ProviderEvent(p, c, e)
      PROVE  RmInv'
  <2>1. lastEvent' = [lastEvent EXCEPT ![p][c] = e] /\ e \in FollowedBy(lastEvent[p][c])
        /\ UNCHANGED <<canary, results>>
    BY <1>6 DEF ProviderEvent
  <2>2. e \in LastEvents
    BY DEF LastEvents
  <2>3. /\ lastEvent' \in [BothProviders -> [Comparisons -> LastEvents]]
        /\ \A event : \A q \in BothProviders, d \in Comparisons :
             StillStands(event, q, d) => StillStands(event, q, d)'
    BY <2>1, <2>2, MovesOnLemma
  <2> QED BY <2>1, <2>3 DEF RmTypeOK, RmSeenInv
<1>7. ASSUME NEW i \in Inventories, NEW e \in Evidences, BuildReport(i, e) PROVE RmInv'
  BY <1>7 DEF BuildReport, RmTypeOK, RmSeenInv, StillStands
<1>8. CASE UNCHANGED rmVars
  BY <1>8 DEF rmVars, RmTypeOK, RmSeenInv, StillStands
<1> QED BY <1>1, <1>2, <1>3, <1>4, <1>5, <1>6, <1>7, <1>8 DEF RmNext

\* What a canary has seen and what the results say stands.
THEOREM ResendInvariant == RmSpec => []RmInv
<1> QED BY RmInitLemma, RmStep, PTL DEF RmSpec

\* A stream that passes has a comparison that said ok, and its features are
\* verified.
LEMMA StreamPassesLemma ==
    ASSUME NEW s \in Streams, NEW i, NEW e, StreamPasses(s, i, e)
    PROVE  /\ \E c \in Comparisons : StreamOf[c] = s /\ results[c].ok
           /\ i.features[s] \subseteq e.verified[s]
<1>1. Matched(s) # {}
  BY FS_EmptySet DEF StreamPasses
<1> QED BY <1>1 DEF StreamPasses, Matched, Compared

\* A GO that is reported is earned.
LEMMA ReportLemma ==
    ASSUME RmInv, NEW i \in Inventories, NEW e \in Evidences, BuildReport(i, e),
           migrationReport'.decision = "GO"
    PROVE  /\ migrationReport'.used \subseteq migrationReport'.verified
           /\ \A s \in Streams : \E c \in Comparisons :
                 /\ StreamOf[c] = s
                 /\ \E x \in TerminalEvents : \A p \in BothProviders :
                       /\ results[c].seen[p] = x
                       /\ lastEvent[p][c] \in {x} \cup FollowedBy(x)
<1>1. GoDecision(i, e)
  BY DEF BuildReport, NoReport
<1>2. /\ migrationReport'.used = i.used
      /\ migrationReport'.verified = UNION {e.verified[s] : s \in Streams}
  BY <1>1 DEF BuildReport
<1>3. \A s \in Streams : StreamPasses(s, i, e)
  BY <1>1 DEF GoDecision
<1>4. i.used \subseteq UNION {i.features[s] : s \in Streams}
  BY DEF BuildReport, AcceptedInventory
<1>5. \A s \in Streams : i.features[s] \subseteq e.verified[s]
  BY <1>3, StreamPassesLemma
<1>6. migrationReport'.used \subseteq migrationReport'.verified
  BY <1>2, <1>4, <1>5
<1>7. ASSUME NEW s \in Streams
      PROVE  \E c \in Comparisons :
                 /\ StreamOf[c] = s
                 /\ \E x \in TerminalEvents : \A p \in BothProviders :
                       /\ results[c].seen[p] = x
                       /\ lastEvent[p][c] \in {x} \cup FollowedBy(x)
  <2>1. PICK c \in Comparisons : StreamOf[c] = s /\ results[c].ok
    BY <1>3, StreamPassesLemma
  <2>2. CanaryOk(results[c].seen)
    BY <2>1 DEF RmInv, RmSeenInv
  <2> DEFINE x == results[c].seen["HayaSend"]
  <2>3. x \in TerminalEvents /\ \A p \in BothProviders : results[c].seen[p] = x
    BY <2>2 DEF CanaryOk, BothProviders
  <2>4. \A p \in BothProviders : lastEvent[p][c] \in {x} \cup FollowedBy(x)
    BY <2>3 DEF RmInv, RmSeenInv, StillStands
  <2> QED BY <2>1, <2>3, <2>4
<1> QED BY <1>6, <1>7

\* A GO stands on what happened: every feature in use was verified, and in every
\* stream a canary saw the e-mails of both providers end in the same event.
THEOREM GoIsEarnedHolds == RmSpec => GoIsEarned
<1>1. ASSUME RmInv, [RmNext]_rmVars
      PROVE  [migrationReport'.decision = "GO" /\ migrationReport # migrationReport' =>
          /\ migrationReport'.used \subseteq migrationReport'.verified
          /\ \A s \in Streams : \E c \in Comparisons :
                /\ StreamOf[c] = s
                /\ \E e \in TerminalEvents : \A p \in BothProviders :
                      /\ results[c].seen[p] = e
                      /\ lastEvent[p][c] \in {e} \cup FollowedBy(e)]_rmVars
  <2>1. CASE \E i \in Inventories, e \in Evidences : BuildReport(i, e)
    BY <1>1, <2>1, ReportLemma
  <2>2. CASE ~\E i \in Inventories, e \in Evidences : BuildReport(i, e)
    <3>1. migrationReport' = migrationReport \/ migrationReport' = NoReport
      BY <1>1, <2>2 DEF RmNext, rmVars, StartCanary, SendCanary, PollCanary, PrintResult,
         AbortCanary, ProviderEvent
    <3> QED BY <3>1 DEF NoReport
  <2> QED BY <2>1, <2>2
<1> QED BY <1>1, ResendInvariant, PTL DEF RmSpec, GoIsEarned

-----------------------------------------------------------------------------
(* The Cloudflare commands, for any number of runs, builds and failing      *)
(* calls.                                                                   *)

CfVersions == [build : Nat, db : Nat]

Clouds == [present : SUBSET Resources, db : Nat, schema : Nat, consumers : SUBSET Queues,
           subscriptions : Nat, versions : SUBSET CfVersions, active : CfVersions,
           objects : SUBSET {"payload", "orphan"}]

CreationPoints == {"d1", "r2", "jobs", "dlq", "events"}

CleanupPoints == {"subscriptions", "consumers", "worker", "keys", "objects",
                  "r2", "jobs", "dlq", "events", "d1", "result"}

BuildPoints == {"listed", "migrate", "deploy", "upload", "activate"}

EndPoints == {"planned", "ok", "failed", "complete", "unresolved"}

CfPoints == CreationPoints \cup CleanupPoints \cup BuildPoints \cup EndPoints
              \cup {"idle", "rollback", "lookup", "create", "examine"}

CfRuns == [pc : CfPoints,
           cmd : {"none", "deploy", "upgrade", "rollback", "cleanup", "subscribe", "doctor"},
           build : Nat, db : Nat, keys : SUBSET {"payload", "orphan"},
           version : CfVersions, unresolved : BOOLEAN, alone : BOOLEAN, tries : Nat]

CfTypeOK == cloud \in Clouds /\ runs \in [Runs -> CfRuns]

\* A run is at a point of its own command.
CfPointsInv ==
    \A o \in Runs :
        /\ runs[o].pc \in BuildPoints => Building(o)
        /\ runs[o].cmd = "cleanup" => runs[o].pc \in CleanupPoints \cup EndPoints
        /\ runs[o].pc = "result" => runs[o].cmd = "cleanup"

\* A Worker made of build v finds its schema in the database it is bound to, as
\* long as that one is there.
FindsSchema(v, c) ==
    v.db <= c.db /\ (v.db = c.db /\ "d1" \in c.present => c.schema >= v.build)

\* That is so of every version, and of the one a run is about to upload or has.
CfSchemaInv ==
    /\ FindsSchema(cloud.active, cloud)
    /\ \A v \in cloud.versions : FindsSchema(v, cloud)
    /\ \A o \in Runs :
         /\ runs[o].db <= cloud.db
         /\ runs[o].pc \in {"deploy", "upload"} => FindsSchema(VersionOf(o), cloud)
         /\ runs[o].pc = "activate" => FindsSchema(runs[o].version, cloud)

\* A run that is alone is beside no deployment that goes on.
CfAloneInv ==
    \A o \in Runs : runs[o].alone => \A y \in Runs \ {o} : Ended(y) \/ ~Building(y)

\* What a cleanup has passed when it comes to a point.
PassedAt(point) ==
    IF point \in {"keys", "objects", "r2"} THEN {"worker"}
    ELSE IF point = "jobs" THEN {"worker", "r2"}
    ELSE IF point = "dlq" THEN {"worker", "r2", "jobs"}
    ELSE IF point = "events" THEN {"worker", "r2", "jobs", "dlq"}
    ELSE IF point = "d1" THEN {"worker", "r2"} \cup Queues
    ELSE IF point = "result" THEN Resources
    ELSE {}

\* A cleanup that is alone and has met nothing it could not do has removed what
\* it has passed, the subscription with its queue.
CfGoneInv ==
    \A o \in Runs : runs[o].cmd = "cleanup" /\ runs[o].alone /\ ~runs[o].unresolved =>
        /\ PassedAt(runs[o].pc) \cap cloud.present = {}
        /\ "events" \in PassedAt(runs[o].pc) => cloud.subscriptions = 0

CfInv == CfTypeOK /\ CfPointsInv /\ CfSchemaInv /\ CfAloneInv /\ CfGoneInv

-----------------------------------------------------------------------------
\* The account moves: a database comes anew, or its schema does not go back.
CloudMoves ==
    \/ cloud'.db > cloud.db
    \/ /\ cloud'.db = cloud.db /\ cloud'.schema >= cloud.schema
       /\ "d1" \in cloud'.present => "d1" \in cloud.present

\* What a version found, it finds.
LEMMA FindsLemma ==
    ASSUME cloud \in Clouds, cloud' \in Clouds, CloudMoves, NEW v \in CfVersions,
           FindsSchema(v, cloud)
    PROVE  FindsSchema(v, cloud')
BY DEF Clouds, CfVersions, CloudMoves, FindsSchema

\* A run in its command takes a step: what its new state and the account then
\* have to meet.
LEMMA CfFrame ==
    ASSUME CfInv, NEW o \in Runs, NEW r \in CfRuns, NEW passed,
           runs' = [runs EXCEPT ![o] = r], cloud' \in Clouds, ~Ended(o),
           r.cmd = runs[o].cmd, r.alone = runs[o].alone,
           r.pc \in BuildPoints => Building(o),
           r.cmd = "cleanup" => r.pc \in CleanupPoints \cup EndPoints,
           r.pc = "result" => r.cmd = "cleanup",
           CloudMoves, r.db <= cloud'.db,
           cloud'.active \in {cloud.active} \cup cloud.versions
             \/ FindsSchema(cloud'.active, cloud'),
           \A v \in cloud'.versions : v \in cloud.versions \/ FindsSchema(v, cloud'),
           r.pc \in {"deploy", "upload"} =>
             FindsSchema([build |-> r.build, db |-> r.db], cloud'),
           r.pc = "activate" => FindsSchema(r.version, cloud'),
           cloud'.present \subseteq cloud.present \/ Building(o),
           cloud'.subscriptions \in {0, cloud.subscriptions} \/ "events" \in cloud.present,
           passed = PassedAt(r.pc),
           r.cmd = "cleanup" /\ r.alone /\ ~r.unresolved =>
             passed \cap cloud'.present = {} /\ ("events" \in passed => cloud'.subscriptions = 0)
    PROVE  CfInv'
<1>1. /\ cloud \in Clouds /\ runs \in [Runs -> CfRuns]
      /\ \A y \in Runs : runs'[y] = IF y = o THEN r ELSE runs[y]
  BY DEF CfInv, CfTypeOK
<1>2. CfTypeOK'
  BY <1>1 DEF CfTypeOK
<1>3. \A y \in Runs : Building(y)' <=> Building(y)
  BY <1>1 DEF Building
<1>4. CfPointsInv'
  BY <1>1, <1>3 DEF CfInv, CfPointsInv
<1>5. \A v \in CfVersions : FindsSchema(v, cloud) => FindsSchema(v, cloud')
  BY <1>1, FindsLemma
<1>6. /\ cloud.active \in CfVersions /\ cloud.versions \subseteq CfVersions
      /\ \A y \in Runs : /\ runs[y].version \in CfVersions /\ runs[y].db \in Nat
                        /\ VersionOf(y) \in CfVersions
  BY <1>1 DEF Clouds, CfRuns, VersionOf, CfVersions
<1>7. cloud.db \in Nat /\ cloud'.db \in Nat /\ cloud'.db >= cloud.db
  BY <1>1 DEF Clouds, CloudMoves
<1>8. CfSchemaInv'
  <2>1. FindsSchema(cloud.active, cloud)' /\ \A v \in cloud'.versions : FindsSchema(v, cloud')
    BY <1>5, <1>6 DEF CfInv, CfSchemaInv, FindsSchema
  <2>2. ASSUME NEW y \in Runs
        PROVE  /\ runs'[y].db <= cloud'.db
               /\ runs'[y].pc \in {"deploy", "upload"} => FindsSchema(VersionOf(y), cloud)'
               /\ runs'[y].pc = "activate" => FindsSchema(runs[y].version, cloud)'
    <3>1. CASE y = o
      <4>1. runs'[y] = r
        BY <1>1, <3>1
      <4> QED BY <4>1 DEF VersionOf, FindsSchema
    <3>2. CASE y # o
      <4>1. runs'[y] = runs[y]
        BY <1>1, <3>2
      <4>2. runs[y].db <= cloud'.db
        BY <1>6, <1>7 DEF CfInv, CfSchemaInv
      <4>3. VersionOf(y)' = VersionOf(y)
        BY <4>1 DEF VersionOf
      <4>4. runs[y].pc \in {"deploy", "upload"} => FindsSchema(VersionOf(y), cloud')
        BY <1>5, <1>6 DEF CfInv, CfSchemaInv
      <4>5. runs[y].pc = "activate" => FindsSchema(runs[y].version, cloud')
        BY <1>5, <1>6 DEF CfInv, CfSchemaInv
      <4> QED BY <4>1, <4>2, <4>3, <4>4, <4>5 DEF FindsSchema
    <3> QED BY <3>1, <3>2
  <2> QED BY <2>1, <2>2 DEF CfSchemaInv, FindsSchema
<1>9. CfAloneInv'
  <2>1. \A y \in Runs \ {o} : Ended(y)' <=> Ended(y)
    BY <1>1 DEF Ended
  <2> QED BY <1>1, <1>3, <2>1 DEF CfInv, CfAloneInv, Ended
<1>10. CfGoneInv'
  <2>1. ASSUME NEW y \in Runs, y # o, runs[y].cmd = "cleanup", runs[y].alone, ~runs[y].unresolved
        PROVE  /\ PassedAt(runs[y].pc) \cap cloud'.present = {}
               /\ "events" \in PassedAt(runs[y].pc) => cloud'.subscriptions = 0
    <3>1. ~Building(o)
      BY <2>1 DEF CfInv, CfAloneInv
    <3> QED BY <2>1, <3>1 DEF CfInv, CfGoneInv
  <2>2. ASSUME NEW y \in Runs, runs'[y].cmd = "cleanup", runs'[y].alone, ~runs'[y].unresolved
        PROVE  /\ PassedAt(runs'[y].pc) \cap cloud'.present = {}
               /\ "events" \in PassedAt(runs'[y].pc) => cloud'.subscriptions = 0
    <3>1. CASE y = o
      BY <1>1, <2>2, <3>1
    <3>2. CASE y # o
      BY <1>1, <2>1, <2>2, <3>2
    <3> QED BY <3>1, <3>2
  <2> QED BY <2>2 DEF CfGoneInv, PassedAt
<1> QED BY <1>2, <1>4, <1>8, <1>9, <1>10 DEF CfInv

\* The account is left as it is.
LEMMA StillLemma ==
    ASSUME CfInv, cloud' = cloud
    PROVE  /\ cloud' \in Clouds /\ CloudMoves /\ cloud'.active \in {cloud.active} \cup cloud.versions
           /\ \A v \in cloud'.versions : v \in cloud.versions
           /\ cloud'.present \subseteq cloud.present
           /\ cloud'.subscriptions \in {0, cloud.subscriptions}
BY DEF CfInv, CfTypeOK, CloudMoves, Clouds

\* A run in its command ends, or goes to a point that promises nothing.
LEMMA CfStepLemma ==
    ASSUME CfInv, NEW o \in Runs, NEW point, ~Ended(o), Step(o, point), cloud' = cloud,
           point \in EndPoints \cup {"lookup", "create", "migrate"},
           point = "migrate" => Building(o),
           point \in {"lookup", "create"} => runs[o].cmd # "cleanup"
    PROVE  CfInv'
<1>1. runs[o] \in CfRuns
  BY DEF CfInv, CfTypeOK
<1>2. PICK r : r = [runs[o] EXCEPT !.pc = point]
  OBVIOUS
<1>3. point \in CfPoints
  BY DEF CfPoints, BuildPoints
<1>4. /\ r \in CfRuns /\ r.pc = point /\ r.cmd = runs[o].cmd /\ r.alone = runs[o].alone
      /\ r.db = runs[o].db
  BY <1>1, <1>2, <1>3 DEF CfRuns
<1>5. runs' = [runs EXCEPT ![o] = r]
  BY <1>2 DEF Step
<1>6. r.db <= cloud'.db
  BY <1>4 DEF CfInv, CfSchemaInv
<1>7. PassedAt(point) = {}
  BY DEF PassedAt, EndPoints
<1>8. point = "migrate" => r.cmd # "cleanup"
  BY <1>4 DEF Building, EndPoints
<1> QED BY <1>4, <1>5, <1>6, <1>7, <1>8, StillLemma, CfFrame
     DEF EndPoints, BuildPoints, CleanupPoints

\* The orders of the points, one by one.
LEMMA AfterCreationIs ==
    /\ AfterCreation("d1") = "r2" /\ AfterCreation("r2") = "jobs"
    /\ AfterCreation("jobs") = "dlq" /\ AfterCreation("dlq") = "events"
    /\ AfterCreation("events") = "listed"
    /\ \A x : (\E i \in 1 .. 5 : CreationOrder[i] = x) => x \in CreationPoints
<1> DEFINE place(x) == CHOOSE i \in 1 .. 5 : CreationOrder[i] = x
<1>1. place("d1") = 1 /\ place("r2") = 2 /\ place("jobs") = 3 /\ place("dlq") = 4
  <2>1. CreationOrder[1] = "d1" /\ CreationOrder[2] = "r2" /\ CreationOrder[3] = "jobs"
        /\ CreationOrder[4] = "dlq" /\ CreationOrder[5] = "events"
    BY DEF CreationOrder
  <2>2. \A i \in 1 .. 5 : i = 1 \/ i = 2 \/ i = 3 \/ i = 4 \/ i = 5
    OBVIOUS
  <2> QED BY <2>1, <2>2
<1>2. CreationOrder[1] = "d1" /\ CreationOrder[2] = "r2" /\ CreationOrder[3] = "jobs"
      /\ CreationOrder[4] = "dlq" /\ CreationOrder[5] = "events"
  BY DEF CreationOrder
<1>3. \A x : x # "events" => AfterCreation(x) = CreationOrder[1 + place(x)]
  BY DEF AfterCreation
<1>4. AfterCreation("events") = "listed"
  BY DEF AfterCreation
<1>5. \A x : (\E i \in 1 .. 5 : CreationOrder[i] = x) => x \in CreationPoints
  <2>1. \A i \in 1 .. 5 : i = 1 \/ i = 2 \/ i = 3 \/ i = 4 \/ i = 5
    OBVIOUS
  <2> QED BY <1>2, <2>1 DEF CreationPoints
<1> HIDE DEF place
<1> QED BY <1>1, <1>2, <1>3, <1>4, <1>5

\* What a cleanup goes on to, point by point.
LEMMA AfterCleanupIs ==
    /\ AfterCleanup("subscriptions") = "consumers" /\ AfterCleanup("consumers") = "worker"
    /\ AfterCleanup("worker") = "keys" /\ AfterCleanup("keys") = "objects"
    /\ AfterCleanup("objects") = "r2" /\ AfterCleanup("r2") = "jobs"
    /\ AfterCleanup("jobs") = "dlq" /\ AfterCleanup("dlq") = "events"
    /\ AfterCleanup("events") = "d1" /\ AfterCleanup("d1") = "result"
<1> DEFINE place(x) == CHOOSE i \in 1 .. 10 : CleanupOrder[i] = x
<1>1. /\ CleanupOrder[1] = "subscriptions" /\ CleanupOrder[2] = "consumers"
      /\ CleanupOrder[3] = "worker" /\ CleanupOrder[4] = "keys" /\ CleanupOrder[5] = "objects"
      /\ CleanupOrder[6] = "r2" /\ CleanupOrder[7] = "jobs" /\ CleanupOrder[8] = "dlq"
      /\ CleanupOrder[9] = "events" /\ CleanupOrder[10] = "d1" /\ CleanupOrder[11] = "result"
  BY DEF CleanupOrder
<1>2. \A i \in 1 .. 10 : i = 1 \/ i = 2 \/ i = 3 \/ i = 4 \/ i = 5 \/ i = 6 \/ i = 7 \/ i = 8
                          \/ i = 9 \/ i = 10
  OBVIOUS
<1>3. /\ place("subscriptions") = 1 /\ place("consumers") = 2 /\ place("worker") = 3
      /\ place("keys") = 4 /\ place("objects") = 5
  BY <1>1, <1>2
<1>4. /\ place("r2") = 6 /\ place("jobs") = 7 /\ place("dlq") = 8 /\ place("events") = 9
      /\ place("d1") = 10
  BY <1>1, <1>2
<1>5. \A x : AfterCleanup(x) = CleanupOrder[1 + place(x)]
  BY DEF AfterCleanup
<1> HIDE DEF place
<1> QED BY <1>1, <1>3, <1>4, <1>5

-----------------------------------------------------------------------------
\* A command starts: a deployment leaves nobody alone.
LEMMA BeginRunKeeps ==
    ASSUME CfInv, NEW o \in Runs, NEW cmd \in CfCommands, NEW b \in Builds,
           NEW apply \in BOOLEAN, NEW confirmed \in BOOLEAN,
           BeginRun(o, cmd, b, apply, confirmed)
    PROVE  CfInv'
<1> DEFINE s == StartOf(cmd, b, apply, confirmed)
           fresh == \A y \in Runs \ {o} : Ended(y) \/ ~Building(y)
<1>1. runs \in [Runs -> CfRuns] /\ cloud \in Clouds /\ cloud' = cloud
  BY DEF CfInv, CfTypeOK, BeginRun
<1>2. b \in Nat /\ cloud.db \in Nat
  BY <1>1, BuildsAreNumbers DEF Clouds
<1>3. IdleRun \in CfRuns
  BY DEF IdleRun, NoVersion, CfRuns, CfVersions, CfPoints
<1>4. \A first : requireMutationConfirmation(first, apply, confirmed) \in {first, "planned", "failed"}
  BY DEF requireMutationConfirmation
<1>5. /\ s \in CfRuns
      /\ s.db \in {0, cloud.db}
      /\ s.cmd \in {"deploy", "upgrade"} <=> cmd \in {"deploy", "upgrade"}
      /\ s.pc \in CfPoints /\ s.pc \notin {"deploy", "upload", "activate"}
      /\ s.pc \in BuildPoints => s.cmd \in {"deploy", "upgrade"}
      /\ s.cmd = "cleanup" => s.pc \in {"subscriptions"} \cup EndPoints
      /\ s.pc # "result"
  <2>1. CASE cmd = "deploy"
    <3>1. s = [IdleRun EXCEPT !.cmd = "deploy", !.build = b,
                    !.pc = requireMutationConfirmation("d1", apply, confirmed)]
      BY <2>1 DEF StartOf, deployCloudflareCommand
    <3>2. PICK p \in {"d1", "planned", "failed"} : p = requireMutationConfirmation("d1", apply, confirmed)
      BY <1>4
    <3>3. s = [IdleRun EXCEPT !.cmd = "deploy", !.build = b, !.pc = p]
      BY <3>1, <3>2
    <3> HIDE DEF s
    <3> QED BY <1>2, <1>3, <2>1, <3>2, <3>3
         DEF IdleRun, CfRuns, CfPoints, CreationPoints, CleanupPoints, EndPoints, BuildPoints
  <2>2. CASE cmd = "upgrade"
    <3>1. s = [IdleRun EXCEPT !.cmd = "upgrade", !.build = b, !.db = cloud.db,
                    !.pc = requireMutationConfirmation("migrate", apply, confirmed)]
      BY <2>2 DEF StartOf, upgradeCloudflareCommand
    <3>2. PICK p \in {"migrate", "planned", "failed"} : p = requireMutationConfirmation("migrate", apply, confirmed)
      BY <1>4
    <3>3. s = [IdleRun EXCEPT !.cmd = "upgrade", !.build = b, !.db = cloud.db, !.pc = p]
      BY <3>1, <3>2
    <3> HIDE DEF s
    <3> QED BY <1>2, <1>3, <2>2, <3>2, <3>3
         DEF IdleRun, CfRuns, CfPoints, CreationPoints, CleanupPoints, EndPoints, BuildPoints
  <2>3. CASE cmd = "rollback"
    <3>1. s = [IdleRun EXCEPT !.cmd = "rollback",
                    !.pc = requireMutationConfirmation("rollback", apply, confirmed)]
      BY <2>3 DEF StartOf, rollbackCloudflareCommand
    <3>2. PICK p \in {"rollback", "planned", "failed"} : p = requireMutationConfirmation("rollback", apply, confirmed)
      BY <1>4
    <3>3. s = [IdleRun EXCEPT !.cmd = "rollback", !.pc = p]
      BY <3>1, <3>2
    <3> HIDE DEF s
    <3> QED BY <1>2, <1>3, <2>3, <3>2, <3>3
         DEF IdleRun, CfRuns, CfPoints, CreationPoints, CleanupPoints, EndPoints, BuildPoints
  <2>4. CASE cmd = "cleanup"
    <3>1. s = [IdleRun EXCEPT !.cmd = "cleanup",
                    !.pc = requireMutationConfirmation("subscriptions", apply, confirmed)]
      BY <2>4 DEF StartOf, cleanupCloudflareCommand
    <3>2. PICK p \in {"subscriptions", "planned", "failed"} : p = requireMutationConfirmation("subscriptions", apply, confirmed)
      BY <1>4
    <3>3. s = [IdleRun EXCEPT !.cmd = "cleanup", !.pc = p]
      BY <3>1, <3>2
    <3> HIDE DEF s
    <3> QED BY <1>2, <1>3, <2>4, <3>2, <3>3
         DEF IdleRun, CfRuns, CfPoints, CreationPoints, CleanupPoints, EndPoints, BuildPoints
  <2>5. CASE cmd \notin {"deploy", "upgrade", "rollback", "cleanup"}
    <3>1. PICK c \in {"subscribe", "doctor"}, p \in {"lookup", "examine"} :
            s = [IdleRun EXCEPT !.cmd = c, !.pc = p]
      BY <2>5 DEF StartOf, subscribeCloudflareCommand, doctorCloudflareCommand
    <3> HIDE DEF s
    <3> QED BY <1>2, <1>3, <2>5, <3>1
         DEF IdleRun, CfRuns, CfPoints, CreationPoints, CleanupPoints, EndPoints, BuildPoints
  <2> QED BY <2>1, <2>2, <2>3, <2>4, <2>5
<1>6. PICK r : r = [s EXCEPT !.alone = fresh]
  OBVIOUS
<1>7. /\ r \in CfRuns /\ r.alone = fresh /\ r.pc = s.pc /\ r.cmd = s.cmd /\ r.db = s.db
  <2>1. fresh \in BOOLEAN
    OBVIOUS
  <2> HIDE DEF s, fresh
  <2> QED BY <1>5, <1>6, <2>1 DEF CfRuns
<1>8. PICK f : f = [x \in Runs |-> [runs[x] EXCEPT !.alone = @ /\ cmd \notin {"deploy", "upgrade"}]]
  OBVIOUS
<1>9. \A x \in Runs :
        /\ f[x] \in CfRuns /\ f[x].pc = runs[x].pc /\ f[x].cmd = runs[x].cmd
        /\ f[x].db = runs[x].db /\ f[x].build = runs[x].build
        /\ f[x].version = runs[x].version /\ f[x].unresolved = runs[x].unresolved
        /\ f[x].alone => runs[x].alone /\ cmd \notin {"deploy", "upgrade"}
  <2>1. SUFFICES ASSUME NEW x \in Runs
                 PROVE  /\ f[x] \in CfRuns /\ f[x].pc = runs[x].pc /\ f[x].cmd = runs[x].cmd
                        /\ f[x].db = runs[x].db /\ f[x].build = runs[x].build
                        /\ f[x].version = runs[x].version /\ f[x].unresolved = runs[x].unresolved
                        /\ f[x].alone => runs[x].alone /\ cmd \notin {"deploy", "upgrade"}
    OBVIOUS
  <2>2. PICK z \in CfRuns : z = runs[x]
    BY <1>1
  <2>3. PICK still \in BOOLEAN : still = (z.alone /\ cmd \notin {"deploy", "upgrade"})
    OBVIOUS
  <2>4. f[x] = [z EXCEPT !.alone = still]
    BY <1>8, <2>2, <2>3
  <2> HIDE DEF s, fresh
  <2> QED BY <2>2, <2>3, <2>4 DEF CfRuns
<1>10. \A x \in Runs : runs'[x] = IF x = o THEN r ELSE f[x]
  BY <1>6, <1>8 DEF BeginRun
<1>11. runs' \in [Runs -> CfRuns]
  <2>1. runs' = [x \in Runs |-> IF x = o THEN r ELSE f[x]]
    BY <1>6, <1>8 DEF BeginRun
  <2> QED BY <1>7, <1>9, <2>1
<1> HIDE DEF s, fresh
<1>12. CfTypeOK'
  BY <1>1, <1>11 DEF CfTypeOK
<1>13. CfPointsInv'
  <2>1. ASSUME NEW x \in Runs, x # o
        PROVE  runs'[x].pc = runs[x].pc /\ runs'[x].cmd = runs[x].cmd
    BY <1>9, <1>10, <2>1
  <2>2. runs'[o] = r
    BY <1>10
  <2> QED BY <1>5, <1>7, <2>1, <2>2 DEF CfInv, CfPointsInv, Building, CleanupPoints
<1>14. CfSchemaInv'
  <2>1. /\ FindsSchema(cloud.active, cloud)
        /\ \A v \in cloud.versions : FindsSchema(v, cloud)
    BY DEF CfInv, CfSchemaInv
  <2>2. ASSUME NEW x \in Runs
        PROVE  /\ runs'[x].db <= cloud.db
               /\ runs'[x].pc \in {"deploy", "upload"} =>
                    FindsSchema([build |-> runs'[x].build, db |-> runs'[x].db], cloud)
               /\ runs'[x].pc = "activate" => FindsSchema(runs'[x].version, cloud)
    <3>1. CASE x = o
      <4>1. runs'[x] = r
        BY <1>10, <3>1
      <4> QED BY <1>2, <1>5, <1>7, <4>1
    <3>2. CASE x # o
      <4>1. runs'[x] = f[x]
        BY <1>10, <3>2
      <4> QED BY <1>9, <4>1 DEF CfInv, CfSchemaInv, VersionOf
    <3> QED BY <3>1, <3>2
  <2> QED BY <1>1, <2>1, <2>2 DEF CfSchemaInv, VersionOf, FindsSchema
<1>15. CfAloneInv'
  <2>1. \A x \in Runs \ {o} : (Ended(x)' <=> Ended(x)) /\ (Building(x)' <=> Building(x))
    BY <1>9, <1>10 DEF Ended, Building
  <2>2. Building(o)' => cmd \in {"deploy", "upgrade"}
    BY <1>5, <1>7, <1>10 DEF Building
  <2>3. ASSUME NEW x \in Runs, runs'[x].alone
        PROVE  \A y \in Runs \ {x} : (Ended(y) \/ ~Building(y))'
    <3>1. CASE x = o
      BY <1>7, <1>10, <2>1, <2>3, <3>1 DEF fresh
    <3>2. CASE x # o
      <4>1. runs[x].alone /\ cmd \notin {"deploy", "upgrade"}
        BY <1>9, <1>10, <2>3, <3>2
      <4> QED BY <2>1, <2>2, <4>1 DEF CfInv, CfAloneInv
    <3> QED BY <3>1, <3>2
  <2> QED BY <2>3 DEF CfAloneInv
<1>16. CfGoneInv'
  <2>1. PassedAt(s.pc) = {} \/ s.cmd # "cleanup"
    BY <1>5 DEF PassedAt, EndPoints
  <2>2. ASSUME NEW x \in Runs, runs'[x].cmd = "cleanup", runs'[x].alone, ~runs'[x].unresolved
        PROVE  /\ PassedAt(runs'[x].pc) \cap cloud.present = {}
               /\ "events" \in PassedAt(runs'[x].pc) => cloud.subscriptions = 0
    <3>1. CASE x = o
      <4>1. runs'[x].pc = s.pc /\ s.cmd = "cleanup"
        BY <1>7, <1>10, <2>2, <3>1
      <4> QED BY <2>1, <4>1
    <3>2. CASE x # o
      BY <1>9, <1>10, <2>2, <3>2 DEF CfInv, CfGoneInv
    <3> QED BY <3>1, <3>2
  <2> QED BY <1>1, <2>2 DEF CfGoneInv, PassedAt
<1> QED BY <1>12, <1>13, <1>14, <1>15, <1>16 DEF CfInv

\* A run is cut short.
LEMMA RunStopsKeeps ==
    ASSUME CfInv, NEW o \in Runs, RunStops(o)
    PROVE  CfInv'
<1>1. PICK p \in EndPoints : p = "failed"
  BY DEF EndPoints
<1>2. ~Ended(o) /\ Step(o, p) /\ cloud' = cloud
  BY <1>1 DEF RunStops
<1>3. p \notin {"lookup", "create", "migrate"}
  BY <1>1
<1> QED BY <1>2, <1>3, CfStepLemma

\* The parts of the account by themselves.
LEMMA CloudLemma ==
    ASSUME NEW c \in Clouds
    PROVE  /\ c.present \subseteq Resources /\ c.db \in Nat /\ c.schema \in Nat
           /\ c.consumers \subseteq Queues /\ c.subscriptions \in Nat
           /\ c.versions \subseteq CfVersions /\ c.active \in CfVersions
           /\ c.objects \subseteq {"payload", "orphan"}
BY DEF Clouds

\* A resource is created, or its name is taken.
LEMMA CreateResourceKeeps ==
    ASSUME CfInv, NEW o \in Runs, CreateResource(o)
    PROVE  CfInv'
<1> DEFINE x == runs[o].pc
<1>1. x \in CreationPoints /\ runs[o].cmd = "deploy"
  BY AfterCreationIs DEF CreateResource
<1>2. ~Ended(o) /\ Building(o)
  BY <1>1 DEF Ended, Building, CreationPoints
<1>3. CASE x \in cloud.present
  BY <1>2, <1>3, CfStepLemma DEF CreateResource, EndPoints
<1>4. CASE x \notin cloud.present
  <2>1. runs[o] \in CfRuns /\ cloud \in Clouds
    BY DEF CfInv, CfTypeOK
  <2>2. x \in Resources
    BY <1>1 DEF CreationPoints, Resources, Queues
  <2>3. cloud' = [cloud EXCEPT !.present = @ \cup {x},
                           !.db = IF x = "d1" THEN @ + 1 ELSE @,
                           !.schema = IF x = "d1" THEN 0 ELSE @,
                           !.objects = IF x = "r2" THEN {} ELSE @,
                           !.subscriptions = IF x = "events" THEN 0 ELSE @]
    BY <1>4 DEF CreateResource
  <2>4. /\ cloud' \in Clouds /\ cloud'.present = cloud.present \cup {x}
        /\ cloud'.db = IF x = "d1" THEN cloud.db + 1 ELSE cloud.db
        /\ x # "d1" => cloud'.schema = cloud.schema
        /\ cloud'.versions = cloud.versions /\ cloud'.active = cloud.active
        /\ cloud'.subscriptions \in {0, cloud.subscriptions}
    <3> HIDE DEF x
    <3>1. cloud.db + 1 \in Nat
      BY <2>1, CloudLemma
    <3> QED BY <2>1, <2>2, <2>3, <3>1 DEF Clouds
  <2>5. CloudMoves
    BY <2>1, <2>4, CloudLemma DEF CloudMoves
  <2>6. PICK r : r = [[runs[o] EXCEPT !.db = cloud'.db] EXCEPT !.pc = AfterCreation(x)]
    OBVIOUS
  <2>7. AfterCreation(x) \in {"r2", "jobs", "dlq", "events", "listed"}
    BY <1>1, AfterCreationIs DEF CreationPoints
  <2>8. AfterCreation(x) \in CfPoints
    BY <2>7 DEF CfPoints, CreationPoints, BuildPoints
  <2>9. /\ r \in CfRuns /\ r.pc = AfterCreation(x) /\ r.cmd = "deploy" /\ r.db = cloud'.db
        /\ r.alone = runs[o].alone
    BY <1>1, <2>1, <2>4, <2>6, <2>8, CloudLemma DEF CfRuns
  <2>10. runs' = [runs EXCEPT ![o] = r]
    BY <1>4, <2>6 DEF CreateResource, Note
  <2>11. r.db <= cloud'.db
    BY <2>4, <2>9, CloudLemma
  <2>12. PICK q : q = PassedAt(r.pc)
    OBVIOUS
  <2>13. /\ r.pc \notin {"deploy", "upload", "activate", "result"}
         /\ r.cmd # "cleanup" /\ r.cmd = runs[o].cmd
    BY <1>1, <2>7, <2>9
  <2> HIDE DEF x
  <2> QED BY <1>1, <1>2, <2>4, <2>5, <2>9, <2>10, <2>11, <2>12, <2>13, CfFrame
<1> QED BY <1>3, <1>4

\* The subscriptions of a new queue are looked at.
LEMMA CheckSubscriptionsKeeps ==
    ASSUME CfInv, NEW o \in Runs, CheckSubscriptions(o)
    PROVE  CfInv'
<1>1. runs[o].pc = "listed"
  BY DEF CheckSubscriptions, Doing
<1>2. Building(o) /\ ~Ended(o)
  BY <1>1 DEF CfInv, CfPointsInv, BuildPoints, Ended
<1>3. PICK p \in {"migrate", "failed"} : Step(o, p) /\ cloud' = cloud
  BY DEF CheckSubscriptions
<1> QED BY <1>2, <1>3, CfStepLemma DEF EndPoints

\* Migrations never set a schema back.
LEMMA ApplyMigrationsKeeps ==
    ASSUME CfInv, NEW o \in Runs, ApplyMigrations(o)
    PROVE  CfInv'
<1>1. runs[o].pc = "migrate"
  BY DEF ApplyMigrations, Doing
<1>2. Building(o) /\ ~Ended(o)
  BY <1>1 DEF CfInv, CfPointsInv, BuildPoints, Ended
<1>3. CASE "d1" \in cloud.present /\ cloud.db = runs[o].db
  <2>1. runs[o] \in CfRuns /\ cloud \in Clouds
    BY DEF CfInv, CfTypeOK
  <2>2. PICK n : n = Larger(cloud.schema, runs[o].build)
    OBVIOUS
  <2>3. n \in Nat /\ n >= cloud.schema /\ n >= runs[o].build
    BY <2>1, <2>2, CloudLemma DEF Larger, CfRuns
  <2>4. cloud' = [cloud EXCEPT !.schema = n]
    BY <1>3, <2>2 DEF ApplyMigrations
  <2>5. /\ cloud' \in Clouds /\ cloud'.schema = n
        /\ cloud'.present = cloud.present /\ cloud'.db = cloud.db /\ cloud'.versions = cloud.versions
        /\ cloud'.active = cloud.active /\ cloud'.subscriptions = cloud.subscriptions
    BY <2>1, <2>3, <2>4 DEF Clouds
  <2>6. CloudMoves
    BY <2>1, <2>3, <2>5, CloudLemma DEF CloudMoves
  <2>7. PICK p \in {"deploy", "upload"} : Step(o, p)
    BY <1>3 DEF ApplyMigrations
  <2>8. PICK r : r = [runs[o] EXCEPT !.pc = p]
    OBVIOUS
  <2>9. /\ r \in CfRuns /\ r.pc = p /\ r.cmd = runs[o].cmd /\ r.db = runs[o].db
        /\ r.build = runs[o].build /\ r.alone = runs[o].alone
    BY <2>1, <2>7, <2>8 DEF CfRuns, CfPoints, BuildPoints
  <2>10. runs' = [runs EXCEPT ![o] = r]
    BY <2>7, <2>8 DEF Step
  <2>11. FindsSchema([build |-> r.build, db |-> r.db], cloud')
    BY <1>3, <2>1, <2>3, <2>5, <2>9, CloudLemma DEF FindsSchema
  <2>12. r.db <= cloud'.db
    BY <1>3, <2>1, <2>5, <2>9, CloudLemma
  <2>13. r.cmd # "cleanup"
    BY <1>2, <2>9 DEF Building
  <2>14. PICK q : q = PassedAt(r.pc)
    OBVIOUS
  <2>15. r.pc \notin {"activate", "result"}
    BY <2>7, <2>9
  <2> QED BY <1>2, <2>5, <2>6, <2>9, <2>10, <2>11, <2>12, <2>13, <2>14, <2>15, CfFrame
<1>4. CASE ~("d1" \in cloud.present /\ cloud.db = runs[o].db)
  BY <1>2, <1>4, CfStepLemma DEF ApplyMigrations, EndPoints
<1> QED BY <1>3, <1>4

\* A first deployment serves the build it has migrated for.
LEMMA DeployWorkerKeeps ==
    ASSUME CfInv, NEW o \in Runs, DeployWorker(o)
    PROVE  CfInv'
<1>1. runs[o].pc = "deploy"
  BY DEF DeployWorker, Doing
<1>2. Building(o) /\ ~Ended(o)
  BY <1>1 DEF CfInv, CfPointsInv, BuildPoints, Ended
<1>3. CASE Bound(o)
  <2>1. runs[o] \in CfRuns /\ cloud \in Clouds
    BY DEF CfInv, CfTypeOK
  <2>2. PICK v \in CfVersions : v = VersionOf(o)
    BY <2>1 DEF VersionOf, CfVersions, CfRuns
  <2>3. cloud' = [cloud EXCEPT !.present = @ \cup {"worker"}, !.versions = @ \cup {v},
                               !.active = v, !.consumers = Queues]
    BY <1>3, <2>2 DEF DeployWorker
  <2>4. /\ cloud' \in Clouds /\ cloud'.schema = cloud.schema
        /\ cloud'.present = cloud.present \cup {"worker"} /\ cloud'.db = cloud.db
        /\ cloud'.versions = cloud.versions \cup {v} /\ cloud'.active = v
        /\ cloud'.subscriptions = cloud.subscriptions
    BY <2>1, <2>2, <2>3 DEF Clouds, Resources
  <2>5. FindsSchema(v, cloud)
    BY <1>1, <2>2 DEF CfInv, CfSchemaInv
  <2>6. CloudMoves
    BY <2>1, <2>4, CloudLemma DEF CloudMoves
  <2>7. FindsSchema(v, cloud')
    BY <2>1, <2>4, <2>5, <2>6, FindsLemma
  <2>8. PICK r : r = [runs[o] EXCEPT !.pc = "ok"]
    OBVIOUS
  <2>9. /\ r \in CfRuns /\ r.pc = "ok" /\ r.cmd = runs[o].cmd /\ r.db = runs[o].db
        /\ r.alone = runs[o].alone
    BY <2>1, <2>8 DEF CfRuns, CfPoints, EndPoints
  <2>10. runs' = [runs EXCEPT ![o] = r]
    BY <1>3, <2>8 DEF DeployWorker, Step
  <2>11. r.db <= cloud'.db
    BY <2>4, <2>9 DEF CfInv, CfSchemaInv
  <2>12. r.cmd # "cleanup"
    BY <1>2, <2>9 DEF Building
  <2>13. PICK q : q = PassedAt(r.pc)
    OBVIOUS
  <2> QED BY <1>2, <2>4, <2>6, <2>7, <2>9, <2>10, <2>11, <2>12, <2>13, CfFrame
<1>4. CASE ~Bound(o)
  BY <1>2, <1>4, CfStepLemma DEF DeployWorker, EndPoints
<1> QED BY <1>3, <1>4

\* The version an upgrade uploads is one of the account's, and finds its schema.
LEMMA UploadVersionKeeps ==
    ASSUME CfInv, NEW o \in Runs, UploadVersion(o)
    PROVE  CfInv'
<1>1. runs[o].pc = "upload"
  BY DEF UploadVersion, Doing
<1>2. Building(o) /\ ~Ended(o)
  BY <1>1 DEF CfInv, CfPointsInv, BuildPoints, Ended
<1>3. CASE Bound(o) /\ "worker" \in cloud.present
  <2>1. runs[o] \in CfRuns /\ cloud \in Clouds
    BY DEF CfInv, CfTypeOK
  <2>2. PICK v \in CfVersions : v = VersionOf(o)
    BY <2>1 DEF VersionOf, CfVersions, CfRuns
  <2>3. cloud' = [cloud EXCEPT !.versions = @ \cup {v}]
    BY <1>3, <2>2 DEF UploadVersion
  <2>4. /\ cloud' \in Clouds /\ cloud'.schema = cloud.schema
        /\ cloud'.present = cloud.present /\ cloud'.db = cloud.db
        /\ cloud'.versions = cloud.versions \cup {v} /\ cloud'.active = cloud.active
        /\ cloud'.subscriptions = cloud.subscriptions
    BY <2>1, <2>2, <2>3 DEF Clouds
  <2>5. FindsSchema(v, cloud)
    BY <1>1, <2>2 DEF CfInv, CfSchemaInv
  <2>6. CloudMoves
    BY <2>1, <2>4, CloudLemma DEF CloudMoves
  <2>7. FindsSchema(v, cloud')
    BY <2>1, <2>4, <2>5, <2>6, FindsLemma
  <2>8. PICK r : r = [[runs[o] EXCEPT !.version = v] EXCEPT !.pc = "activate"]
    OBVIOUS
  <2>9. /\ r \in CfRuns /\ r.pc = "activate" /\ r.cmd = runs[o].cmd /\ r.db = runs[o].db
        /\ r.alone = runs[o].alone /\ r.version = v
    BY <2>1, <2>2, <2>8 DEF CfRuns, CfPoints, BuildPoints
  <2>10. runs' = [runs EXCEPT ![o] = r]
    BY <1>3, <2>2, <2>8 DEF UploadVersion, Note
  <2>11. r.db <= cloud'.db
    BY <2>4, <2>9 DEF CfInv, CfSchemaInv
  <2>12. r.cmd # "cleanup"
    BY <1>2, <2>9 DEF Building
  <2>13. PICK q : q = PassedAt(r.pc)
    OBVIOUS
  <2> QED BY <1>2, <2>4, <2>6, <2>7, <2>9, <2>10, <2>11, <2>12, <2>13, CfFrame
<1>4. CASE ~(Bound(o) /\ "worker" \in cloud.present)
  BY <1>2, <1>4, CfStepLemma DEF UploadVersion, EndPoints
<1> QED BY <1>3, <1>4

\* The version an upgrade activates is the one it uploaded; a failed attempt is
\* tried again.
LEMMA ActivateVersionKeeps ==
    ASSUME CfInv, NEW o \in Runs, ActivateVersion(o)
    PROVE  CfInv'
<1>1. runs[o].pc = "activate"
  BY DEF ActivateVersion, Doing
<1>2. Building(o) /\ ~Ended(o)
  BY <1>1 DEF CfInv, CfPointsInv, BuildPoints, Ended
<1>3. runs[o] \in CfRuns /\ cloud \in Clouds
  BY DEF CfInv, CfTypeOK
<1>4. FindsSchema(runs[o].version, cloud) /\ runs[o].db <= cloud.db
  BY <1>1 DEF CfInv, CfSchemaInv
<1>5. CASE /\ cloud' = [cloud EXCEPT !.active = runs[o].version]
           /\ Step(o, "ok")
  <2>1. PICK v \in CfVersions : v = runs[o].version
    BY <1>3 DEF CfRuns
  <2>2. cloud' = [cloud EXCEPT !.active = v]
    BY <1>5, <2>1
  <2>3. /\ cloud' \in Clouds /\ cloud'.schema = cloud.schema
        /\ cloud'.present = cloud.present /\ cloud'.db = cloud.db
        /\ cloud'.versions = cloud.versions /\ cloud'.active = v
        /\ cloud'.subscriptions = cloud.subscriptions
    BY <1>3, <2>1, <2>2 DEF Clouds
  <2>4. CloudMoves
    BY <1>3, <2>3, CloudLemma DEF CloudMoves
  <2>5. FindsSchema(v, cloud')
    BY <1>3, <1>4, <2>1, <2>3, <2>4, FindsLemma
  <2>6. PICK r : r = [runs[o] EXCEPT !.pc = "ok"]
    OBVIOUS
  <2>7. /\ r \in CfRuns /\ r.pc = "ok" /\ r.cmd = runs[o].cmd /\ r.db = runs[o].db
        /\ r.alone = runs[o].alone
    BY <1>3, <2>6 DEF CfRuns, CfPoints, EndPoints
  <2>8. runs' = [runs EXCEPT ![o] = r]
    BY <1>5, <2>6 DEF Step
  <2>9. r.db <= cloud'.db
    BY <1>4, <2>3, <2>7
  <2>10. r.cmd # "cleanup"
    BY <1>2, <2>7 DEF Building
  <2>11. PICK q : q = PassedAt(r.pc)
    OBVIOUS
  <2> QED BY <1>2, <2>3, <2>4, <2>5, <2>7, <2>8, <2>9, <2>10, <2>11, CfFrame
<1>6. CASE /\ Note(o, [runs[o] EXCEPT !.tries = @ + 1],
                  IF runs[o].tries + 1 < ActivationTries THEN "activate" ELSE "failed")
           /\ UNCHANGED cloud
  <2>1. PICK p \in {"activate", "failed"} :
          p = IF runs[o].tries + 1 < ActivationTries THEN "activate" ELSE "failed"
    OBVIOUS
  <2>2. PICK n \in Nat : n = runs[o].tries + 1
    BY <1>3 DEF CfRuns
  <2>3. PICK r : r = [[runs[o] EXCEPT !.tries = n] EXCEPT !.pc = p]
    OBVIOUS
  <2>4. /\ r \in CfRuns /\ r.pc = p /\ r.cmd = runs[o].cmd /\ r.db = runs[o].db
        /\ r.alone = runs[o].alone /\ r.version = runs[o].version
    BY <1>3, <2>1, <2>2, <2>3 DEF CfRuns, CfPoints, EndPoints, BuildPoints
  <2>5. runs' = [runs EXCEPT ![o] = r]
    BY <1>6, <2>1, <2>2, <2>3 DEF Note
  <2>6. cloud' = cloud
    BY <1>6
  <2>7. r.db <= cloud'.db /\ FindsSchema(r.version, cloud')
    BY <1>4, <2>4, <2>6
  <2>8. r.cmd # "cleanup"
    BY <1>2, <2>4 DEF Building
  <2>9. PICK q : q = PassedAt(r.pc)
    OBVIOUS
  <2>10. r.pc \notin {"deploy", "upload", "result"}
    BY <2>1, <2>4
  <2> QED BY <1>2, <2>4, <2>5, <2>6, <2>7, <2>8, <2>9, <2>10, StillLemma, CfFrame
<1> QED BY <1>5, <1>6 DEF ActivateVersion

\* A rollback goes back to a version of the account.
LEMMA RollbackKeeps ==
    ASSUME CfInv, NEW o \in Runs, Rollback(o)
    PROVE  CfInv'
<1>1. runs[o].pc = "rollback" /\ ~Ended(o) /\ runs[o].cmd # "cleanup"
  BY DEF Rollback, Doing, Ended, CfInv, CfPointsInv, CleanupPoints, EndPoints
<1>2. runs[o] \in CfRuns /\ cloud \in Clouds
  BY DEF CfInv, CfTypeOK
<1>3. CASE \E v \in cloud.versions : cloud' = [cloud EXCEPT !.active = v] /\ Step(o, "ok")
  <2>1. PICK v \in cloud.versions : cloud' = [cloud EXCEPT !.active = v]
    BY <1>3
  <2>2. v \in CfVersions
    BY <1>2, <2>1, CloudLemma
  <2>3. /\ cloud' \in Clouds /\ cloud'.schema = cloud.schema
        /\ cloud'.present = cloud.present /\ cloud'.db = cloud.db
        /\ cloud'.versions = cloud.versions /\ cloud'.active = v
        /\ cloud'.subscriptions = cloud.subscriptions
    BY <1>2, <2>1, <2>2 DEF Clouds
  <2>4. CloudMoves
    BY <1>2, <2>3, CloudLemma DEF CloudMoves
  <2>5. PICK r : r = [runs[o] EXCEPT !.pc = "ok"]
    OBVIOUS
  <2>6. /\ r \in CfRuns /\ r.pc = "ok" /\ r.cmd = runs[o].cmd /\ r.db = runs[o].db
        /\ r.alone = runs[o].alone
    BY <1>2, <2>5 DEF CfRuns, CfPoints, EndPoints
  <2>7. runs' = [runs EXCEPT ![o] = r]
    BY <1>3, <2>5 DEF Step
  <2>8. r.db <= cloud'.db
    BY <2>3, <2>6 DEF CfInv, CfSchemaInv
  <2>9. PICK q : q = PassedAt(r.pc)
    OBVIOUS
  <2>10. /\ cloud'.active \in {cloud.active} \cup cloud.versions
         /\ r.pc \notin BuildPoints \cup {"deploy", "upload", "activate", "result"}
         /\ r.cmd # "cleanup"
    BY <1>1, <2>1, <2>3, <2>6 DEF BuildPoints
  <2> QED BY <1>1, <2>3, <2>4, <2>6, <2>7, <2>8, <2>9, <2>10, CfFrame
<1>4. CASE Step(o, "failed") /\ cloud' = cloud
  <2>1. PICK p \in EndPoints : p = "failed"
    BY DEF EndPoints
  <2> QED BY <1>1, <1>4, <2>1, CfStepLemma
<1> QED BY <1>3, <1>4 DEF Rollback

\* The subscription of the event queue is looked up.
LEMMA LookUpSubscriptionKeeps ==
    ASSUME CfInv, NEW o \in Runs, LookUpSubscription(o)
    PROVE  CfInv'
<1>1. runs[o].pc = "lookup" /\ ~Ended(o) /\ runs[o].cmd # "cleanup"
  BY DEF LookUpSubscription, Doing, Ended, CfInv, CfPointsInv, CleanupPoints, EndPoints
<1>2. PICK p \in {"failed", "ok", "create"} : Step(o, p) /\ cloud' = cloud
  BY DEF LookUpSubscription
<1> QED BY <1>1, <1>2, CfStepLemma DEF EndPoints

\* It is created, at a queue that is there.
LEMMA CreateSubscriptionKeeps ==
    ASSUME CfInv, NEW o \in Runs, CreateSubscription(o)
    PROVE  CfInv'
<1>1. runs[o].pc = "create" /\ ~Ended(o) /\ runs[o].cmd # "cleanup"
  BY DEF CreateSubscription, Doing, Ended, CfInv, CfPointsInv, CleanupPoints, EndPoints
<1>2. runs[o] \in CfRuns /\ cloud \in Clouds
  BY DEF CfInv, CfTypeOK
<1>3. CASE "events" \in cloud.present
  <2>1. PICK n \in Nat : n = cloud.subscriptions + 1
    BY <1>2, CloudLemma
  <2>2. cloud' = [cloud EXCEPT !.subscriptions = n] /\ Step(o, "ok")
    BY <1>3, <2>1 DEF CreateSubscription
  <2>3. /\ cloud' \in Clouds /\ cloud'.schema = cloud.schema
        /\ cloud'.present = cloud.present /\ cloud'.db = cloud.db
        /\ cloud'.versions = cloud.versions /\ cloud'.active = cloud.active
    BY <1>2, <2>1, <2>2 DEF Clouds
  <2>4. CloudMoves
    BY <1>2, <2>3, CloudLemma DEF CloudMoves
  <2>5. PICK r : r = [runs[o] EXCEPT !.pc = "ok"]
    OBVIOUS
  <2>6. /\ r \in CfRuns /\ r.pc = "ok" /\ r.cmd = runs[o].cmd /\ r.db = runs[o].db
        /\ r.alone = runs[o].alone
    BY <1>2, <2>5 DEF CfRuns, CfPoints, EndPoints
  <2>7. runs' = [runs EXCEPT ![o] = r]
    BY <2>2, <2>5 DEF Step
  <2>8. r.db <= cloud'.db
    BY <2>3, <2>6 DEF CfInv, CfSchemaInv
  <2>9. PICK q : q = PassedAt(r.pc)
    OBVIOUS
  <2>10. /\ r.pc \notin BuildPoints \cup {"deploy", "upload", "activate", "result"}
         /\ r.cmd # "cleanup"
    BY <1>1, <2>6 DEF BuildPoints
  <2> QED BY <1>1, <1>3, <2>3, <2>4, <2>6, <2>7, <2>8, <2>9, <2>10, CfFrame
<1>4. CASE "events" \notin cloud.present
  <2>1. PICK p \in EndPoints : p = "failed"
    BY DEF EndPoints
  <2> QED BY <1>1, <1>4, <2>1, CfStepLemma DEF CreateSubscription
<1> QED BY <1>3, <1>4

\* The doctors only look.
LEMMA ExamineKeeps ==
    ASSUME CfInv, NEW o \in Runs, Examine(o)
    PROVE  CfInv'
<1>1. runs[o].pc = "examine" /\ ~Ended(o) /\ runs[o].cmd # "cleanup"
  BY DEF Examine, Doing, Ended, CfInv, CfPointsInv, CleanupPoints, EndPoints
<1>2. PICK p \in {"failed", "ok"} : Step(o, p) /\ cloud' = cloud
  BY DEF Examine
<1> QED BY <1>1, <1>2, CfStepLemma DEF EndPoints

\* The Worker stores a payload.
LEMMA StorePayloadKeeps ==
    ASSUME CfInv, NEW x \in {"payload", "orphan"}, StorePayload(x)
    PROVE  CfInv'
<1>1. cloud \in Clouds /\ runs' = runs
  BY DEF CfInv, CfTypeOK, StorePayload
<1>2. cloud' = [cloud EXCEPT !.objects = @ \cup {x}]
  BY DEF StorePayload
<1>3. /\ cloud' \in Clouds /\ cloud'.schema = cloud.schema
      /\ cloud'.present = cloud.present /\ cloud'.db = cloud.db
      /\ cloud'.versions = cloud.versions /\ cloud'.active = cloud.active
      /\ cloud'.subscriptions = cloud.subscriptions
  BY <1>1, <1>2 DEF Clouds
<1> QED BY <1>1, <1>3 DEF CfInv, CfTypeOK, CfPointsInv, CfSchemaInv, CfAloneInv, CfGoneInv,
     FindsSchema, VersionOf, Building, Ended, PassedAt

-----------------------------------------------------------------------------
\* What a deletion of a cleanup leaves.
LEMMA DeletedIs ==
    ASSUME cloud \in Clouds, NEW point \in CleanupPoints \ {"keys", "result"}, NEW keys,
           NEW c, c = Deleted(point, keys)
    PROVE  /\ c \in Clouds /\ c.db = cloud.db /\ c.schema = cloud.schema
           /\ c.versions \subseteq cloud.versions /\ c.active \in {cloud.active, NoVersion}
           /\ c.present \subseteq cloud.present
           /\ c.subscriptions \in {0, cloud.subscriptions}
           /\ point = "events" => c.subscriptions = 0
           /\ point \in Resources \ {"r2"} => point \notin c.present
           /\ point = "r2" => "r2" \notin c.present \/ cloud.objects # {}
<1>1. CASE point = "subscriptions"
  <2>1. c = [cloud EXCEPT !.subscriptions = 0]
    BY <1>1 DEF Deleted
  <2> QED BY <1>1, <2>1 DEF Clouds, Resources, Queues
<1>2. CASE point = "consumers"
  <2>1. c = [cloud EXCEPT !.consumers = {}]
    BY <1>2 DEF Deleted
  <2> QED BY <1>2, <2>1 DEF Clouds, Resources, Queues
<1>3. CASE point = "objects"
  <2>1. c = [cloud EXCEPT !.objects = @ \ keys]
    BY <1>3 DEF Deleted
  <2> QED BY <1>3, <2>1 DEF Clouds, Resources, Queues
<1>4. CASE point = "r2" /\ cloud.objects # {}
  <2>1. c = cloud
    BY <1>4 DEF Deleted
  <2> QED BY <1>4, <2>1 DEF Clouds, Resources, Queues
<1>5. CASE /\ point \notin {"subscriptions", "consumers", "objects"}
           /\ ~(point = "r2" /\ cloud.objects # {})
  <2>1. c = [cloud EXCEPT !.present = @ \ {point},
                 !.active = IF point = "worker" THEN NoVersion ELSE @,
                 !.versions = IF point = "worker" THEN {} ELSE @,
                 !.subscriptions = IF point = "events" THEN 0 ELSE @,
                 !.consumers = IF point = "worker" THEN {} ELSE @ \ {point}]
    BY <1>5 DEF Deleted, Without
  <2>2. NoVersion \in CfVersions
    BY DEF NoVersion, CfVersions
  <2>3. c \in Clouds
    <3>1. PICK left \in SUBSET Resources : left = cloud.present \ {point}
      BY CloudLemma
    <3>2. PICK active \in CfVersions : active = IF point = "worker" THEN NoVersion ELSE cloud.active
      BY <2>2, CloudLemma
    <3>3. PICK versions \in SUBSET CfVersions :
            versions = IF point = "worker" THEN {} ELSE cloud.versions
      BY CloudLemma
    <3>4. PICK n \in Nat : n = IF point = "events" THEN 0 ELSE cloud.subscriptions
      BY CloudLemma
    <3>5. PICK consumers \in SUBSET Queues :
            consumers = IF point = "worker" THEN {} ELSE cloud.consumers \ {point}
      BY CloudLemma
    <3>6. c = [cloud EXCEPT !.present = left, !.active = active, !.versions = versions,
                            !.subscriptions = n, !.consumers = consumers]
      BY <2>1, <3>1, <3>2, <3>3, <3>4, <3>5
    <3> QED BY <3>6 DEF Clouds
  <2>4. /\ c.db = cloud.db /\ c.schema = cloud.schema /\ c.present = cloud.present \ {point}
        /\ c.active = IF point = "worker" THEN NoVersion ELSE cloud.active
        /\ c.versions = IF point = "worker" THEN {} ELSE cloud.versions
        /\ c.subscriptions = IF point = "events" THEN 0 ELSE cloud.subscriptions
    BY <2>1 DEF Clouds
  <2> QED BY <1>5, <2>3, <2>4
<1> QED BY <1>1, <1>2, <1>3, <1>4, <1>5

\* A cleanup passes its points one by one.
LEMMA PassedLemma ==
    ASSUME NEW point \in CleanupPoints \ {"result"}
    PROVE  /\ AfterCleanup(point) \in CleanupPoints
           /\ PassedAt(AfterCleanup(point)) \subseteq PassedAt(point) \cup ({point} \cap Resources)
           /\ point = "keys" => PassedAt(AfterCleanup(point)) = PassedAt(point)
<1>1. CASE point \in {"subscriptions", "consumers", "worker", "keys"}
  BY <1>1, AfterCleanupIs DEF PassedAt, CleanupPoints, Resources, Queues
<1>2. CASE point \in {"objects", "r2", "jobs"}
  BY <1>2, AfterCleanupIs DEF PassedAt, CleanupPoints, Resources, Queues
<1>3. CASE point \in {"dlq", "events", "d1"}
  BY <1>3, AfterCleanupIs DEF PassedAt, CleanupPoints, Resources, Queues
<1> QED BY <1>1, <1>2, <1>3 DEF CleanupPoints

\* A cleanup goes on to its next point, whatever its call has done.
LEMMA CleanupFrame ==
    ASSUME CfInv, NEW o \in Runs, NEW u \in BOOLEAN, NEW point, NEW next,
           runs[o].cmd = "cleanup", ~Ended(o), point = runs[o].pc,
           point \in CleanupPoints \ {"keys", "result"}, next = AfterCleanup(point),
           cloud' \in {cloud, Deleted(point, runs[o].keys)},
           Note(o, [runs[o] EXCEPT !.unresolved = u], next),
           ~u => /\ ~runs[o].unresolved
                 /\ point \in Resources => point \notin cloud'.present
                 /\ point = "events" => cloud'.subscriptions = 0
    PROVE  CfInv'
<1>1. runs[o] \in CfRuns /\ cloud \in Clouds
  BY DEF CfInv, CfTypeOK
<1>2. PICK keys : keys = runs[o].keys
  OBVIOUS
<1>3. PICK c : c = Deleted(point, keys)
  OBVIOUS
<1>4. /\ c \in Clouds /\ c.db = cloud.db /\ c.schema = cloud.schema
      /\ c.versions \subseteq cloud.versions /\ c.active \in {cloud.active, NoVersion}
      /\ c.present \subseteq cloud.present
      /\ c.subscriptions \in {0, cloud.subscriptions}
  BY <1>1, <1>3, DeletedIs
<1>5. cloud' \in {cloud, c}
  BY <1>2, <1>3
<1>6. /\ cloud' \in Clouds /\ cloud'.db = cloud.db /\ cloud'.schema = cloud.schema
      /\ cloud'.versions \subseteq cloud.versions /\ cloud'.active \in {cloud.active, NoVersion}
      /\ cloud'.present \subseteq cloud.present
      /\ cloud'.subscriptions \in {0, cloud.subscriptions}
  BY <1>1, <1>4, <1>5
<1>7. CloudMoves
  BY <1>1, <1>6, CloudLemma DEF CloudMoves
<1>8. FindsSchema(NoVersion, cloud')
  BY <1>6, CloudLemma DEF FindsSchema, NoVersion
<1>9. PICK r : r = [[runs[o] EXCEPT !.unresolved = u] EXCEPT !.pc = next]
  OBVIOUS
<1>10. next \in CleanupPoints
  BY PassedLemma
<1>11. /\ r \in CfRuns /\ r.pc = next /\ r.cmd = "cleanup" /\ r.db = runs[o].db
       /\ r.alone = runs[o].alone /\ r.unresolved = u
  BY <1>1, <1>9, <1>10 DEF CfRuns, CfPoints
<1>12. runs' = [runs EXCEPT ![o] = r]
  BY <1>9 DEF Note
<1>13. r.db <= cloud'.db
  BY <1>6, <1>11 DEF CfInv, CfSchemaInv
<1>14. PICK q : q = PassedAt(r.pc)
  OBVIOUS
<1>15. q \subseteq PassedAt(point) \cup ({point} \cap Resources)
  BY <1>11, <1>14, PassedLemma
<1>16. ASSUME r.alone, ~r.unresolved
       PROVE  q \cap cloud'.present = {} /\ ("events" \in q => cloud'.subscriptions = 0)
  <2>1. ~u /\ runs[o].alone /\ ~runs[o].unresolved
    BY <1>11, <1>16
  <2>2. /\ PassedAt(point) \cap cloud.present = {}
        /\ "events" \in PassedAt(point) => cloud.subscriptions = 0
    BY <2>1 DEF CfInv, CfGoneInv
  <2>3. q \cap cloud'.present = {}
    BY <1>6, <1>15, <2>1, <2>2
  <2>4. "events" \in q => cloud'.subscriptions = 0
    BY <1>6, <1>15, <2>1, <2>2
  <2> QED BY <2>3, <2>4
<1>17. r.pc \notin BuildPoints \cup {"deploy", "upload", "activate"}
  BY <1>10, <1>11 DEF CleanupPoints, BuildPoints
<1>18. cloud'.active \in {cloud.active} \cup cloud.versions \/ FindsSchema(cloud'.active, cloud')
  BY <1>6, <1>8
<1>19. \A v \in cloud'.versions : v \in cloud.versions
  BY <1>6
<1> QED BY <1>6, <1>7, <1>10, <1>11, <1>12, <1>13, <1>14, <1>16, <1>17, <1>18, <1>19, CfFrame

\* A call of a cleanup: what it could not do is noted.
LEMMA CleanupCallKeeps ==
    ASSUME CfInv, NEW o \in Runs, CleanupCall(o)
    PROVE  CfInv'
<1>1. PICK point : point = runs[o].pc
  OBVIOUS
<1>2. /\ runs[o].cmd = "cleanup" /\ ~Ended(o)
      /\ point \in CleanupPoints \ {"keys", "result"}
  BY <1>1 DEF CleanupCall, Ended, EndPoints, CfInv, CfPointsInv
<1>3. runs[o] \in CfRuns /\ cloud \in Clouds
  BY DEF CfInv, CfTypeOK
<1>4. PICK keys : keys = runs[o].keys
  OBVIOUS
<1>5. PICK c : c = Deleted(point, keys)
  OBVIOUS
<1>6. /\ point = "events" => c.subscriptions = 0
      /\ point \in Resources \ {"r2"} => point \notin c.present
      /\ point = "r2" => "r2" \notin c.present \/ cloud.objects # {}
      /\ c.present \subseteq cloud.present
  BY <1>2, <1>3, <1>5, DeletedIs
<1>7. CASE /\ cloud' = Deleted(point, runs[o].keys)
           /\ Note(o, [runs[o] EXCEPT !.unresolved = @ \/ ~BestEffortOk(point)],
                   AfterCleanup(point))
  <2>1. BestEffortOk(point) \in BOOLEAN /\ runs[o].unresolved \in BOOLEAN
    BY <1>3 DEF BestEffortOk, CfRuns
  <2>2. PICK u \in BOOLEAN : u = (runs[o].unresolved \/ ~BestEffortOk(point))
    BY <2>1
  <2>3. Note(o, [runs[o] EXCEPT !.unresolved = u], AfterCleanup(point))
    BY <1>7, <2>2 DEF Note
  <2>4. cloud' = c
    BY <1>4, <1>5, <1>7
  <2>5. ~u => /\ ~runs[o].unresolved
              /\ point \in Resources => point \notin cloud'.present
    BY <1>6, <2>1, <2>2, <2>4 DEF BestEffortOk
  <2>6. PICK next : next = AfterCleanup(point)
    OBVIOUS
  <2>7. Note(o, [runs[o] EXCEPT !.unresolved = u], next)
    BY <2>3, <2>6
  <2>8. point = "events" => cloud'.subscriptions = 0
    BY <1>6, <2>4
  <2> QED BY <1>1, <1>2, <1>7, <2>5, <2>6, <2>7, <2>8, CleanupFrame
<1>8. CASE /\ cloud' \in {cloud, Deleted(point, runs[o].keys)}
           /\ Note(o, [runs[o] EXCEPT !.unresolved = @ \/ ~Resolved(point, cloud')],
                   AfterCleanup(point))
  <2>1. Resolved(point, cloud') \in BOOLEAN /\ runs[o].unresolved \in BOOLEAN
    BY <1>3 DEF Resolved, CfRuns
  <2>2. PICK u \in BOOLEAN : u = (runs[o].unresolved \/ ~Resolved(point, cloud'))
    BY <2>1
  <2>3. Note(o, [runs[o] EXCEPT !.unresolved = u], AfterCleanup(point))
    BY <1>8, <2>2 DEF Note
  <2>4. ~u => /\ ~runs[o].unresolved
              /\ point = "worker" /\ "worker" \notin cloud'.present
    BY <2>1, <2>2 DEF Resolved
  <2>5. PICK next : next = AfterCleanup(point)
    OBVIOUS
  <2>6. Note(o, [runs[o] EXCEPT !.unresolved = u], next)
    BY <2>3, <2>5
  <2> QED BY <1>1, <1>2, <1>8, <2>4, <2>5, <2>6, CleanupFrame
<1> QED BY <1>1, <1>7, <1>8 DEF CleanupCall

\* The payload keys are read, or not.
LEMMA ReadPayloadKeysKeeps ==
    ASSUME CfInv, NEW o \in Runs, ReadPayloadKeys(o)
    PROVE  CfInv'
<1>1. runs[o].pc = "keys" /\ ~Ended(o) /\ cloud' = cloud
  BY DEF ReadPayloadKeys, Doing, Ended
<1>2. runs[o] \in CfRuns /\ cloud \in Clouds
  BY DEF CfInv, CfTypeOK
<1>3. PICK keys \in SUBSET {"payload", "orphan"} :
        runs' = [runs EXCEPT ![o] = [[runs[o] EXCEPT !.keys = keys] EXCEPT !.pc = "objects"]]
  <2>1. CASE Note(o, [runs[o] EXCEPT !.keys =
                 IF "d1" \in cloud.present THEN cloud.objects \ {"orphan"} ELSE {}], "objects")
    <3>1. PICK keys : keys = IF "d1" \in cloud.present THEN cloud.objects \ {"orphan"} ELSE {}
      OBVIOUS
    <3>2. keys \in SUBSET {"payload", "orphan"}
      BY <1>2, <3>1, CloudLemma
    <3> QED BY <2>1, <3>1, <3>2 DEF Note
  <2>2. CASE Step(o, "objects")
    <3>1. runs[o].keys \in SUBSET {"payload", "orphan"}
      BY <1>2 DEF CfRuns
    <3>2. [[runs[o] EXCEPT !.keys = runs[o].keys] EXCEPT !.pc = "objects"]
            = [runs[o] EXCEPT !.pc = "objects"]
      BY <1>2 DEF CfRuns
    <3> QED BY <2>2, <3>1, <3>2 DEF Step
  <2> QED BY <2>1, <2>2 DEF ReadPayloadKeys
<1>4. PICK r : r = [[runs[o] EXCEPT !.keys = keys] EXCEPT !.pc = "objects"]
  OBVIOUS
<1>5. /\ r \in CfRuns /\ r.pc = "objects" /\ r.cmd = runs[o].cmd /\ r.db = runs[o].db
      /\ r.alone = runs[o].alone /\ r.unresolved = runs[o].unresolved
  BY <1>2, <1>3, <1>4 DEF CfRuns, CfPoints, CleanupPoints
<1>6. runs' = [runs EXCEPT ![o] = r]
  BY <1>3, <1>4
<1>7. r.db <= cloud'.db
  BY <1>1, <1>5 DEF CfInv, CfSchemaInv
<1>8. PICK q : q = PassedAt(r.pc)
  OBVIOUS
<1>9. q = PassedAt(runs[o].pc)
  BY <1>1, <1>5, <1>8 DEF PassedAt
<1>10. r.cmd = "cleanup" /\ r.alone /\ ~r.unresolved =>
         q \cap cloud'.present = {} /\ ("events" \in q => cloud'.subscriptions = 0)
  BY <1>1, <1>5, <1>9 DEF CfInv, CfGoneInv
<1>11. r.pc \in CleanupPoints \ (BuildPoints \cup {"deploy", "upload", "activate", "result"})
  BY <1>5 DEF BuildPoints, CleanupPoints
<1> QED BY <1>1, <1>5, <1>6, <1>7, <1>8, <1>10, <1>11, StillLemma, CfFrame

\* A cleanup tells its result.
LEMMA CleanupResultKeeps ==
    ASSUME CfInv, NEW o \in Runs, CleanupResult(o)
    PROVE  CfInv'
<1>1. runs[o].pc = "result" /\ ~Ended(o)
  BY DEF CleanupResult, Doing, Ended
<1>2. PICK p \in {"unresolved", "complete"} : Step(o, p) /\ cloud' = cloud
  BY DEF CleanupResult
<1> QED BY <1>1, <1>2, CfStepLemma DEF EndPoints

-----------------------------------------------------------------------------
\* The initial states.
LEMMA CfInitLemma == CfInit => CfInv
<1> SUFFICES ASSUME CfInit PROVE CfInv
  OBVIOUS
<1>1. IdleRun \in CfRuns /\ NoVersion \in CfVersions /\ IdleRun.cmd = "none"
      /\ IdleRun.pc = "idle" /\ IdleRun.db = 0
  BY DEF IdleRun, NoVersion, CfRuns, CfVersions, CfPoints
<1>2. runs \in [Runs -> CfRuns] /\ \A o \in Runs : runs[o] = IdleRun
  BY <1>1 DEF CfInit
<1>3. CASE cloud = NothingDeployed
  <2>1. cloud \in Clouds /\ cloud.versions = {} /\ cloud.active = NoVersion /\ cloud.db = 0
        /\ cloud.schema = 0
    BY <1>1, <1>3 DEF NothingDeployed, Clouds
  <2>2. FindsSchema(cloud.active, cloud)
    BY <2>1 DEF FindsSchema, NoVersion
  <2> QED BY <1>1, <1>2, <2>1, <2>2 DEF CfInv, CfTypeOK, CfPointsInv, CfSchemaInv, CfAloneInv, CfGoneInv,
       BuildPoints, Building
<1>4. ASSUME NEW b \in Builds, cloud = Deployed(b)
      PROVE  CfInv
  <2>1. b \in Nat
    BY BuildsAreNumbers
  <2>2. PICK v : v = [build |-> b, db |-> 1]
    OBVIOUS
  <2>3. cloud = [present |-> Resources, db |-> 1, schema |-> b, consumers |-> Queues,
                 subscriptions |-> 1, versions |-> {v}, active |-> v, objects |-> {"payload"}]
    BY <1>4, <2>2 DEF Deployed
  <2>4. v \in CfVersions /\ v.build = b /\ v.db = 1
    BY <2>1, <2>2 DEF CfVersions
  <2>5. cloud \in Clouds /\ cloud.versions = {v} /\ cloud.active = v /\ cloud.db = 1
        /\ cloud.schema = b
    BY <2>1, <2>3, <2>4 DEF Clouds
  <2>6. FindsSchema(v, cloud)
    BY <2>1, <2>4, <2>5 DEF FindsSchema
  <2> QED BY <1>1, <1>2, <2>5, <2>6 DEF CfInv, CfTypeOK, CfPointsInv, CfSchemaInv, CfAloneInv,
       CfGoneInv, BuildPoints, Building
<1> QED BY <1>3, <1>4 DEF CfInit

\* Every step keeps the invariant.
LEMMA CfStepKeeps == CfInv /\ [CfNext]_cfVars => CfInv'
<1> SUFFICES ASSUME CfInv, [CfNext]_cfVars PROVE CfInv'
  OBVIOUS
<1>1. CASE UNCHANGED cfVars
  <2>1. cloud' = cloud /\ runs' = runs
    BY <1>1 DEF cfVars
  <2> QED BY <2>1 DEF CfInv, CfTypeOK, CfPointsInv, CfSchemaInv, CfAloneInv, CfGoneInv,
       FindsSchema, VersionOf, Building, Ended, PassedAt
<1>2. CASE \E x \in {"payload", "orphan"} : StorePayload(x)
  BY <1>2, StorePayloadKeeps
<1>3. ASSUME NEW o \in Runs,
             \E cmd \in CfCommands, b \in Builds, apply, confirmed \in BOOLEAN :
               BeginRun(o, cmd, b, apply, confirmed)
      PROVE  CfInv'
  BY <1>3, BeginRunKeeps
<1>4. ASSUME NEW o \in Runs,
             RunStops(o) \/ CreateResource(o) \/ CheckSubscriptions(o) \/ ApplyMigrations(o)
               \/ DeployWorker(o) \/ UploadVersion(o) \/ ActivateVersion(o) \/ Rollback(o)
      PROVE  CfInv'
  BY <1>4, RunStopsKeeps, CreateResourceKeeps, CheckSubscriptionsKeeps, ApplyMigrationsKeeps,
     DeployWorkerKeeps, UploadVersionKeeps, ActivateVersionKeeps, RollbackKeeps
<1>5. ASSUME NEW o \in Runs,
             LookUpSubscription(o) \/ CreateSubscription(o) \/ Examine(o) \/ CleanupCall(o)
               \/ ReadPayloadKeys(o) \/ CleanupResult(o)
      PROVE  CfInv'
  BY <1>5, LookUpSubscriptionKeeps, CreateSubscriptionKeeps, ExamineKeeps, CleanupCallKeeps,
     ReadPayloadKeysKeeps, CleanupResultKeeps
<1> QED BY <1>1, <1>2, <1>3, <1>4, <1>5 DEF CfNext

\* What the runs have done, by where they are, and what every version finds.
THEOREM CloudflareInvariant == CfSpec => []CfInv
<1> QED BY CfInitLemma, CfStepKeeps, PTL DEF CfSpec

\* The Worker that serves never meets a schema older than its own.
THEOREM ServedSchemaIsMigratedHolds == CfSpec => []ServedSchemaIsMigrated
<1>1. CfInv => ServedSchemaIsMigrated
  BY DEF CfInv, CfSchemaInv, FindsSchema, ServedSchemaIsMigrated
<1> QED BY <1>1, CloudflareInvariant, PTL

\* A cleanup that reports itself complete, with no deployment beside it, has
\* left nothing.
THEOREM CompleteMeansGoneHolds == CfSpec => []CompleteMeansGone
<1>1. CfInv => CompleteMeansGone
  <2> SUFFICES ASSUME CfInv, NEW o \in Runs, Doing(o, "result"), ~runs[o].unresolved, runs[o].alone
               PROVE  cloud.present = {} /\ cloud.subscriptions = 0
    BY DEF CompleteMeansGone
  <2>1. runs[o].pc = "result" /\ runs[o].cmd = "cleanup"
    BY DEF Doing, CfInv, CfPointsInv
  <2>2. PassedAt("result") = Resources
    BY DEF PassedAt
  <2>3. Resources \cap cloud.present = {} /\ cloud.subscriptions = 0
    BY <2>1, <2>2 DEF CfInv, CfGoneInv, Resources, Queues
  <2>4. cloud.present \subseteq Resources
    BY CloudLemma DEF CfInv, CfTypeOK
  <2> QED BY <2>3, <2>4
<1> QED BY <1>1, CloudflareInvariant, PTL

-----------------------------------------------------------------------------
(* The AWS commands, for any number of sessions, failing calls, resource    *)
(* changes and creations of the stack.                                      *)

Targets == {"app", "bootstrap"}

StackStatuses ==
    CLEANUP_SAFE_STACK_STATUSES \cup InProgress
      \cup {"none", "REVIEW_IN_PROGRESS", "DELETE_FAILED"}

AwsStacks == [status : StackStatuses, protected : BOOLEAN, policy : BOOLEAN,
              managed : BOOLEAN, generation : Nat]

AwsChanges == Changes \cup {AddOnly, Empty}

AwsSets == [owner : Sessions \cup {"nobody"}, target : Targets, change : AwsChanges,
            done : BOOLEAN]

DeployCommands == {"deploy", "upgrade"}

DeployCalls == {"build", "before", "after", "policy"}

SharedCalls == {"create", "describe", "execute", "wait", "protect", "verify"}

CleanupCalls == {"inspect", "disable", "confirm", "delete", "recover", "gone", "purge"}

StatusCalls == {"drift", "report"}

SessionPoints ==
    DeployCalls \cup SharedCalls \cup CleanupCalls \cup StatusCalls
      \cup {"idle", "preflight", "planned", "failed", "ok", "operational"}

\* Before a session may have asked for a change set.
EarlyPoints == {"idle", "preflight", "build", "before", "create"}

AwsRuns == [pc : SessionPoints,
            cmd : {"none", "bootstrap", "cleanup", "status"} \cup DeployCommands,
            apply : BOOLEAN, allow : BOOLEAN, purge : BOOLEAN, disable : BOOLEAN,
            seen : AwsStacks, before : SUBSET AwsSets, set : AwsSets,
            purgeable : BOOLEAN, unprotected : BOOLEAN]

Contents == {"unused", "empty", "data", "absent"}

AwsTypeOK ==
    /\ stacks \in [Targets -> AwsStacks]
    /\ changeSets \subseteq AwsSets
    /\ resources \in [1 .. MaxGeneration -> Contents]
    /\ sessions \in [Sessions -> AwsRuns]

\* A session is at a point of its own command, executes a change set it has
\* inspected, and purges what it was asked to purge.
PointsOf(r) ==
    /\ r.pc \in DeployCalls => r.cmd \in DeployCommands
    /\ r.pc \in SharedCalls => r.cmd \in DeployCommands \cup {"bootstrap"}
    /\ r.pc \in CleanupCalls => r.cmd = "cleanup"
    /\ r.pc \in StatusCalls => r.cmd = "status"
    /\ r.pc \in {"describe", "execute"} =>
         r.set.target = IF r.cmd = "bootstrap" THEN "bootstrap" ELSE "app"
    /\ r.pc = "execute" /\ destructiveChanges(summarizeChanges(r.set.change)) => r.allow
    /\ r.purgeable => r.purge
    /\ r.pc = "purge" => r.purgeable

\* A session that has asked for no change set owns none, and has seen none of its own.
SeenByOthers(o, r) == r.cmd \in DeployCommands /\ r.pc = "create" => \A c \in r.before : c.owner # o

OwnersInv ==
    \A o \in Sessions :
        /\ sessions[o].pc \in EarlyPoints => \A c \in changeSets : c.owner # o
        /\ SeenByOthers(o, sessions[o])

\* The application stack: it has change sets only while there is something to
\* change, its generations are numbered as they are created, the one it runs on
\* has resources, and there is no data where none was ever complete.
StackInv ==
    /\ stacks["app"].status \in {"none", "DELETE_IN_PROGRESS", "DELETE_FAILED"} => SetsOf("app") = {}
    /\ \E n \in 0 .. MaxGeneration : \A g \in 1 .. MaxGeneration : resources[g] # "unused" <=> g <= n
    /\ stacks["app"].status \in CLEANUP_SAFE_STACK_STATUSES
                                  \cup {"CREATE_IN_PROGRESS", "UPDATE_IN_PROGRESS"} =>
         /\ stacks["app"].generation \in 1 .. MaxGeneration
         /\ resources[stacks["app"].generation] # "unused"
    /\ stacks["app"].status \in {"CREATE_IN_PROGRESS", "ROLLBACK_COMPLETE"} =>
         resources[stacks["app"].generation] # "data"

\* A generation whose creation was rolled back: it holds nothing, and no stack
\* will run on it again.
RolledBack(g) ==
    /\ g \in 1 .. MaxGeneration /\ resources[g] \in {"empty", "absent"}
    /\ stacks["app"].generation = g =>
         stacks["app"].status \in {"ROLLBACK_COMPLETE", "DELETE_IN_PROGRESS", "DELETE_FAILED"}

\* What a cleanup may purge was rolled back.
PurgeInv ==
    \A o \in Sessions :
        sessions[o].purge /\ sessions[o].pc \in CleanupCalls => RolledBack(sessions[o].seen.generation)

\* The application stack is there without one of its protections.
LeftOpen == Exists(stacks["app"]) /\ ~(stacks["app"].protected /\ stacks["app"].policy)

\* A session that cannot end well while the stack is open: one that has failed,
\* a deployment that has a change set or has executed one, a cleanup that has
\* switched the protection off.
AnswersFor(r, sets) ==
    \/ r.pc = "failed"
    \/ r.cmd \in DeployCommands /\ r.pc \in {"describe", "execute", "wait", "policy", "protect", "verify"}
    \/ r.cmd \in DeployCommands /\ r.pc = "after" /\ sets \ r.before # {}
    \/ r.cmd = "cleanup" /\ r.pc \in {"confirm", "delete", "recover", "gone"}

\* A session that is no deployment, or one that has seen the stack and not ended.
Bystander(r) ==
    r.cmd \in DeployCommands =>
        r.pc \in {"idle", "preflight", "planned", "failed"} \/ (r.pc # "ok" /\ Exists(r.seen))

\* An open stack has somebody to answer for it, or was open when it was found.
ProtectionInv ==
    LeftOpen => \/ \E o \in Sessions : AnswersFor(sessions[o], SetsOf("app"))
            \/ \A o \in Sessions : Bystander(sessions[o])

AwsInv ==
    /\ AwsTypeOK
    /\ \A o \in Sessions : PointsOf(sessions[o])
    /\ OwnersInv /\ StackInv /\ PurgeInv /\ ProtectionInv
    /\ NothingLostUnacknowledged

-----------------------------------------------------------------------------
\* A session takes a step: what its new state, the stack and the change sets
\* have to meet.
LEMMA AwsFrame ==
    ASSUME AwsInv, NEW o \in Sessions, NEW r \in AwsRuns,
           sessions' = [sessions EXCEPT ![o] = r],
           stacks' \in [Targets -> AwsStacks], changeSets' \subseteq AwsSets,
           resources' \in [1 .. MaxGeneration -> Contents],
           PointsOf(r), StackInv', SeenByOthers(o, r),
           \A c \in changeSets' : c.owner = o \/ \E d \in changeSets : d.owner = c.owner,
           r.pc \in EarlyPoints => sessions[o].pc \in EarlyPoints /\ UNCHANGED changeSets,
           \A g \in Nat : RolledBack(g) => RolledBack(g)',
           r.purge /\ r.pc \in CleanupCalls => RolledBack(r.seen.generation)',
           NothingLostUnacknowledged',
           \/ ~LeftOpen'
           \/ AnswersFor(r, SetsOf("app")')
           \/ /\ LeftOpen /\ SetsOf("app") \subseteq SetsOf("app")'
              /\ ~AnswersFor(sessions[o], SetsOf("app"))
              /\ Bystander(sessions[o]) => Bystander(r)
    PROVE  AwsInv'
<1>1. \A p \in Sessions : sessions'[p] = IF p = o THEN r ELSE sessions[p]
  BY DEF AwsInv, AwsTypeOK
<1>2. AwsTypeOK'
  BY DEF AwsInv, AwsTypeOK
<1>3. \A p \in Sessions : PointsOf(sessions[p])'
  <2>1. ASSUME NEW p \in Sessions PROVE PointsOf(sessions'[p])
    BY <1>1 DEF AwsInv
  <2> QED BY <2>1 DEF PointsOf
<1>4. \A p \in Sessions : sessions[p].seen.generation \in Nat
  BY DEF AwsInv, AwsTypeOK, AwsRuns, AwsStacks
<1>5. PurgeInv'
  <2>1. ASSUME NEW p \in Sessions, sessions'[p].purge, sessions'[p].pc \in CleanupCalls
        PROVE  RolledBack(sessions[p].seen.generation)'
    <3>1. CASE p = o
      <4>1. sessions'[p] = r
        BY <1>1, <3>1
      <4> QED BY <2>1, <4>1 DEF RolledBack
    <3>2. CASE p # o
      <4>1. sessions'[p] = sessions[p]
        BY <1>1, <3>2
      <4>2. RolledBack(sessions[p].seen.generation)
        BY <2>1, <4>1 DEF AwsInv, PurgeInv
      <4>3. PICK g \in Nat : g = sessions[p].seen.generation
        BY <1>4
      <4>4. RolledBack(g)'
        BY <4>2, <4>3
      <4> QED BY <4>1, <4>3, <4>4 DEF RolledBack
    <3> QED BY <3>1, <3>2
  <2> QED BY <2>1 DEF PurgeInv
<1>6. ProtectionInv'
  <2>1. SUFFICES ASSUME LeftOpen'
                 PROVE  \/ \E p \in Sessions : AnswersFor(sessions[p], SetsOf("app"))'
                        \/ \A p \in Sessions : Bystander(sessions[p])'
    BY DEF ProtectionInv
  <2>2. CASE AnswersFor(r, SetsOf("app")')
    <3>1. AnswersFor(sessions'[o], SetsOf("app")')
      BY <1>1, <2>2
    <3> QED BY <3>1 DEF AnswersFor
  <2>3. CASE /\ LeftOpen /\ SetsOf("app") \subseteq SetsOf("app")'
             /\ ~AnswersFor(sessions[o], SetsOf("app"))
             /\ Bystander(sessions[o]) => Bystander(r)
    <3>1. CASE \E p \in Sessions : AnswersFor(sessions[p], SetsOf("app"))
      <4>1. PICK p \in Sessions : AnswersFor(sessions[p], SetsOf("app"))
        BY <3>1
      <4>2. p # o
        BY <2>3, <4>1
      <4>3. sessions'[p] = sessions[p]
        BY <1>1, <4>2
      <4>4. AnswersFor(sessions[p], SetsOf("app")')
        BY <2>3, <4>1 DEF AnswersFor
      <4>5. AnswersFor(sessions'[p], SetsOf("app")')
        BY <4>3, <4>4
      <4> QED BY <4>5 DEF AnswersFor
    <3>2. CASE \A p \in Sessions : Bystander(sessions[p])
      <4>1. \A p \in Sessions : Bystander(sessions'[p])
        BY <1>1, <2>3, <3>2
      <4> QED BY <4>1 DEF Bystander, Exists
    <3> QED BY <2>3, <3>1, <3>2 DEF AwsInv, ProtectionInv
  <2> QED BY <2>1, <2>2, <2>3
<1>7. OwnersInv'
  <2>1. ASSUME NEW p \in Sessions, sessions'[p].pc \in EarlyPoints PROVE \A c \in changeSets' : c.owner # p
    BY <1>1, <2>1 DEF AwsInv, OwnersInv
  <2>2. \A p \in Sessions : SeenByOthers(p, sessions'[p])
    BY <1>1 DEF AwsInv, OwnersInv
  <2> QED BY <2>1, <2>2 DEF OwnersInv, SeenByOthers
<1> QED BY <1>2, <1>3, <1>5, <1>6, <1>7 DEF AwsInv

\* The parts of the invariant that leave the sessions out keep with the
\* application stack, its change sets and its resources.
LEMMA AwsSame ==
    ASSUME stacks'["app"] = stacks["app"], SetsOf("app")' = SetsOf("app"), UNCHANGED <<resources, effects>>
    PROVE  /\ StackInv' = StackInv /\ LeftOpen' = LeftOpen
           /\ \A g : RolledBack(g)' = RolledBack(g)
           /\ NothingLostUnacknowledged' = NothingLostUnacknowledged
BY DEF StackInv, LeftOpen, RolledBack, Exists, NothingLostUnacknowledged

\* A session takes a step that changes nothing of the account.
LEMMA AwsStill ==
    ASSUME AwsInv, NEW o \in Sessions, NEW r \in AwsRuns,
           sessions' = [sessions EXCEPT ![o] = r],
           UNCHANGED <<stacks, changeSets, resources, effects>>,
           PointsOf(r), SeenByOthers(o, r), r.pc \in EarlyPoints => sessions[o].pc \in EarlyPoints,
           r.purge /\ r.pc \in CleanupCalls => RolledBack(r.seen.generation),
           \/ ~LeftOpen
           \/ AnswersFor(r, SetsOf("app"))
           \/ /\ ~AnswersFor(sessions[o], SetsOf("app"))
              /\ Bystander(sessions[o]) => Bystander(r)
    PROVE  AwsInv'
<1>1. stacks' \in [Targets -> AwsStacks] /\ changeSets' \subseteq AwsSets
      /\ resources' \in [1 .. MaxGeneration -> Contents]
  BY DEF AwsInv, AwsTypeOK
<1>2. /\ StackInv' /\ SetsOf("app")' = SetsOf("app") /\ LeftOpen' = LeftOpen
      /\ NothingLostUnacknowledged'
  BY AwsSame DEF AwsInv, SetsOf
<1>3. \A g \in Nat : RolledBack(g) => RolledBack(g)'
  BY AwsSame DEF SetsOf
<1>4. r.seen.generation \in Nat
  BY DEF AwsRuns, AwsStacks
<1>5. r.purge /\ r.pc \in CleanupCalls => RolledBack(r.seen.generation)'
  BY <1>3, <1>4
<1>6. \/ ~LeftOpen'
      \/ AnswersFor(r, SetsOf("app")')
      \/ /\ LeftOpen /\ SetsOf("app") \subseteq SetsOf("app")'
         /\ ~AnswersFor(sessions[o], SetsOf("app"))
         /\ Bystander(sessions[o]) => Bystander(r)
  BY <1>2
<1> QED BY <1>1, <1>2, <1>3, <1>5, <1>6, AwsFrame

\* A session at another point.
LEMMA SessionPointLemma ==
    ASSUME NEW s \in AwsRuns, NEW p \in SessionPoints, NEW r, r = [s EXCEPT !.pc = p]
    PROVE  /\ r \in AwsRuns /\ r.pc = p /\ r.cmd = s.cmd /\ r.apply = s.apply /\ r.allow = s.allow
           /\ r.purge = s.purge /\ r.disable = s.disable /\ r.seen = s.seen
           /\ r.before = s.before /\ r.set = s.set /\ r.purgeable = s.purgeable
           /\ r.unprotected = s.unprotected
BY DEF AwsRuns

\* A session goes on to a point at which it knows no more than before.
LEMMA SessionGoesOn ==
    ASSUME AwsInv, NEW o \in Sessions, NEW p \in SessionPoints, Go(o, p),
           UNCHANGED <<stacks, changeSets, resources, effects>>,
           NEW s \in AwsRuns, s = sessions[o],
           p \in DeployCalls => s.cmd \in DeployCommands,
           p \in SharedCalls => s.cmd \in DeployCommands \cup {"bootstrap"},
           p \in CleanupCalls => s.cmd = "cleanup" /\ s.pc \in CleanupCalls,
           p \in StatusCalls => s.cmd = "status",
           p # "describe" /\ p # "create", p \in EarlyPoints => s.pc \in EarlyPoints,
           p = "execute" => /\ s.pc = "describe"
                            /\ destructiveChanges(summarizeChanges(s.set.change)) => s.allow,
           p = "purge" => s.purgeable,
           \/ ~LeftOpen
           \/ p = "failed"
           \/ s.cmd \in DeployCommands /\ p \in {"execute", "wait", "policy", "protect", "verify"}
           \/ s.cmd = "cleanup" /\ p \in {"confirm", "delete", "recover", "gone"}
           \/ /\ ~AnswersFor(s, SetsOf("app"))
              /\ \/ s.cmd \notin DeployCommands
                 \/ p = "planned"
                 \/ p # "ok" /\ s.pc \notin {"idle", "preflight", "planned", "failed"}
                 \/ ~Exists(s.seen) /\ s.pc \notin {"idle", "preflight", "planned", "failed"}
    PROVE  AwsInv'
<1>1. PICK r : r = [s EXCEPT !.pc = p]
  OBVIOUS
<1>2. /\ r \in AwsRuns /\ r.pc = p /\ r.cmd = s.cmd /\ r.allow = s.allow
      /\ r.purge = s.purge /\ r.seen = s.seen
      /\ r.before = s.before /\ r.set = s.set /\ r.purgeable = s.purgeable
  BY <1>1, SessionPointLemma
<1>3. sessions' = [sessions EXCEPT ![o] = r]
  BY <1>1 DEF Go
<1>4. PointsOf(s)
  BY DEF AwsInv
<1>5. PointsOf(r)
  BY <1>2, <1>4 DEF PointsOf
<1>6. r.purge /\ r.pc \in CleanupCalls => RolledBack(r.seen.generation)
  <2>1. s.purge /\ s.pc \in CleanupCalls => RolledBack(s.seen.generation)
    BY DEF AwsInv, PurgeInv
  <2> QED BY <1>2, <2>1
<1>7. \/ ~LeftOpen
      \/ AnswersFor(r, SetsOf("app"))
      \/ /\ ~AnswersFor(s, SetsOf("app"))
         /\ Bystander(s) => Bystander(r)
  BY <1>2 DEF AnswersFor, Bystander
<1>8. SeenByOthers(o, r)
  BY <1>2 DEF SeenByOthers
<1> QED BY <1>2, <1>3, <1>5, <1>6, <1>7, <1>8, AwsStill

\* A session fails.
LEMMA SessionFails ==
    ASSUME AwsInv, NEW o \in Sessions, NEW p, p = "failed", Go(o, p),
           UNCHANGED <<stacks, changeSets, resources, effects>>
    PROVE  AwsInv'
<1>1. PICK s \in AwsRuns : s = sessions[o]
  BY DEF AwsInv, AwsTypeOK
<1>2. p \in SessionPoints /\ p \notin DeployCalls \cup SharedCalls \cup CleanupCalls \cup StatusCalls \cup EarlyPoints
  BY DEF SessionPoints, DeployCalls, SharedCalls, CleanupCalls, StatusCalls, EarlyPoints
<1> QED BY <1>1, <1>2, SessionGoesOn

\* What a session is, and has.
LEMMA SessionLemma ==
    ASSUME AwsInv, NEW o \in Sessions
    PROVE  /\ sessions[o] \in AwsRuns /\ PointsOf(sessions[o])
           /\ stacks \in [Targets -> AwsStacks] /\ stacks["app"] \in AwsStacks
           /\ Target(o) \in Targets /\ Stack(o) \in AwsStacks
           /\ sessions[o].cmd # "bootstrap" => Target(o) = "app" /\ Stack(o) = stacks["app"]
BY DEF AwsInv, AwsTypeOK, Targets, Target, Stack

\* A call fails that has changed nothing.
LEMMA AfterFailureKeeps ==
    ASSUME AwsInv, NEW o \in Sessions, Go(o, AfterFailure(o)),
           UNCHANGED <<stacks, changeSets, resources, effects>>
    PROVE  AwsInv'
<1>1. PICK s \in AwsRuns : s = sessions[o]
  BY DEF AwsInv, AwsTypeOK
<1>2. PICK p : p = AfterFailure(o)
  OBVIOUS
<1>3. Go(o, p)
  BY <1>2
<1>4. CASE p = "failed"
  BY <1>3, <1>4, SessionFails
<1>5. CASE p = "recover" /\ s.pc = "delete"
  <2>1. s.cmd = "cleanup"
    BY <1>1, <1>5 DEF AwsInv, PointsOf, CleanupCalls
  <2>2. /\ p \in SessionPoints /\ s.pc \in CleanupCalls
        /\ p \notin DeployCalls \cup SharedCalls \cup StatusCalls \cup EarlyPoints
    BY <1>5 DEF SessionPoints, DeployCalls, SharedCalls, CleanupCalls, StatusCalls, EarlyPoints
  <2> QED BY <1>1, <1>3, <1>5, <2>1, <2>2, SessionGoesOn
<1> QED BY <1>1, <1>2, <1>4, <1>5 DEF AfterFailure, At

\* A failing call.
LEMMA CallFailsKeeps ==
    ASSUME AwsInv, NEW o \in Sessions, CallFails(o)
    PROVE  AwsInv'
BY AfterFailureKeeps DEF CallFails

\* Where a call that took effect leaves the session.
LEMMA AnsweredLemma ==
    ASSUME NEW o \in Sessions, NEW next, Answered(o, next)
    PROVE  \E p \in {next, "failed", "recover"} :
              /\ Go(o, p)
              /\ p # next /\ p = "recover" => At(o, "delete")
BY DEF Answered, AfterFailure

-----------------------------------------------------------------------------
\* A run of a command, before it starts.
LEMMA NewSessionLemma ==
    ASSUME NEW a \in BOOLEAN, NEW d \in BOOLEAN, NEW q \in BOOLEAN, NEW x \in BOOLEAN,
           NEW k \in {"none", "bootstrap", "cleanup", "status"} \cup DeployCommands
    PROVE  /\ NewSession(k, a, d, q, x) \in AwsRuns
           /\ NewSession(k, a, d, q, x).pc = "idle" /\ NewSession(k, a, d, q, x).cmd = k
           /\ ~NewSession(k, a, d, q, x).purgeable
<1>1. NoStack \in AwsStacks
  BY DEF NoStack, AwsStacks, StackStatuses
<1>2. NoSet \in AwsSets
  BY DEF NoSet, AwsSets, Targets, AwsChanges
<1> QED BY <1>1, <1>2 DEF NewSession, AwsRuns, SessionPoints

\* The flags of a command make a run of its kind.
LEMMA FlagsLemma ==
    ASSUME NEW cmd, NEW f \in FlagsOf(cmd)
    PROVE  f \in AwsRuns /\ ~f.purgeable
<1>1. ASSUME NEW a \in BOOLEAN, NEW d \in BOOLEAN, NEW q \in BOOLEAN, NEW x \in BOOLEAN,
             NEW k \in {"none", "bootstrap", "cleanup", "status"} \cup DeployCommands
      PROVE  NewSession(k, a, d, q, x) \in AwsRuns /\ ~NewSession(k, a, d, q, x).purgeable
  BY <1>1, NewSessionLemma
<1>2. f \in AwsRuns /\ ~f.purgeable
  <2>1. CASE f \in deployCommand(cmd) /\ cmd \in DeployCommands \cup {"bootstrap"}
    <3>1. PICK a \in BOOLEAN, d \in BOOLEAN : f = NewSession(cmd, a, d, FALSE, FALSE)
      BY <2>1 DEF deployCommand, NewSession
    <3> QED BY <1>1, <2>1, <3>1
  <2>2. CASE f \in cleanupCommand
    <3>1. PICK a \in BOOLEAN, q \in BOOLEAN, d \in BOOLEAN : f = NewSession("cleanup", a, FALSE, q, d)
      BY <2>2 DEF cleanupCommand, NewSession
    <3> QED BY <1>1, <3>1
  <2>3. CASE f = NewSession("status", FALSE, FALSE, FALSE, FALSE)
    BY <1>1, <2>3
  <2> QED BY <2>1, <2>2, <2>3 DEF FlagsOf, bootstrapCommand, statusAwsCommand, DeployCommands
<1> QED BY <1>2

\* A command begins.
LEMMA BeginKeeps ==
    ASSUME AwsInv, NEW o \in Sessions, NEW cmd \in Commands, Begin(o, cmd)
    PROVE  AwsInv'
<1>1. PICK f \in FlagsOf(cmd), p \in {"preflight", "failed"} : Keep(o, f, p)
  BY DEF Begin
<1>2. UNCHANGED <<stacks, changeSets, resources, effects>>
  BY DEF Begin
<1>3. f \in AwsRuns /\ ~f.purgeable
  BY <1>1, FlagsLemma
<1>4. PICK r : r = [f EXCEPT !.pc = p]
  OBVIOUS
<1>5. r \in AwsRuns /\ r.pc = p /\ ~r.purgeable
  BY <1>1, <1>3, <1>4, SessionPointLemma DEF SessionPoints
<1>6. sessions' = [sessions EXCEPT ![o] = r]
  BY <1>1, <1>4 DEF Keep
<1>7. PointsOf(r) /\ r.pc \notin CleanupCalls
  BY <1>1, <1>5 DEF PointsOf, DeployCalls, SharedCalls, CleanupCalls, StatusCalls
<1>8. ~AnswersFor(sessions[o], SetsOf("app"))
  BY DEF Begin, At, AnswersFor
<1>9. Bystander(r)
  BY <1>1, <1>5 DEF Bystander
<1>10. SeenByOthers(o, r) /\ sessions[o].pc \in EarlyPoints
  BY <1>1, <1>5 DEF SeenByOthers, EarlyPoints, Begin, At
<1> QED BY <1>2, <1>5, <1>6, <1>7, <1>8, <1>9, <1>10, AwsStill

\* The checks of a deployment.
LEMMA DeployPreflightKeeps ==
    ASSUME AwsInv, NEW o \in Sessions, NEW e, DeployPreflight(o, e)
    PROVE  AwsInv'
<1>1. PICK s \in AwsRuns : s = sessions[o]
  BY DEF AwsInv, AwsTypeOK
<1>2. s.pc = "preflight" /\ s.cmd \in DeployCommands
  BY <1>1 DEF DeployPreflight, At, DeployCommands
<1>3. PICK k : k = Stack(o)
  OBVIOUS
<1>4. k \in AwsStacks /\ k = stacks["app"]
  BY <1>1, <1>2, <1>3, SessionLemma DEF DeployCommands
<1>5. PICK p \in {"failed", "build"} : Keep(o, [s EXCEPT !.seen = k], p)
  BY <1>1, <1>3 DEF DeployPreflight
<1>6. PICK r : r = [[s EXCEPT !.seen = k] EXCEPT !.pc = p]
  OBVIOUS
<1>7. /\ r \in AwsRuns /\ r.pc = p /\ r.cmd = s.cmd /\ r.seen = k
      /\ r.purgeable = s.purgeable /\ r.purge = s.purge
  BY <1>4, <1>5, <1>6 DEF AwsRuns, SessionPoints, DeployCalls
<1>8. sessions' = [sessions EXCEPT ![o] = r] /\ UNCHANGED <<stacks, changeSets, resources, effects>>
  BY <1>5, <1>6 DEF DeployPreflight, Keep
<1>9. PointsOf(r)
  BY <1>1, <1>2, <1>5, <1>7 DEF AwsInv, PointsOf, DeployCalls, SharedCalls, CleanupCalls, StatusCalls
<1>10. r.pc \notin CleanupCalls
  BY <1>5, <1>7 DEF CleanupCalls
<1>11. ~AnswersFor(s, SetsOf("app"))
  BY <1>2 DEF AnswersFor, DeployCommands
<1>12. LeftOpen => Bystander(r)
  BY <1>4, <1>5, <1>7 DEF LeftOpen, Bystander
<1>13. SeenByOthers(o, r) /\ s.pc \in EarlyPoints
  BY <1>2, <1>5, <1>7 DEF SeenByOthers, EarlyPoints
<1> QED BY <1>1, <1>7, <1>8, <1>9, <1>10, <1>11, <1>12, <1>13, AwsStill

\* The build, and the plan.
LEMMA DeployBuildKeeps ==
    ASSUME AwsInv, NEW o \in Sessions, DeployBuild(o)
    PROVE  AwsInv'
<1>1. PICK s \in AwsRuns : s = sessions[o]
  BY DEF AwsInv, AwsTypeOK
<1>2. s.pc = "build" /\ s.cmd \in DeployCommands
  BY <1>1 DEF AwsInv, DeployBuild, At, PointsOf, DeployCalls
<1>3. PICK p \in {"before", "planned"} : Go(o, p)
  BY DEF DeployBuild
<1>4. UNCHANGED <<stacks, changeSets, resources, effects>>
  BY DEF DeployBuild
<1>5. ~AnswersFor(s, SetsOf("app"))
  BY <1>2 DEF AnswersFor, DeployCommands
<1>6. p \in SessionPoints /\ p \notin SharedCalls \cup CleanupCalls \cup StatusCalls /\ s.pc \in EarlyPoints
  BY <1>2, <1>3 DEF SessionPoints, DeployCalls, SharedCalls, CleanupCalls, StatusCalls, EarlyPoints
<1> QED BY <1>1, <1>2, <1>3, <1>4, <1>5, <1>6, SessionGoesOn

\* The change sets there were before.
LEMMA ListBeforeKeeps ==
    ASSUME AwsInv, NEW o \in Sessions, ListBefore(o)
    PROVE  AwsInv'
<1>1. PICK s \in AwsRuns : s = sessions[o]
  BY DEF AwsInv, AwsTypeOK
<1>2. s.pc = "before" /\ s.cmd \in DeployCommands
  BY <1>1 DEF AwsInv, ListBefore, At, PointsOf, DeployCalls
<1>3. PICK b \in SUBSET AwsSets : b = SetsOf("app")
  BY DEF SetsOf, AwsInv, AwsTypeOK
<1>4. PICK p \in {"create", "failed"} : Keep(o, [s EXCEPT !.before = b], p)
  BY <1>1, <1>3 DEF ListBefore
<1>5. PICK r : r = [[s EXCEPT !.before = b] EXCEPT !.pc = p]
  OBVIOUS
<1>6. /\ r \in AwsRuns /\ r.pc = p /\ r.cmd = s.cmd /\ r.seen = s.seen
      /\ r.purgeable = s.purgeable /\ r.purge = s.purge
  BY <1>3, <1>4, <1>5 DEF AwsRuns, SessionPoints, SharedCalls
<1>7. sessions' = [sessions EXCEPT ![o] = r] /\ UNCHANGED <<stacks, changeSets, resources, effects>>
  BY <1>4, <1>5 DEF ListBefore, Keep
<1>8. PointsOf(r)
  BY <1>1, <1>2, <1>4, <1>6 DEF AwsInv, PointsOf, DeployCalls, SharedCalls, CleanupCalls, StatusCalls
<1>9. r.pc \notin CleanupCalls
  BY <1>4, <1>6 DEF CleanupCalls
<1>10. ~AnswersFor(s, SetsOf("app"))
  BY <1>2 DEF AnswersFor, DeployCommands
<1>11. Bystander(s) => Bystander(r)
  BY <1>2, <1>4, <1>6 DEF Bystander
<1>12. s.pc \in EarlyPoints
  BY <1>2 DEF EarlyPoints
<1>13. r.before = b
  BY <1>5, <1>3, <1>4 DEF AwsRuns
<1>14. SeenByOthers(o, r)
  BY <1>1, <1>3, <1>12, <1>13 DEF SeenByOthers, AwsInv, OwnersInv, SetsOf
<1> QED BY <1>1, <1>6, <1>7, <1>8, <1>9, <1>10, <1>11, <1>12, <1>14, AwsStill

-----------------------------------------------------------------------------
\* A change set for the application stack.
LEMMA SamDeployKeeps ==
    ASSUME AwsInv, NEW o \in Sessions, SamDeploy(o)
    PROVE  AwsInv'
<1>1. PICK s \in AwsRuns : s = sessions[o]
  BY DEF AwsInv, AwsTypeOK
<1>2. s.pc = "create" /\ s.cmd \in DeployCommands
  BY <1>1 DEF SamDeploy, At, DeployCommands
<1>3. PICK k \in AwsStacks : k = Stack(o) /\ k = stacks["app"]
  BY <1>1, <1>2, SessionLemma DEF DeployCommands
<1>4. UNCHANGED <<resources, effects>>
  BY DEF SamDeploy
<1>5. SetsOf("app") \ s.before = {} \/ ~AnswersFor(s, SetsOf("app"))
  BY <1>2 DEF AnswersFor, DeployCommands
<1>6. ASSUME Go(o, "after"), UNCHANGED <<stacks, changeSets>>
      PROVE  AwsInv'
  <2>1. PICK p : p = "after"
    OBVIOUS
  <2>2. /\ p \in SessionPoints /\ p \in DeployCalls
        /\ p \notin SharedCalls \cup CleanupCalls \cup StatusCalls \cup EarlyPoints
    BY <2>1 DEF SessionPoints, DeployCalls, SharedCalls, CleanupCalls, StatusCalls, EarlyPoints
  <2>3. ~AnswersFor(s, SetsOf("app"))
    BY <1>2 DEF AnswersFor, DeployCommands
  <2> QED BY <1>1, <1>2, <1>4, <1>6, <2>1, <2>2, <2>3, SessionGoesOn
<1>7. ASSUME Go(o, "failed"), UNCHANGED <<stacks, changeSets>>
      PROVE  AwsInv'
  BY <1>4, <1>7, SessionFails
<1>8. ASSUME Changeable(k), NEW c \in ProposedFor(k), AddChangeSet(o, "app", c), Answered(o, "after")
      PROVE  AwsInv'
  <2>1. PICK p \in {"after", "failed"} : Go(o, p)
    BY <1>1, <1>2, <1>8, AnsweredLemma DEF At
  <2>2. PICK r : r = [s EXCEPT !.pc = p]
    OBVIOUS
  <2>3. /\ r \in AwsRuns /\ r.pc = p /\ r.cmd = s.cmd /\ r.purge = s.purge
        /\ r.before = s.before /\ r.purgeable = s.purgeable
    <3>1. p \in SessionPoints
      BY DEF SessionPoints, DeployCalls
    <3> QED BY <2>2, <3>1, SessionPointLemma
  <2>4. sessions' = [sessions EXCEPT ![o] = r]
    BY <1>1, <2>1, <2>2 DEF Go
  <2>5. r.pc \notin CleanupCalls \cup SharedCalls \cup EarlyPoints \cup StatusCalls
    BY <2>3 DEF CleanupCalls, SharedCalls, EarlyPoints, StatusCalls
  <2>6. PointsOf(r) /\ SeenByOthers(o, r)
    BY <1>1, <1>2, <2>3, <2>5 DEF AwsInv, PointsOf, SharedCalls, SeenByOthers
  <2>7. PICK n \in AwsSets : n = [owner |-> o, target |-> "app", change |-> c, done |-> FALSE]
    <3>1. c \in AwsChanges
      BY <1>8 DEF ProposedFor, AwsChanges
    <3> QED BY <3>1 DEF AwsSets, Targets
  <2>8. /\ n.owner = o /\ n.target = "app"
        /\ changeSets' = changeSets \cup {n}
    BY <1>8, <2>7 DEF AddChangeSet, AwsSets
  <2>9. changeSets' \subseteq AwsSets /\ n \in SetsOf("app")'
    BY <2>8 DEF AwsInv, AwsTypeOK, SetsOf
  <2>10. \/ Exists(k) /\ stacks' = stacks
         \/ /\ ~Exists(k) /\ stacks' = [stacks EXCEPT !["app"] = [NoStack EXCEPT !.status = "REVIEW_IN_PROGRESS"]]
    BY <1>3, <1>8 DEF AddChangeSet, UpdateStack
  <2>11. PICK v : v = [NoStack EXCEPT !.status = "REVIEW_IN_PROGRESS"]
    OBVIOUS
  <2>12. v \in AwsStacks /\ v.status = "REVIEW_IN_PROGRESS" /\ v.generation = 0
    BY <2>11 DEF NoStack, AwsStacks, StackStatuses
  <2>13. /\ stacks' \in [Targets -> AwsStacks]
         /\ \/ stacks'["app"] = k /\ Exists(k)
            \/ stacks'["app"] = v
    BY <1>3, <2>10, <2>11, <2>12 DEF AwsInv, AwsTypeOK, Targets
  <2>14. k.status \in STABLE_STACK_STATUSES \cup {"REVIEW_IN_PROGRESS"} \/ ~Exists(k)
    BY <1>8 DEF Changeable, Exists
  <2>15. StackInv'
    <3>1. CASE stacks'["app"] = k /\ Exists(k)
      BY <1>3, <1>4, <2>14, <3>1 DEF AwsInv, StackInv, STABLE_STACK_STATUSES
    <3>2. CASE stacks'["app"] = v
      BY <1>4, <2>12, <3>2 DEF AwsInv, StackInv, CLEANUP_SAFE_STACK_STATUSES, STABLE_STACK_STATUSES
    <3> QED BY <2>13, <3>1, <3>2
  <2>16. \A g \in Nat : RolledBack(g) => RolledBack(g)'
    <3>1. CASE stacks'["app"] = k /\ Exists(k)
      BY <1>3, <1>4, <3>1 DEF RolledBack
    <3>2. CASE stacks'["app"] = v
      BY <1>4, <2>12, <3>2 DEF RolledBack
    <3> QED BY <2>13, <3>1, <3>2
  <2>17. NothingLostUnacknowledged' /\ resources' \in [1 .. MaxGeneration -> Contents]
    BY <1>4 DEF AwsInv, AwsTypeOK, NothingLostUnacknowledged
  <2>18. \A d \in changeSets' : d.owner = o \/ \E e \in changeSets : e.owner = d.owner
    BY <2>8
  <2>19. n \notin s.before
    BY <1>1, <1>2, <2>8 DEF AwsInv, OwnersInv, SeenByOthers
  <2>20. AnswersFor(r, SetsOf("app")')
    BY <1>2, <2>3, <2>9, <2>19 DEF AnswersFor
  <2> QED BY <2>3, <2>4, <2>5, <2>6, <2>9, <2>13, <2>15, <2>16, <2>17, <2>18, <2>20, AwsFrame
<1> QED BY <1>3, <1>6, <1>7, <1>8 DEF SamDeploy

\* The change set that is new.
LEMMA ListAfterKeeps ==
    ASSUME AwsInv, NEW o \in Sessions, ListAfter(o)
    PROVE  AwsInv'
<1>1. PICK s \in AwsRuns : s = sessions[o]
  BY DEF AwsInv, AwsTypeOK
<1>2. s.pc = "after" /\ s.cmd \in DeployCommands
  BY <1>1 DEF AwsInv, ListAfter, At, PointsOf, DeployCalls
<1>3. UNCHANGED <<stacks, changeSets, resources, effects>>
  BY DEF ListAfter
<1>4. PICK created : created = SetsOf("app") \ s.before
  OBVIOUS
<1>5. created \subseteq AwsSets /\ \A c \in created : c.target = "app"
  BY <1>4 DEF AwsInv, AwsTypeOK, SetsOf
<1>6. CASE Go(o, "failed")
  BY <1>3, <1>6, SessionFails
<1>7. CASE created = {} /\ Go(o, WithoutChanges(o))
  <2>1. PICK p : p = WithoutChanges(o)
    OBVIOUS
  <2>2. p = "policy" \/ (p = "ok" /\ ~Exists(s.seen))
    BY <1>1, <2>1 DEF WithoutChanges
  <2>3. p \in SessionPoints /\ p \notin SharedCalls \cup CleanupCalls \cup StatusCalls \cup EarlyPoints
    BY <2>2 DEF SessionPoints, DeployCalls, SharedCalls, CleanupCalls, StatusCalls, EarlyPoints
  <2>4. ~AnswersFor(s, SetsOf("app"))
    BY <1>2, <1>4, <1>7 DEF AnswersFor, DeployCommands
  <2>5. Go(o, p)
    BY <1>7, <2>1
  <2>6. CASE p = "policy"
    BY <1>1, <1>2, <1>3, <2>3, <2>5, <2>6, SessionGoesOn
  <2>7. CASE p = "ok" /\ ~Exists(s.seen)
    <3>1. p \notin DeployCalls
      BY <2>7 DEF DeployCalls
    <3> QED BY <1>1, <1>2, <1>3, <2>3, <2>4, <2>5, <2>7, <3>1, SessionGoesOn
  <2> QED BY <2>2, <2>6, <2>7
<1>8. CASE Cardinality(created) = 1 /\ Keep(o, [s EXCEPT !.set = CHOOSE c \in created : TRUE], "describe")
  <2>1. created # {}
    BY <1>8, FS_EmptySet
  <2>2. PICK c : c = CHOOSE d \in created : TRUE
    OBVIOUS
  <2>3. c \in created
    BY <2>1, <2>2
  <2>4. c \in AwsSets /\ c.target = "app"
    BY <1>5, <2>3
  <2>5. PICK r : r = [[s EXCEPT !.set = c] EXCEPT !.pc = "describe"]
    OBVIOUS
  <2>6. /\ r \in AwsRuns /\ r.pc = "describe" /\ r.cmd = s.cmd /\ r.set = c
        /\ r.purgeable = s.purgeable /\ r.purge = s.purge
    BY <2>4, <2>5 DEF AwsRuns, SessionPoints, SharedCalls
  <2>7. sessions' = [sessions EXCEPT ![o] = r]
    BY <1>1, <1>8, <2>2, <2>5 DEF Keep
  <2>8. r.pc \notin CleanupCalls \cup DeployCalls \cup EarlyPoints \cup StatusCalls
    BY <2>6 DEF CleanupCalls, DeployCalls, EarlyPoints, StatusCalls
  <2>9. PointsOf(r) /\ SeenByOthers(o, r)
    BY <1>1, <1>2, <2>4, <2>6, <2>8 DEF AwsInv, PointsOf, DeployCommands, SeenByOthers
  <2>10. AnswersFor(r, SetsOf("app"))
    BY <1>2, <2>6 DEF AnswersFor
  <2> QED BY <1>3, <2>6, <2>7, <2>8, <2>9, <2>10, AwsStill
<1> QED BY <1>1, <1>4, <1>6, <1>7, <1>8 DEF ListAfter

\* The inspection of the change set.
LEMMA DescribeChangeSetKeeps ==
    ASSUME AwsInv, NEW o \in Sessions, DescribeChangeSet(o)
    PROVE  AwsInv'
<1>1. PICK s \in AwsRuns : s = sessions[o]
  BY DEF AwsInv, AwsTypeOK
<1>2. s.pc = "describe" /\ s.cmd \in DeployCommands
  BY <1>1 DEF DescribeChangeSet, At, DeployCommands
<1>3. UNCHANGED <<stacks, changeSets, resources, effects>>
  BY DEF DescribeChangeSet
<1>4. PICK p \in {"execute", "failed"} :
        /\ Go(o, p)
        /\ p = "execute" => (destructiveChanges(summarizeChanges(s.set.change)) => s.allow)
  BY <1>1 DEF DescribeChangeSet
<1>5. CASE p = "failed"
  BY <1>3, <1>4, <1>5, SessionFails
<1>6. CASE p = "execute"
  <2>1. /\ p \in SessionPoints
        /\ p \notin DeployCalls \cup CleanupCalls \cup StatusCalls \cup EarlyPoints
    BY <1>6 DEF SessionPoints, DeployCalls, SharedCalls, CleanupCalls, StatusCalls, EarlyPoints
  <2> QED BY <1>1, <1>2, <1>3, <1>4, <1>6, <2>1, SessionGoesOn
<1> QED BY <1>4, <1>5, <1>6

-----------------------------------------------------------------------------
\* A change that detaches a resource is one that needs the acknowledgement.
LEMMA DetachesLemma ==
    ASSUME NEW c \in AwsChanges, Detaches(c)
    PROVE  destructiveChanges(summarizeChanges(c))
<1> DEFINE Words == STRING \cup {"Add", "none"}
<1>1. c \in [action : Words, replacement : Words, policyAction : Words]
  <2>1. AddOnly \in [action : Words, replacement : Words, policyAction : Words]
    BY DEF AddOnly
  <2>2. Empty \in [action : Words, replacement : Words, policyAction : Words]
    BY DEF Empty
  <2>3. Changes \subseteq [action : Words, replacement : Words, policyAction : Words]
    BY ChangesAreTold
  <2> QED BY <2>1, <2>2, <2>3 DEF AwsChanges
<1>2. PICK x : x = IF c.replacement \in {"True", "False", "Conditional"} THEN c.replacement
                   ELSE IF c.action \in {"Modify", "Dynamic"} THEN "Unknown" ELSE "False"
  OBVIOUS
<1>3. PICK d : d = [c EXCEPT !.replacement = x]
  OBVIOUS
<1>4. d.action = c.action /\ d.policyAction = c.policyAction /\ d.replacement = x
  BY <1>1, <1>3
<1>5. summarizeChanges(c) = d
  BY <1>1, <1>2, <1>3 DEF summarizeChanges
<1>6. destructiveChanges(d)
  BY <1>2, <1>4 DEF Detaches, destructiveChanges
<1> QED BY <1>5, <1>6

\* How many generations there have been.
LEMMA GenerationsLemma ==
    ASSUME AwsInv, NEW used, used = {x \in DOMAIN resources : resources[x] # "unused"}
    PROVE  /\ Cardinality(used) \in Nat
           /\ \A g \in 1 .. MaxGeneration : resources[g] # "unused" <=> g <= Cardinality(used)
<1>1. PICK n \in 0 .. MaxGeneration : \A g \in 1 .. MaxGeneration : resources[g] # "unused" <=> g <= n
  BY DEF AwsInv, StackInv
<1>2. DOMAIN resources = 1 .. MaxGeneration
  BY DEF AwsInv, AwsTypeOK
<1>3. used = 1 .. n
  BY <1>1, <1>2, GenerationsAreCounted
<1>4. Cardinality(used) = n
  <2>1. n \in Int /\ 1 \in Int /\ n >= 0
    BY GenerationsAreCounted
  <2>2. Cardinality(1 .. n) = IF 1 > n THEN 0 ELSE n - 1 + 1
    BY <2>1, FS_Interval
  <2>3. Cardinality(used) = IF 1 > n THEN 0 ELSE n - 1 + 1
    BY <1>3, <2>2, Zenon
  <2> QED BY <2>1, <2>3
<1> QED BY <1>1, <1>4, GenerationsAreCounted

\* The execution of the change set.
LEMMA ExecuteChangeSetKeeps ==
    ASSUME AwsInv, NEW o \in Sessions, ExecuteChangeSet(o)
    PROVE  AwsInv'
<1>1. PICK s \in AwsRuns : s = sessions[o] /\ PointsOf(s)
  BY SessionLemma
<1>2. s.pc = "execute" /\ s.cmd \in DeployCommands \cup {"bootstrap"}
  BY <1>1 DEF ExecuteChangeSet, At, PointsOf, SharedCalls
<1>3. PICK c \in AwsSets : c = s.set
  BY DEF AwsRuns
<1>4. PICK t \in Targets : t = c.target
  BY DEF AwsSets
<1>5. t = IF s.cmd = "bootstrap" THEN "bootstrap" ELSE "app"
  BY <1>1, <1>2, <1>3, <1>4 DEF PointsOf
<1>6. PICK k \in AwsStacks : k = stacks[t]
  BY DEF AwsInv, AwsTypeOK
<1>7. PICK creates \in BOOLEAN : creates = (k.status = "REVIEW_IN_PROGRESS")
  OBVIOUS
<1>8. PICK detaches \in BOOLEAN : detaches = (~creates /\ Detaches(c.change) /\ ~k.policy)
  OBVIOUS
<1>9. PICK used : used = {x \in DOMAIN resources : resources[x] # "unused"}
  OBVIOUS
<1>10. PICK g : g = IF creates /\ t = "app" THEN Cardinality(used) + 1 ELSE k.generation
  OBVIOUS
<1>11. g \in Nat
  <2>1. Cardinality(used) + 1 \in Nat
    <3>1. Cardinality(used) \in Nat
      BY <1>9, GenerationsLemma
    <3> QED BY <3>1
  <2> QED BY <1>10, <2>1 DEF AwsStacks
<1>12. CASE Go(o, "failed") /\ UNCHANGED <<stacks, changeSets, resources, effects>>
  BY <1>12, SessionFails
<1>13. CASE /\ c \in changeSets /\ Changeable(k)
            /\ g <= MaxGeneration
            /\ changeSets' = (changeSets \ SetsOf(t)) \cup {[c EXCEPT !.done = TRUE]}
            /\ UpdateStack(t, [k EXCEPT !.generation = g, !.managed = TRUE,
                   !.status = IF creates THEN "CREATE_IN_PROGRESS" ELSE "UPDATE_IN_PROGRESS"])
            /\ resources' = IF t # "app" THEN resources
                            ELSE IF creates THEN [resources EXCEPT ![g] = "empty"]
                            ELSE IF detaches THEN [resources EXCEPT ![g] = "absent"]
                            ELSE resources
            /\ effects' = effects \cup
                 {[by |-> o, owner |-> c.owner, covered |-> (detaches => s.allow)]}
            /\ Answered(o, "wait")
  <2>1. PICK p \in {"wait", "failed"} : Go(o, p)
    BY <1>1, <1>2, <1>13, AnsweredLemma DEF At
  <2>2. PICK r : r = [s EXCEPT !.pc = p]
    OBVIOUS
  <2>3. /\ r \in AwsRuns /\ r.pc = p /\ r.cmd = s.cmd /\ r.purge = s.purge
        /\ r.purgeable = s.purgeable
    <3>1. p \in SessionPoints
      BY DEF SessionPoints, SharedCalls
    <3> QED BY <2>2, <3>1, SessionPointLemma
  <2>4. sessions' = [sessions EXCEPT ![o] = r]
    BY <1>1, <2>1, <2>2 DEF Go
  <2>5. r.pc \notin CleanupCalls \cup DeployCalls \cup EarlyPoints \cup StatusCalls
    BY <2>3 DEF CleanupCalls, DeployCalls, EarlyPoints, StatusCalls
  <2>6. PointsOf(r) /\ SeenByOthers(o, r)
    BY <1>1, <1>2, <2>3, <2>5 DEF PointsOf, DeployCommands, SeenByOthers
  <2>7. PICK d : d = [c EXCEPT !.done = TRUE]
    OBVIOUS
  <2>8. d \in AwsSets /\ d.owner = c.owner /\ d.target = t
    BY <1>4, <2>7 DEF AwsSets
  <2>9. changeSets' = (changeSets \ SetsOf(t)) \cup {d}
    BY <1>13, <2>7
  <2>10. changeSets' \subseteq AwsSets
    BY <2>8, <2>9 DEF AwsInv, AwsTypeOK
  <2>11. \A e \in changeSets' : e.owner = o \/ \E f \in changeSets : f.owner = e.owner
    BY <1>13, <2>8, <2>9
  <2>12. PICK st \in {"CREATE_IN_PROGRESS", "UPDATE_IN_PROGRESS"} :
            st = IF creates THEN "CREATE_IN_PROGRESS" ELSE "UPDATE_IN_PROGRESS"
    OBVIOUS
  <2>13. PICK v : v = [k EXCEPT !.generation = g, !.managed = TRUE, !.status = st]
    OBVIOUS
  <2>14. st \in StackStatuses
    BY DEF StackStatuses, InProgress
  <2>15. /\ v \in AwsStacks /\ v.status = st /\ v.generation = g
         /\ v.protected = k.protected /\ v.policy = k.policy
    BY <1>11, <2>13, <2>14 DEF AwsStacks
  <2>16. stacks' = [stacks EXCEPT ![t] = v]
    BY <1>13, <2>12, <2>13 DEF UpdateStack
  <2>17. stacks' \in [Targets -> AwsStacks] /\ stacks'[t] = v
         /\ (t # "app" => stacks'["app"] = stacks["app"])
    BY <2>15, <2>16 DEF AwsInv, AwsTypeOK, Targets
  <2>18. NothingLostUnacknowledged'
    <3>1. c.change \in AwsChanges
      BY DEF AwsSets
    <3>2. detaches => s.allow
      BY <1>1, <1>2, <1>3, <1>8, <3>1, DetachesLemma DEF PointsOf
    <3>3. PICK b \in BOOLEAN : b = (detaches => s.allow)
      OBVIOUS
    <3>4. PICK e : e = [by |-> o, owner |-> c.owner, covered |-> b]
      OBVIOUS
    <3>5. e.covered = b /\ b
      BY <3>2, <3>3, <3>4
    <3>6. effects' = effects \cup {e}
      BY <1>13, <3>3, <3>4
    <3> QED BY <3>5, <3>6 DEF AwsInv, NothingLostUnacknowledged
  <2>19. CASE t = "bootstrap"
    <3>1. UNCHANGED resources /\ stacks'["app"] = stacks["app"]
      BY <1>13, <2>17, <2>19
    <3>2. SetsOf("app")' = SetsOf("app")
      BY <2>8, <2>9, <2>19 DEF SetsOf
    <3>3. StackInv' /\ (LeftOpen' <=> LeftOpen)
      BY <3>1, <3>2 DEF AwsInv, StackInv, LeftOpen
    <3>4. \A x \in Nat : RolledBack(x) => RolledBack(x)'
      BY <3>1 DEF RolledBack
    <3>5. resources' \in [1 .. MaxGeneration -> Contents]
      BY <3>1 DEF AwsInv, AwsTypeOK
    <3>6. ~AnswersFor(s, SetsOf("app")) /\ Bystander(r)
      BY <1>2, <1>5, <2>3, <2>19 DEF AnswersFor, Bystander, DeployCommands
    <3> QED BY <1>1, <2>3, <2>4, <2>5, <2>6, <2>10, <2>11, <2>17, <2>18,
              <3>2, <3>3, <3>4, <3>5, <3>6, AwsFrame
  <2>20. CASE t = "app"
    <3>1. AnswersFor(r, SetsOf("app")')
      BY <1>2, <1>5, <2>3, <2>20 DEF AnswersFor
    <3>2. k = stacks["app"] /\ stacks'["app"] = v
      BY <1>6, <2>17, <2>20
    <3>3. SetsOf("app") # {}
      BY <1>4, <1>13, <2>20 DEF SetsOf
    <3>4. IF creates THEN k.status = "REVIEW_IN_PROGRESS" ELSE k.status \in STABLE_STACK_STATUSES
      BY <1>7, <1>13, <3>2, <3>3 DEF AwsInv, StackInv, Changeable
    <3>5. CASE creates
      <4>1. /\ g \in 1 .. MaxGeneration
            /\ \A x \in 1 .. MaxGeneration : resources[x] # "unused" <=> x < g
        <5>1. g = Cardinality(used) + 1
          BY <1>10, <2>20, <3>5
        <5>2. Cardinality(used) \in Nat
          BY <1>9, GenerationsLemma
        <5>3. \A x \in 1 .. MaxGeneration : resources[x] # "unused" <=> x <= Cardinality(used)
          BY <1>9, GenerationsLemma
        <5> QED BY <1>13, <5>1, <5>2, <5>3, GenerationsAreCounted
      <4>2. resources' = [resources EXCEPT ![g] = "empty"]
        BY <1>13, <2>20, <3>5
      <4>3. /\ resources' \in [1 .. MaxGeneration -> Contents] /\ resources'[g] = "empty"
            /\ \A x \in 1 .. MaxGeneration : x # g => resources'[x] = resources[x]
        BY <4>1, <4>2 DEF AwsInv, AwsTypeOK, Contents
      <4>4. StackInv'
        <5>1. \A x \in 1 .. MaxGeneration : resources'[x] # "unused" <=> x <= g
          BY <4>1, <4>3, GenerationsAreCounted
        <5>2. g \in 0 .. MaxGeneration
          BY <4>1, GenerationsAreCounted
        <5>3. v.status \notin {"none", "DELETE_IN_PROGRESS", "DELETE_FAILED"}
          BY <2>15
        <5> QED BY <2>15, <3>2, <4>1, <4>3, <5>1, <5>2, <5>3 DEF StackInv
      <4>5. \A x \in Nat : RolledBack(x) => RolledBack(x)'
        BY <2>15, <3>2, <4>1, <4>3 DEF RolledBack
      <4> QED BY <2>3, <2>4, <2>5, <2>6, <2>10, <2>11, <2>17, <2>18, <3>1, <4>3, <4>4, <4>5, AwsFrame
    <3>6. CASE ~creates
      <4>1. g = k.generation
        BY <1>10, <3>6
      <4>2. g \in 1 .. MaxGeneration /\ resources[g] # "unused"
        BY <3>2, <3>4, <3>6, <4>1 DEF AwsInv, StackInv, CLEANUP_SAFE_STACK_STATUSES
      <4>3. resources' = [resources EXCEPT ![g] = "absent"] \/ resources' = resources
        BY <1>13, <2>20, <3>6
      <4>4. /\ resources' \in [1 .. MaxGeneration -> Contents] /\ resources'[g] # "unused"
            /\ \A x \in 1 .. MaxGeneration : x # g => resources'[x] = resources[x]
        BY <4>2, <4>3 DEF AwsInv, AwsTypeOK, Contents
      <4>5. StackInv'
        <5>1. PICK n \in 0 .. MaxGeneration : \A x \in 1 .. MaxGeneration : resources[x] # "unused" <=> x <= n
          BY DEF AwsInv, StackInv
        <5>2. \A x \in 1 .. MaxGeneration : resources'[x] # "unused" <=> x <= n
          BY <4>2, <4>4, <5>1
        <5>3. v.status = "UPDATE_IN_PROGRESS"
          BY <2>12, <2>15, <3>6
        <5> QED BY <2>15, <3>2, <4>2, <4>4, <5>2, <5>3 DEF StackInv
      <4>6. ASSUME NEW x \in Nat, RolledBack(x) PROVE RolledBack(x)'
        <5>1. x # g
          BY <3>2, <3>4, <3>6, <4>1, <4>6 DEF RolledBack, STABLE_STACK_STATUSES
        <5> QED BY <2>15, <3>2, <4>4, <4>6, <5>1 DEF RolledBack
      <4> QED BY <2>3, <2>4, <2>5, <2>6, <2>10, <2>11, <2>17, <2>18, <3>1, <4>4, <4>5, <4>6, AwsFrame
    <3> QED BY <3>5, <3>6
  <2> QED BY <2>19, <2>20 DEF Targets
<1> QED BY <1>1, <1>3, <1>4, <1>6, <1>7, <1>8, <1>9, <1>10, <1>12, <1>13 DEF ExecuteChangeSet

-----------------------------------------------------------------------------
\* A stack's protections change, and nothing else of the account.
LEMMA ProtectionsLemma ==
    ASSUME AwsInv, NEW t \in Targets, NEW v \in AwsStacks, stacks' = [stacks EXCEPT ![t] = v],
           v.status = stacks[t].status, v.generation = stacks[t].generation,
           UNCHANGED <<changeSets, resources, effects>>
    PROVE  /\ stacks' \in [Targets -> AwsStacks] /\ changeSets' \subseteq AwsSets
           /\ resources' \in [1 .. MaxGeneration -> Contents]
           /\ StackInv' /\ SetsOf("app")' = SetsOf("app") /\ NothingLostUnacknowledged'
           /\ \A c \in changeSets' : \E d \in changeSets : d.owner = c.owner
           /\ \A g \in Nat : RolledBack(g) => RolledBack(g)'
           /\ t # "app" => (LeftOpen' <=> LeftOpen)
<1>1. /\ stacks' \in [Targets -> AwsStacks] /\ changeSets' \subseteq AwsSets
      /\ resources' \in [1 .. MaxGeneration -> Contents]
  BY DEF AwsInv, AwsTypeOK
<1>2. /\ stacks'["app"].status = stacks["app"].status
      /\ stacks'["app"].generation = stacks["app"].generation
      /\ t # "app" => stacks'["app"] = stacks["app"]
  BY DEF AwsInv, AwsTypeOK, Targets
<1>3. SetsOf("app")' = SetsOf("app") /\ NothingLostUnacknowledged'
  BY DEF AwsInv, SetsOf, NothingLostUnacknowledged
<1>4. StackInv'
  BY <1>2, <1>3 DEF AwsInv, StackInv
<1>5. \A g \in Nat : RolledBack(g) => RolledBack(g)'
  BY <1>2 DEF RolledBack
<1>6. t # "app" => (LeftOpen' <=> LeftOpen)
  BY <1>2 DEF LeftOpen
<1> QED BY <1>1, <1>3, <1>4, <1>5, <1>6

\* The waiter.
LEMMA WaitForStackKeeps ==
    ASSUME AwsInv, NEW o \in Sessions, WaitForStack(o)
    PROVE  AwsInv'
<1>1. PICK s \in AwsRuns : s = sessions[o] /\ PointsOf(s)
  BY SessionLemma
<1>2. s.pc = "wait" /\ s.cmd \in DeployCommands \cup {"bootstrap"}
  BY <1>1 DEF WaitForStack, At, PointsOf, SharedCalls
<1>3. UNCHANGED <<stacks, changeSets, resources, effects>>
  BY DEF WaitForStack
<1>4. PICK p \in {"failed", "policy", "ok", "protect"} :
        /\ Go(o, p)
        /\ p = "policy" => Target(o) = "app"
        /\ p \in {"ok", "protect"} => Target(o) # "app"
  BY DEF WaitForStack
<1>5. /\ p = "policy" => s.cmd \in DeployCommands
      /\ p \in {"ok", "protect"} => s.cmd = "bootstrap"
  BY <1>1, <1>2, <1>4 DEF Target
<1>6. CASE p = "failed"
  BY <1>3, <1>4, <1>6, SessionFails
<1>7. CASE p # "failed"
  <2>1. /\ p \in SessionPoints /\ p \notin CleanupCalls \cup StatusCalls \cup EarlyPoints
        /\ p \in DeployCalls => p = "policy"
    BY <1>7 DEF SessionPoints, DeployCalls, SharedCalls, CleanupCalls, StatusCalls, EarlyPoints
  <2>2. s.cmd = "bootstrap" => ~AnswersFor(s, SetsOf("app")) /\ s.cmd \notin DeployCommands
    BY <1>2 DEF AnswersFor, DeployCommands
  <2> QED BY <1>1, <1>2, <1>3, <1>4, <1>5, <1>7, <2>1, <2>2, SessionGoesOn
<1> QED BY <1>6, <1>7

\* The stack policy.
LEMMA SetStackPolicyKeeps ==
    ASSUME AwsInv, NEW o \in Sessions, SetStackPolicy(o)
    PROVE  AwsInv'
<1>1. PICK s \in AwsRuns : s = sessions[o] /\ PointsOf(s)
  BY SessionLemma
<1>2. s.pc = "policy" /\ s.cmd \in DeployCommands
  BY <1>1 DEF SetStackPolicy, At, PointsOf, DeployCalls
<1>3. PICK k \in AwsStacks : k = Stack(o) /\ k = stacks["app"]
  BY <1>1, <1>2, SessionLemma DEF DeployCommands
<1>4. UNCHANGED <<changeSets, resources, effects>>
  BY DEF SetStackPolicy
<1>5. CASE Go(o, "failed") /\ UNCHANGED stacks
  BY <1>4, <1>5, SessionFails
<1>6. CASE UpdateStack("app", [k EXCEPT !.policy = TRUE]) /\ Answered(o, "protect")
  <2>1. PICK p \in {"protect", "failed"} : Go(o, p)
    BY <1>1, <1>2, <1>6, AnsweredLemma DEF At
  <2>2. PICK r : r = [s EXCEPT !.pc = p]
    OBVIOUS
  <2>3. /\ r \in AwsRuns /\ r.pc = p /\ r.cmd = s.cmd /\ r.purgeable = s.purgeable /\ r.purge = s.purge
    <3>1. p \in SessionPoints
      BY DEF SessionPoints, SharedCalls
    <3> QED BY <2>2, <3>1, SessionPointLemma
  <2>4. sessions' = [sessions EXCEPT ![o] = r]
    BY <1>1, <2>1, <2>2 DEF Go
  <2>5. r.pc \notin CleanupCalls \cup DeployCalls \cup EarlyPoints \cup StatusCalls
    BY <2>3 DEF CleanupCalls, DeployCalls, EarlyPoints, StatusCalls
  <2>6. PointsOf(r) /\ SeenByOthers(o, r)
    BY <1>1, <1>2, <2>3, <2>5 DEF PointsOf, DeployCommands, SeenByOthers
  <2>7. PICK v : v = [k EXCEPT !.policy = TRUE]
    OBVIOUS
  <2>8. v \in AwsStacks /\ v.status = k.status /\ v.generation = k.generation
    BY <2>7 DEF AwsStacks
  <2>9. stacks' = [stacks EXCEPT !["app"] = v] /\ "app" \in Targets
    BY <1>6, <2>7 DEF UpdateStack, Targets
  <2>10. AnswersFor(r, SetsOf("app")')
    BY <1>2, <2>3 DEF AnswersFor
  <2> QED BY <1>3, <1>4, <2>3, <2>4, <2>5, <2>6, <2>8, <2>9, <2>10, ProtectionsLemma, AwsFrame
<1> QED BY <1>3, <1>5, <1>6 DEF SetStackPolicy

\* Termination protection.
LEMMA EnableProtectionKeeps ==
    ASSUME AwsInv, NEW o \in Sessions, EnableProtection(o)
    PROVE  AwsInv'
<1>1. PICK s \in AwsRuns : s = sessions[o] /\ PointsOf(s)
  BY SessionLemma
<1>2. s.pc = "protect" /\ s.cmd \in DeployCommands \cup {"bootstrap"}
  BY <1>1 DEF EnableProtection, At, PointsOf, SharedCalls
<1>3. PICK t \in Targets : t = Target(o)
  BY SessionLemma
<1>4. PICK k \in AwsStacks : k = Stack(o) /\ k = stacks[t]
  BY <1>3, SessionLemma DEF Stack
<1>5. UNCHANGED <<changeSets, resources, effects>>
  BY DEF EnableProtection
<1>6. CASE Go(o, "failed") /\ UNCHANGED stacks
  BY <1>5, <1>6, SessionFails
<1>7. CASE UpdateStack(t, [k EXCEPT !.protected = TRUE]) /\ Answered(o, "verify")
  <2>1. PICK p \in {"verify", "failed"} : Go(o, p)
    BY <1>1, <1>2, <1>7, AnsweredLemma DEF At
  <2>2. PICK r : r = [s EXCEPT !.pc = p]
    OBVIOUS
  <2>3. /\ r \in AwsRuns /\ r.pc = p /\ r.cmd = s.cmd /\ r.purgeable = s.purgeable /\ r.purge = s.purge
    <3>1. p \in SessionPoints
      BY DEF SessionPoints, SharedCalls
    <3> QED BY <2>2, <3>1, SessionPointLemma
  <2>4. sessions' = [sessions EXCEPT ![o] = r]
    BY <1>1, <2>1, <2>2 DEF Go
  <2>5. r.pc \notin CleanupCalls \cup DeployCalls \cup EarlyPoints \cup StatusCalls
    BY <2>3 DEF CleanupCalls, DeployCalls, EarlyPoints, StatusCalls
  <2>6. PointsOf(r) /\ SeenByOthers(o, r)
    BY <1>1, <1>2, <2>3, <2>5 DEF PointsOf, DeployCommands, SeenByOthers
  <2>7. PICK v : v = [k EXCEPT !.protected = TRUE]
    OBVIOUS
  <2>8. v \in AwsStacks /\ v.status = k.status /\ v.generation = k.generation
    BY <2>7 DEF AwsStacks
  <2>9. stacks' = [stacks EXCEPT ![t] = v]
    BY <1>7, <2>7 DEF UpdateStack
  <2>10. /\ stacks' \in [Targets -> AwsStacks] /\ changeSets' \subseteq AwsSets
         /\ resources' \in [1 .. MaxGeneration -> Contents]
         /\ StackInv' /\ SetsOf("app")' = SetsOf("app") /\ NothingLostUnacknowledged'
         /\ \A c \in changeSets' : \E d \in changeSets : d.owner = c.owner
         /\ \A g \in Nat : RolledBack(g) => RolledBack(g)'
         /\ t # "app" => (LeftOpen' <=> LeftOpen)
    BY <1>4, <1>5, <2>8, <2>9, ProtectionsLemma
  <2>11. CASE s.cmd \in DeployCommands
    <3>1. AnswersFor(r, SetsOf("app")')
      BY <2>3, <2>11 DEF AnswersFor
    <3> QED BY <2>3, <2>4, <2>5, <2>6, <2>10, <3>1, AwsFrame
  <2>12. CASE s.cmd = "bootstrap"
    <3>1. ~AnswersFor(s, SetsOf("app")) /\ Bystander(r) /\ t # "app"
      BY <1>1, <1>2, <1>3, <2>3, <2>12 DEF AnswersFor, Bystander, DeployCommands, Target
    <3> QED BY <1>1, <2>3, <2>4, <2>5, <2>6, <2>10, <3>1, AwsFrame
  <2> QED BY <1>2, <2>11, <2>12
<1> QED BY <1>3, <1>4, <1>6, <1>7 DEF EnableProtection

\* The protections are read back.
LEMMA VerifyProtectionsKeeps ==
    ASSUME AwsInv, NEW o \in Sessions, VerifyProtections(o)
    PROVE  AwsInv'
<1>1. PICK s \in AwsRuns : s = sessions[o] /\ PointsOf(s)
  BY SessionLemma
<1>2. s.pc = "verify" /\ s.cmd \in DeployCommands \cup {"bootstrap"}
  BY <1>1 DEF VerifyProtections, At, PointsOf, SharedCalls
<1>3. UNCHANGED <<stacks, changeSets, resources, effects>>
  BY DEF VerifyProtections
<1>4. PICK p \in {"ok", "failed"} :
        /\ Go(o, p)
        /\ p = "ok" => Stack(o).protected /\ (Target(o) = "app" => Stack(o).policy)
  BY DEF VerifyProtections
<1>5. CASE p = "failed"
  BY <1>3, <1>4, <1>5, SessionFails
<1>6. CASE p = "ok"
  <2>1. /\ p \in SessionPoints
        /\ p \notin DeployCalls \cup SharedCalls \cup CleanupCalls \cup StatusCalls \cup EarlyPoints
    BY <1>6 DEF SessionPoints, DeployCalls, SharedCalls, CleanupCalls, StatusCalls, EarlyPoints
  <2>2. CASE s.cmd = "bootstrap"
    <3>1. s.cmd \notin DeployCommands /\ ~AnswersFor(s, SetsOf("app"))
      BY <1>2, <2>2 DEF AnswersFor, DeployCommands
    <3> QED BY <1>1, <1>3, <1>4, <1>6, <2>1, <3>1, SessionGoesOn
  <2>3. CASE s.cmd # "bootstrap"
    <3>1. ~LeftOpen
      BY <1>1, <1>4, <1>6, <2>3, SessionLemma DEF LeftOpen
    <3> QED BY <1>1, <1>3, <1>4, <1>6, <2>1, <3>1, SessionGoesOn
  <2> QED BY <2>2, <2>3
<1> QED BY <1>4, <1>5, <1>6

-----------------------------------------------------------------------------
\* The bootstrap stack is found.
LEMMA BootstrapPreflightKeeps ==
    ASSUME AwsInv, NEW o \in Sessions, BootstrapPreflight(o)
    PROVE  AwsInv'
<1>1. PICK s \in AwsRuns : s = sessions[o] /\ PointsOf(s)
  BY SessionLemma
<1>2. s.pc = "preflight" /\ s.cmd = "bootstrap"
  BY <1>1 DEF BootstrapPreflight, At
<1>3. PICK k \in AwsStacks : k = Stack(o)
  BY SessionLemma
<1>4. PICK p \in {"failed", "create", "planned"} : Keep(o, [s EXCEPT !.seen = k], p)
  BY <1>1, <1>3 DEF BootstrapPreflight
<1>5. PICK r : r = [[s EXCEPT !.seen = k] EXCEPT !.pc = p]
  OBVIOUS
<1>6. /\ r \in AwsRuns /\ r.pc = p /\ r.cmd = s.cmd /\ r.purgeable = s.purgeable /\ r.purge = s.purge
  BY <1>3, <1>4, <1>5 DEF AwsRuns, SessionPoints, SharedCalls
<1>7. sessions' = [sessions EXCEPT ![o] = r] /\ UNCHANGED <<stacks, changeSets, resources, effects>>
  BY <1>4, <1>5 DEF BootstrapPreflight, Keep
<1>8. r.pc \notin CleanupCalls \cup DeployCalls \cup StatusCalls /\ s.pc \in EarlyPoints
  BY <1>2, <1>6 DEF CleanupCalls, DeployCalls, StatusCalls, EarlyPoints
<1>9. PointsOf(r) /\ SeenByOthers(o, r)
  BY <1>1, <1>2, <1>6, <1>8 DEF PointsOf, SeenByOthers, DeployCommands
<1>10. ~AnswersFor(s, SetsOf("app")) /\ Bystander(r)
  BY <1>2, <1>6 DEF AnswersFor, Bystander, DeployCommands
<1> QED BY <1>1, <1>6, <1>7, <1>8, <1>9, <1>10, AwsStill

\* A change set for the bootstrap stack.
LEMMA BootstrapCreateKeeps ==
    ASSUME AwsInv, NEW o \in Sessions, BootstrapCreate(o)
    PROVE  AwsInv'
<1>1. PICK s \in AwsRuns : s = sessions[o] /\ PointsOf(s)
  BY SessionLemma
<1>2. s.pc = "create" /\ s.cmd = "bootstrap"
  BY <1>1 DEF BootstrapCreate, At
<1>3. UNCHANGED <<resources, effects>>
  BY DEF BootstrapCreate
<1>4. CASE Go(o, "failed") /\ UNCHANGED <<stacks, changeSets>>
  BY <1>3, <1>4, SessionFails
<1>5. ASSUME NEW c \in AwsChanges, AddChangeSet(o, "bootstrap", c),
             Keep(o, [s EXCEPT !.set = [owner |-> o, target |-> "bootstrap", change |-> c, done |-> FALSE]],
                  "describe")
      PROVE  AwsInv'
  <2>1. PICK n \in AwsSets : n = [owner |-> o, target |-> "bootstrap", change |-> c, done |-> FALSE]
    BY DEF AwsSets, Targets
  <2>2. n.owner = o /\ n.target = "bootstrap"
    BY <2>1
  <2>3. changeSets' = changeSets \cup {n}
    BY <1>5, <2>1 DEF AddChangeSet
  <2>4. /\ changeSets' \subseteq AwsSets /\ SetsOf("app")' = SetsOf("app")
        /\ \A d \in changeSets' : d.owner = o \/ \E e \in changeSets : e.owner = d.owner
    BY <2>2, <2>3 DEF AwsInv, AwsTypeOK, SetsOf
  <2>5. PICK r : r = [[s EXCEPT !.set = n] EXCEPT !.pc = "describe"]
    OBVIOUS
  <2>6. /\ r \in AwsRuns /\ r.pc = "describe" /\ r.cmd = s.cmd /\ r.set = n
        /\ r.purgeable = s.purgeable /\ r.purge = s.purge
    BY <2>5 DEF AwsRuns, SessionPoints, SharedCalls
  <2>7. sessions' = [sessions EXCEPT ![o] = r]
    BY <1>5, <2>1, <2>5 DEF Keep
  <2>8. r.pc \notin CleanupCalls \cup DeployCalls \cup EarlyPoints \cup StatusCalls
    BY <2>6 DEF CleanupCalls, DeployCalls, EarlyPoints, StatusCalls
  <2>9. PointsOf(r) /\ SeenByOthers(o, r)
    BY <1>1, <1>2, <2>2, <2>6, <2>8 DEF PointsOf, DeployCommands, SeenByOthers
  <2>10. PICK v : v = [NoStack EXCEPT !.status = "REVIEW_IN_PROGRESS"]
    OBVIOUS
  <2>11. v \in AwsStacks
    BY <2>10 DEF NoStack, AwsStacks, StackStatuses
  <2>12. stacks' = stacks \/ stacks' = [stacks EXCEPT !["bootstrap"] = v]
    BY <1>5, <2>10 DEF AddChangeSet, UpdateStack
  <2>13. stacks' \in [Targets -> AwsStacks] /\ stacks'["app"] = stacks["app"]
    BY <2>11, <2>12 DEF AwsInv, AwsTypeOK, Targets
  <2>14. StackInv' /\ (LeftOpen' <=> LeftOpen)
    BY <1>3, <2>4, <2>13 DEF AwsInv, StackInv, LeftOpen
  <2>15. \A g \in Nat : RolledBack(g) => RolledBack(g)'
    BY <1>3, <2>13 DEF RolledBack
  <2>16. NothingLostUnacknowledged' /\ resources' \in [1 .. MaxGeneration -> Contents]
    BY <1>3 DEF AwsInv, AwsTypeOK, NothingLostUnacknowledged
  <2>17. ~AnswersFor(s, SetsOf("app")) /\ Bystander(r)
    BY <1>2, <2>6 DEF AnswersFor, Bystander, DeployCommands
  <2> QED BY <1>1, <2>4, <2>6, <2>7, <2>8, <2>9, <2>13, <2>14, <2>15, <2>16, <2>17, AwsFrame
<1>6. \A k : ProposedFor(k) \cup {Empty} \subseteq AwsChanges
  BY DEF ProposedFor, AwsChanges
<1> QED BY <1>1, <1>4, <1>5, <1>6 DEF BootstrapCreate

\* The inspection of the bootstrap stack's change set.
LEMMA BootstrapDescribeKeeps ==
    ASSUME AwsInv, NEW o \in Sessions, BootstrapDescribe(o)
    PROVE  AwsInv'
<1>1. PICK s \in AwsRuns : s = sessions[o] /\ PointsOf(s)
  BY SessionLemma
<1>2. s.pc = "describe" /\ s.cmd = "bootstrap"
  BY <1>1 DEF BootstrapDescribe, At
<1>3. UNCHANGED <<stacks, resources, effects>>
  BY DEF BootstrapDescribe
<1>4. ~AnswersFor(s, SetsOf("app"))
  BY <1>2 DEF AnswersFor, DeployCommands
<1>5. PICK c : c = s.set
  OBVIOUS
<1>6. c.target = "bootstrap"
  BY <1>1, <1>2, <1>5 DEF PointsOf
<1>7. ASSUME NEW p \in {"execute", "failed"}, Go(o, p), UNCHANGED changeSets,
             p = "execute" => (destructiveChanges(summarizeChanges(c.change)) => s.allow)
      PROVE  AwsInv'
  <2>1. CASE p = "failed"
    BY <1>3, <1>7, <2>1, SessionFails
  <2>2. CASE p = "execute"
    <3>1. /\ p \in SessionPoints /\ s.cmd \notin DeployCommands
          /\ p \notin DeployCalls \cup CleanupCalls \cup StatusCalls \cup EarlyPoints
      BY <1>2, <2>2 DEF SessionPoints, DeployCalls, SharedCalls, CleanupCalls, StatusCalls, EarlyPoints, DeployCommands
    <3> QED BY <1>1, <1>2, <1>3, <1>4, <1>5, <1>7, <2>2, <3>1, SessionGoesOn
  <2> QED BY <1>7, <2>1, <2>2
<1>8. ASSUME NEW p \in {"ok", "protect"}, Go(o, p), changeSets' = changeSets \ {c}
      PROVE  AwsInv'
  <2>1. PICK r : r = [s EXCEPT !.pc = p]
    OBVIOUS
  <2>2. /\ r \in AwsRuns /\ r.pc = p /\ r.cmd = s.cmd /\ r.purgeable = s.purgeable /\ r.purge = s.purge
    <3>1. p \in SessionPoints
      BY DEF SessionPoints, SharedCalls
    <3> QED BY <2>1, <3>1, SessionPointLemma
  <2>3. sessions' = [sessions EXCEPT ![o] = r]
    BY <1>1, <1>8, <2>1 DEF Go
  <2>4. r.pc \notin CleanupCalls \cup DeployCalls \cup EarlyPoints \cup StatusCalls
    BY <2>2 DEF CleanupCalls, DeployCalls, EarlyPoints, StatusCalls
  <2>5. PointsOf(r) /\ SeenByOthers(o, r)
    BY <1>1, <1>2, <2>2, <2>4 DEF PointsOf, DeployCommands, SeenByOthers
  <2>6. /\ changeSets' \subseteq AwsSets /\ SetsOf("app")' = SetsOf("app")
        /\ \A d \in changeSets' : \E e \in changeSets : e.owner = d.owner
    BY <1>6, <1>8 DEF AwsInv, AwsTypeOK, SetsOf
  <2>7. /\ StackInv' /\ (LeftOpen' <=> LeftOpen)
        /\ stacks' \in [Targets -> AwsStacks] /\ resources' \in [1 .. MaxGeneration -> Contents]
        /\ NothingLostUnacknowledged'
    BY <1>3, <2>6 DEF AwsInv, AwsTypeOK, StackInv, LeftOpen, NothingLostUnacknowledged
  <2>8. \A g \in Nat : RolledBack(g) => RolledBack(g)'
    BY <1>3 DEF RolledBack
  <2>9. Bystander(r)
    BY <1>2, <2>2 DEF Bystander, DeployCommands
  <2> QED BY <1>1, <1>4, <2>2, <2>3, <2>4, <2>5, <2>6, <2>7, <2>8, <2>9, AwsFrame
<1> QED BY <1>1, <1>5, <1>7, <1>8 DEF BootstrapDescribe

-----------------------------------------------------------------------------
\* The stack a cleanup finds.
LEMMA CleanupPreflightKeeps ==
    ASSUME AwsInv, NEW o \in Sessions, CleanupPreflight(o)
    PROVE  AwsInv'
<1>1. PICK s \in AwsRuns : s = sessions[o] /\ PointsOf(s)
  BY SessionLemma
<1>2. s.pc = "preflight" /\ s.cmd = "cleanup"
  BY <1>1 DEF CleanupPreflight, At
<1>3. PICK k \in AwsStacks : k = Stack(o) /\ k = stacks["app"]
  BY <1>1, <1>2, SessionLemma
<1>4. PICK p \in {"ok", "failed", "inspect"} :
        /\ Keep(o, [s EXCEPT !.seen = k], p)
        /\ p = "inspect" /\ s.purge => k.status = "ROLLBACK_COMPLETE"
  BY <1>1, <1>3 DEF CleanupPreflight
<1>5. PICK r : r = [[s EXCEPT !.seen = k] EXCEPT !.pc = p]
  OBVIOUS
<1>6. /\ r \in AwsRuns /\ r.pc = p /\ r.cmd = s.cmd /\ r.seen = k
      /\ r.purgeable = s.purgeable /\ r.purge = s.purge
  BY <1>3, <1>4, <1>5 DEF AwsRuns, SessionPoints, CleanupCalls
<1>7. sessions' = [sessions EXCEPT ![o] = r] /\ UNCHANGED <<stacks, changeSets, resources, effects>>
  BY <1>4, <1>5 DEF CleanupPreflight, Keep
<1>8. /\ r.pc \notin SharedCalls \cup DeployCalls \cup StatusCalls \cup EarlyPoints
      /\ r.pc \in CleanupCalls => p = "inspect"
  BY <1>6 DEF CleanupCalls, SharedCalls, DeployCalls, StatusCalls, EarlyPoints
<1>9. PointsOf(r) /\ SeenByOthers(o, r)
  BY <1>1, <1>2, <1>6, <1>8 DEF PointsOf, SeenByOthers, SharedCalls
<1>10. ~AnswersFor(s, SetsOf("app")) /\ Bystander(r)
  BY <1>2, <1>6 DEF AnswersFor, Bystander, DeployCommands
<1>11. k.status = "ROLLBACK_COMPLETE" => RolledBack(k.generation)
  <2>1. SUFFICES ASSUME k.status = "ROLLBACK_COMPLETE" PROVE RolledBack(k.generation)
    OBVIOUS
  <2>2. /\ k.generation \in 1 .. MaxGeneration /\ resources[k.generation] # "unused"
        /\ resources[k.generation] # "data"
    BY <1>3, <2>1 DEF AwsInv, StackInv, CLEANUP_SAFE_STACK_STATUSES
  <2>3. resources[k.generation] \in Contents
    BY <2>2 DEF AwsInv, AwsTypeOK
  <2> QED BY <1>3, <2>1, <2>2, <2>3 DEF RolledBack, Contents
<1> QED BY <1>1, <1>4, <1>6, <1>7, <1>8, <1>9, <1>10, <1>11, AwsStill

\* The inspection and the plan.
LEMMA CleanupPlanKeeps ==
    ASSUME AwsInv, NEW o \in Sessions, CleanupPlan(o)
    PROVE  AwsInv'
<1>1. PICK s \in AwsRuns : s = sessions[o] /\ PointsOf(s)
  BY SessionLemma
<1>2. s.pc = "inspect" /\ s.cmd = "cleanup"
  BY <1>1 DEF CleanupPlan, At
<1>3. PICK e \in BOOLEAN, p \in {"planned", "disable", "failed", "delete"} :
        /\ Keep(o, [s EXCEPT !.purgeable = e], p)
        /\ e => s.purge
  BY <1>1 DEF CleanupPlan, reportedEmpty
<1>4. PICK r : r = [[s EXCEPT !.purgeable = e] EXCEPT !.pc = p]
  OBVIOUS
<1>5. /\ r \in AwsRuns /\ r.pc = p /\ r.cmd = s.cmd /\ r.seen = s.seen
      /\ r.purgeable = e /\ r.purge = s.purge
  BY <1>3, <1>4 DEF AwsRuns, SessionPoints, CleanupCalls
<1>6. sessions' = [sessions EXCEPT ![o] = r] /\ UNCHANGED <<stacks, changeSets, resources, effects>>
  BY <1>3, <1>4 DEF CleanupPlan, Keep
<1>7. r.pc \notin SharedCalls \cup DeployCalls \cup StatusCalls \cup EarlyPoints /\ s.pc \in CleanupCalls
  BY <1>2, <1>5 DEF CleanupCalls, SharedCalls, DeployCalls, StatusCalls, EarlyPoints
<1>8. PointsOf(r) /\ SeenByOthers(o, r)
  BY <1>2, <1>3, <1>5, <1>7 DEF PointsOf, SeenByOthers, SharedCalls
<1>9. ~AnswersFor(s, SetsOf("app")) /\ Bystander(r)
  BY <1>2, <1>5 DEF AnswersFor, Bystander, DeployCommands
<1>10. s.purge => RolledBack(s.seen.generation)
  BY <1>1, <1>7 DEF AwsInv, PurgeInv
<1> QED BY <1>1, <1>5, <1>6, <1>7, <1>8, <1>9, <1>10, AwsStill

\* A cleanup goes on.
LEMMA CleanupMove ==
    ASSUME AwsInv, NEW o \in Sessions, NEW s \in AwsRuns, s = sessions[o],
           s.cmd = "cleanup", s.pc \in CleanupCalls,
           NEW p \in {"confirm", "recover", "gone", "ok", "failed"}, Go(o, p),
           \A g \in Nat : RolledBack(g) => RolledBack(g)'
    PROVE  \E r \in AwsRuns :
              /\ r.pc = p /\ r.cmd = "cleanup" /\ sessions' = [sessions EXCEPT ![o] = r]
              /\ PointsOf(r) /\ SeenByOthers(o, r) /\ r.pc \notin EarlyPoints
              /\ Bystander(r)
              /\ p \in {"confirm", "recover", "gone", "failed"} => AnswersFor(r, SetsOf("app")')
              /\ r.purge /\ r.pc \in CleanupCalls => RolledBack(r.seen.generation)'
<1>1. PICK r : r = [s EXCEPT !.pc = p]
  OBVIOUS
<1>2. p \in SessionPoints
  BY DEF SessionPoints, CleanupCalls
<1>3. /\ r \in AwsRuns /\ r.pc = p /\ r.cmd = "cleanup" /\ r.seen = s.seen
      /\ r.purgeable = s.purgeable /\ r.purge = s.purge
  BY <1>1, <1>2, SessionPointLemma
<1>4. sessions' = [sessions EXCEPT ![o] = r]
  BY <1>1 DEF Go
<1>5. r.pc \notin SharedCalls \cup DeployCalls \cup StatusCalls \cup EarlyPoints
  BY <1>3 DEF SharedCalls, DeployCalls, StatusCalls, EarlyPoints
<1>6. PointsOf(r) /\ SeenByOthers(o, r)
  BY <1>3, <1>5, SessionLemma DEF PointsOf, SeenByOthers, SharedCalls
<1>7. Bystander(r) /\ (p \in {"confirm", "recover", "gone", "failed"} => AnswersFor(r, SetsOf("app")'))
  BY <1>3 DEF Bystander, AnswersFor, DeployCommands
<1>8. ASSUME r.purge PROVE RolledBack(r.seen.generation)'
  <2>1. PICK g \in Nat : g = r.seen.generation
    BY <1>3 DEF AwsRuns, AwsStacks
  <2>2. RolledBack(g)
    BY <1>3, <1>8, <2>1 DEF AwsInv, PurgeInv
  <2>3. RolledBack(g)'
    BY <2>2
  <2>4. r.seen.generation' = r.seen.generation
    BY <1>3
  <2> QED BY <2>1, <2>3 DEF RolledBack
<1> QED BY <1>3, <1>4, <1>5, <1>6, <1>7, <1>8

\* Termination protection is switched off.
LEMMA DisableProtectionKeeps ==
    ASSUME AwsInv, NEW o \in Sessions, DisableProtection(o)
    PROVE  AwsInv'
<1>1. PICK s \in AwsRuns : s = sessions[o] /\ PointsOf(s)
  BY SessionLemma
<1>2. s.pc = "disable" /\ s.cmd = "cleanup" /\ s.pc \in CleanupCalls
  BY <1>1 DEF DisableProtection, At, PointsOf, CleanupCalls
<1>3. PICK k \in AwsStacks : k = Stack(o) /\ k = stacks["app"]
  BY <1>1, <1>2, SessionLemma
<1>4. UNCHANGED <<changeSets, resources, effects>>
  BY DEF DisableProtection
<1>5. CASE Go(o, "failed") /\ UNCHANGED stacks
  BY <1>4, <1>5, SessionFails
<1>6. CASE UpdateStack("app", [k EXCEPT !.protected = FALSE]) /\ Answered(o, "confirm")
  <2>1. PICK p \in {"confirm", "failed"} : Go(o, p)
    BY <1>1, <1>2, <1>6, AnsweredLemma DEF At
  <2>2. PICK v : v = [k EXCEPT !.protected = FALSE]
    OBVIOUS
  <2>3. v \in AwsStacks /\ v.status = k.status /\ v.generation = k.generation
    BY <2>2 DEF AwsStacks
  <2>4. stacks' = [stacks EXCEPT !["app"] = v] /\ "app" \in Targets
    BY <1>6, <2>2 DEF UpdateStack, Targets
  <2>5. /\ stacks' \in [Targets -> AwsStacks] /\ changeSets' \subseteq AwsSets
        /\ resources' \in [1 .. MaxGeneration -> Contents]
        /\ StackInv' /\ NothingLostUnacknowledged'
        /\ \A c \in changeSets' : \E d \in changeSets : d.owner = c.owner
        /\ \A g \in Nat : RolledBack(g) => RolledBack(g)'
    BY <1>3, <1>4, <2>3, <2>4, ProtectionsLemma
  <2>6. PICK r \in AwsRuns :
          /\ r.pc = p /\ r.cmd = "cleanup" /\ sessions' = [sessions EXCEPT ![o] = r]
          /\ PointsOf(r) /\ SeenByOthers(o, r) /\ r.pc \notin EarlyPoints
          /\ AnswersFor(r, SetsOf("app")')
          /\ r.purge /\ r.pc \in CleanupCalls => RolledBack(r.seen.generation)'
    BY <1>1, <1>2, <2>1, <2>5, CleanupMove
  <2> QED BY <2>5, <2>6, AwsFrame
<1> QED BY <1>3, <1>5, <1>6 DEF DisableProtection

\* It is seen to be off.
LEMMA ConfirmUnprotectedKeeps ==
    ASSUME AwsInv, NEW o \in Sessions, ConfirmUnprotected(o)
    PROVE  AwsInv'
<1>1. PICK s \in AwsRuns : s = sessions[o] /\ PointsOf(s)
  BY SessionLemma
<1>2. s.pc = "confirm" /\ s.cmd = "cleanup" /\ s.pc \in CleanupCalls
  BY <1>1 DEF ConfirmUnprotected, At, PointsOf, CleanupCalls
<1>3. PICK p \in {"delete", "failed"} : Keep(o, [s EXCEPT !.unprotected = TRUE], p)
  BY <1>1 DEF ConfirmUnprotected
<1>4. PICK r : r = [[s EXCEPT !.unprotected = TRUE] EXCEPT !.pc = p]
  OBVIOUS
<1>5. /\ r \in AwsRuns /\ r.pc = p /\ r.cmd = s.cmd /\ r.seen = s.seen
      /\ r.purgeable = s.purgeable /\ r.purge = s.purge
  BY <1>3, <1>4 DEF AwsRuns, SessionPoints, CleanupCalls
<1>6. sessions' = [sessions EXCEPT ![o] = r] /\ UNCHANGED <<stacks, changeSets, resources, effects>>
  BY <1>3, <1>4 DEF ConfirmUnprotected, Keep
<1>7. r.pc \notin SharedCalls \cup DeployCalls \cup StatusCalls \cup EarlyPoints
  BY <1>5 DEF SharedCalls, DeployCalls, StatusCalls, EarlyPoints
<1>8. PointsOf(r) /\ SeenByOthers(o, r) /\ AnswersFor(r, SetsOf("app"))
  BY <1>1, <1>2, <1>3, <1>5, <1>7 DEF PointsOf, SeenByOthers, SharedCalls, AnswersFor
<1>9. s.purge => RolledBack(s.seen.generation)
  BY <1>1, <1>2 DEF AwsInv, PurgeInv
<1> QED BY <1>1, <1>5, <1>6, <1>7, <1>8, <1>9, AwsStill

\* The stack is deleted.
LEMMA DeleteStackKeeps ==
    ASSUME AwsInv, NEW o \in Sessions, DeleteStack(o)
    PROVE  AwsInv'
<1>1. PICK s \in AwsRuns : s = sessions[o] /\ PointsOf(s)
  BY SessionLemma
<1>2. s.pc = "delete" /\ s.cmd = "cleanup" /\ s.pc \in CleanupCalls
  BY <1>1 DEF DeleteStack, At, PointsOf, CleanupCalls
<1>3. PICK k \in AwsStacks : k = Stack(o) /\ k = stacks["app"]
  BY <1>1, <1>2, SessionLemma
<1>4. UNCHANGED <<resources, effects>>
  BY DEF DeleteStack
<1>5. CASE Go(o, AfterFailure(o)) /\ UNCHANGED <<stacks, changeSets>>
  BY <1>4, <1>5, AfterFailureKeeps
<1>6. CASE Go(o, "gone") /\ UNCHANGED <<stacks, changeSets>>
  <2>1. PICK p : p = "gone"
    OBVIOUS
  <2>2. /\ p \in SessionPoints
        /\ p \notin DeployCalls \cup SharedCalls \cup StatusCalls \cup EarlyPoints
    BY <2>1 DEF SessionPoints, CleanupCalls, DeployCalls, SharedCalls, StatusCalls, EarlyPoints
  <2> QED BY <1>1, <1>2, <1>4, <1>6, <2>1, <2>2, SessionGoesOn
<1>7. CASE /\ UpdateStack("app", [k EXCEPT !.status = "DELETE_IN_PROGRESS"])
           /\ changeSets' = changeSets \ SetsOf("app") /\ Answered(o, "gone")
  <2>1. PICK p \in {"gone", "failed", "recover"} : Go(o, p)
    BY <1>7, AnsweredLemma
  <2>2. PICK v : v = [k EXCEPT !.status = "DELETE_IN_PROGRESS"]
    OBVIOUS
  <2>3. v \in AwsStacks /\ v.status = "DELETE_IN_PROGRESS" /\ v.generation = k.generation
    BY <2>2 DEF AwsStacks, StackStatuses, InProgress
  <2>4. stacks' = [stacks EXCEPT !["app"] = v]
    BY <1>7, <2>2 DEF UpdateStack
  <2>5. stacks' \in [Targets -> AwsStacks] /\ stacks'["app"] = v
    BY <2>3, <2>4 DEF AwsInv, AwsTypeOK, Targets
  <2>6. /\ changeSets' \subseteq AwsSets /\ SetsOf("app")' = {}
        /\ \A c \in changeSets' : \E d \in changeSets : d.owner = c.owner
    BY <1>7 DEF AwsInv, AwsTypeOK, SetsOf
  <2>7. StackInv'
    BY <1>4, <2>3, <2>5, <2>6 DEF AwsInv, StackInv, CLEANUP_SAFE_STACK_STATUSES, STABLE_STACK_STATUSES
  <2>8. \A g \in Nat : RolledBack(g) => RolledBack(g)'
    BY <1>4, <2>3, <2>5 DEF RolledBack
  <2>9. NothingLostUnacknowledged' /\ resources' \in [1 .. MaxGeneration -> Contents]
    BY <1>4 DEF AwsInv, AwsTypeOK, NothingLostUnacknowledged
  <2>10. PICK r \in AwsRuns :
          /\ r.pc = p /\ r.cmd = "cleanup" /\ sessions' = [sessions EXCEPT ![o] = r]
          /\ PointsOf(r) /\ SeenByOthers(o, r) /\ r.pc \notin EarlyPoints
          /\ AnswersFor(r, SetsOf("app")')
          /\ r.purge /\ r.pc \in CleanupCalls => RolledBack(r.seen.generation)'
    BY <1>1, <1>2, <2>1, <2>8, CleanupMove
  <2> QED BY <2>5, <2>6, <2>7, <2>8, <2>9, <2>10, AwsFrame
<1> QED BY <1>3, <1>5, <1>6, <1>7 DEF DeleteStack

\* Termination protection is switched on again.
LEMMA RecoverProtectionKeeps ==
    ASSUME AwsInv, NEW o \in Sessions, RecoverProtection(o)
    PROVE  AwsInv'
<1>1. PICK s \in AwsRuns : s = sessions[o] /\ PointsOf(s)
  BY SessionLemma
<1>2. s.pc = "recover" /\ s.cmd = "cleanup" /\ s.pc \in CleanupCalls
  BY <1>1 DEF RecoverProtection, At, PointsOf, CleanupCalls
<1>3. PICK k \in AwsStacks : k = Stack(o) /\ k = stacks["app"]
  BY <1>1, <1>2, SessionLemma
<1>4. UNCHANGED <<changeSets, resources, effects>>
  BY DEF RecoverProtection
<1>5. PICK b \in BOOLEAN : b = (k.protected \/ (Exists(k) /\ k.status # "DELETE_IN_PROGRESS"))
  OBVIOUS
<1>6. PICK v : v = [k EXCEPT !.protected = b]
  OBVIOUS
<1>7. v \in AwsStacks /\ v.status = k.status /\ v.generation = k.generation
  BY <1>6 DEF AwsStacks
<1>8. stacks' = [stacks EXCEPT !["app"] = v] /\ "app" \in Targets
  BY <1>3, <1>5, <1>6 DEF RecoverProtection, UpdateStack, Targets
<1>9. /\ stacks' \in [Targets -> AwsStacks] /\ changeSets' \subseteq AwsSets
      /\ resources' \in [1 .. MaxGeneration -> Contents]
      /\ StackInv' /\ NothingLostUnacknowledged'
      /\ \A c \in changeSets' : \E d \in changeSets : d.owner = c.owner
      /\ \A g \in Nat : RolledBack(g) => RolledBack(g)'
  BY <1>3, <1>4, <1>7, <1>8, ProtectionsLemma
<1>10. PICK p : p = "failed"
  OBVIOUS
<1>11. Go(o, p)
  BY <1>10 DEF RecoverProtection
<1>12. PICK r \in AwsRuns :
        /\ r.pc = p /\ r.cmd = "cleanup" /\ sessions' = [sessions EXCEPT ![o] = r]
        /\ PointsOf(r) /\ SeenByOthers(o, r) /\ r.pc \notin EarlyPoints
        /\ AnswersFor(r, SetsOf("app")')
        /\ r.purge /\ r.pc \in CleanupCalls => RolledBack(r.seen.generation)'
  BY <1>1, <1>2, <1>9, <1>10, <1>11, CleanupMove
<1> QED BY <1>9, <1>12, AwsFrame

\* The stack is seen to be gone.
LEMMA VerifyDeletedKeeps ==
    ASSUME AwsInv, NEW o \in Sessions, VerifyDeleted(o)
    PROVE  AwsInv'
<1>1. PICK s \in AwsRuns : s = sessions[o] /\ PointsOf(s)
  BY SessionLemma
<1>2. s.pc = "gone" /\ s.cmd = "cleanup" /\ s.pc \in CleanupCalls
  BY <1>1 DEF VerifyDeleted, At, PointsOf, CleanupCalls
<1>3. UNCHANGED <<stacks, changeSets, resources, effects>>
  BY DEF VerifyDeleted
<1>4. PICK p \in {"failed", "purge", "ok"} :
        /\ Go(o, p)
        /\ p # "failed" => ~Exists(Stack(o))
        /\ p = "purge" => s.purgeable
  BY <1>1 DEF VerifyDeleted
<1>5. CASE p = "failed"
  BY <1>3, <1>4, <1>5, SessionFails
<1>6. CASE p \in {"purge", "ok"}
  <2>1. ~LeftOpen
    BY <1>1, <1>2, <1>4, <1>6, SessionLemma DEF LeftOpen
  <2>2. /\ p \in SessionPoints
        /\ p \notin DeployCalls \cup SharedCalls \cup StatusCalls \cup EarlyPoints
    BY <1>6 DEF SessionPoints, CleanupCalls, DeployCalls, SharedCalls, StatusCalls, EarlyPoints
  <2> QED BY <1>1, <1>2, <1>3, <1>4, <1>6, <2>1, <2>2, SessionGoesOn
<1> QED BY <1>4, <1>5, <1>6

\* The retained resources are purged.
LEMMA PurgeResourcesKeeps ==
    ASSUME AwsInv, NEW o \in Sessions, PurgeResources(o)
    PROVE  AwsInv'
<1>1. PICK s \in AwsRuns : s = sessions[o] /\ PointsOf(s)
  BY SessionLemma
<1>2. s.pc = "purge" /\ s.cmd = "cleanup" /\ s.pc \in CleanupCalls /\ s.purge
  BY <1>1 DEF PurgeResources, At, PointsOf, CleanupCalls
<1>3. PICK g : g = s.seen.generation
  OBVIOUS
<1>4. g \in 1 .. MaxGeneration /\ resources[g] \in {"empty", "absent"}
  BY <1>1, <1>2, <1>3 DEF AwsInv, PurgeInv, RolledBack
<1>5. /\ resources' = [resources EXCEPT ![g] = "absent"] /\ UNCHANGED <<stacks, changeSets>>
      /\ effects' = effects \cup {[by |-> o, owner |-> o, covered |-> resources[g] # "data"]}
  BY <1>1, <1>3 DEF PurgeResources
<1>6. PICK p \in {"ok", "failed"} : Go(o, p)
  BY <1>1, <1>2, AnsweredLemma DEF PurgeResources, At
<1>7. /\ resources' \in [1 .. MaxGeneration -> Contents] /\ resources'[g] = "absent"
      /\ \A x \in 1 .. MaxGeneration : x # g => resources'[x] = resources[x]
  BY <1>4, <1>5 DEF AwsInv, AwsTypeOK, Contents
<1>8. SetsOf("app")' = SetsOf("app") /\ (LeftOpen' <=> LeftOpen) /\ stacks' \in [Targets -> AwsStacks]
      /\ changeSets' \subseteq AwsSets
  BY <1>5 DEF AwsInv, AwsTypeOK, SetsOf, LeftOpen
<1>9. StackInv'
  <2>1. PICK n \in 0 .. MaxGeneration : \A x \in 1 .. MaxGeneration : resources[x] # "unused" <=> x <= n
    BY DEF AwsInv, StackInv
  <2>2. \A x \in 1 .. MaxGeneration : resources'[x] # "unused" <=> x <= n
    BY <1>4, <1>7, <2>1
  <2>3. PICK k : k = stacks["app"]
    OBVIOUS
  <2>4. k.status \in CLEANUP_SAFE_STACK_STATUSES \cup {"CREATE_IN_PROGRESS", "UPDATE_IN_PROGRESS"} =>
           /\ k.generation \in 1 .. MaxGeneration
           /\ resources'[k.generation] # "unused"
    BY <1>7, <2>3 DEF AwsInv, StackInv
  <2>5. k.status \in {"CREATE_IN_PROGRESS", "ROLLBACK_COMPLETE"} => resources'[k.generation] # "data"
    <3>1. SUFFICES ASSUME k.status \in {"CREATE_IN_PROGRESS", "ROLLBACK_COMPLETE"}
                   PROVE  resources'[k.generation] # "data"
      OBVIOUS
    <3>2. k.generation \in 1 .. MaxGeneration /\ resources[k.generation] # "data"
      BY <2>3, <3>1 DEF AwsInv, StackInv, CLEANUP_SAFE_STACK_STATUSES
    <3> QED BY <1>7, <3>2
  <2>6. stacks'["app"] = k
    BY <1>5, <2>3
  <2>7. k.status \in {"none", "DELETE_IN_PROGRESS", "DELETE_FAILED"} => SetsOf("app")' = {}
    BY <1>8, <2>3 DEF AwsInv, StackInv
  <2> QED BY <2>2, <2>4, <2>5, <2>6, <2>7 DEF StackInv
<1>10. \A x \in Nat : RolledBack(x) => RolledBack(x)'
  BY <1>5, <1>7 DEF RolledBack
<1>11. NothingLostUnacknowledged'
  <2>1. PICK b \in BOOLEAN : b = (resources[g] # "data")
    OBVIOUS
  <2>2. PICK e : e = [by |-> o, owner |-> o, covered |-> b]
    OBVIOUS
  <2>3. e.covered = b /\ b
    BY <1>4, <2>1, <2>2
  <2>4. effects' = effects \cup {e}
    BY <1>5, <2>1, <2>2
  <2> QED BY <2>3, <2>4 DEF AwsInv, NothingLostUnacknowledged
<1>12. ~AnswersFor(s, SetsOf("app"))
  BY <1>2 DEF AnswersFor, DeployCommands
<1>13. PICK r \in AwsRuns :
        /\ r.pc = p /\ r.cmd = "cleanup" /\ sessions' = [sessions EXCEPT ![o] = r]
        /\ PointsOf(r) /\ SeenByOthers(o, r) /\ r.pc \notin EarlyPoints
        /\ Bystander(r)
        /\ r.purge /\ r.pc \in CleanupCalls => RolledBack(r.seen.generation)'
  BY <1>1, <1>2, <1>6, <1>10, CleanupMove
<1> QED BY <1>1, <1>5, <1>7, <1>8, <1>9, <1>10, <1>11, <1>12, <1>13, AwsFrame

-----------------------------------------------------------------------------
\* What `status aws` finds.
LEMMA StatusPreflightKeeps ==
    ASSUME AwsInv, NEW o \in Sessions, NEW d, StatusPreflight(o, d)
    PROVE  AwsInv'
<1>1. PICK s \in AwsRuns : s = sessions[o] /\ PointsOf(s)
  BY SessionLemma
<1>2. s.pc = "preflight" /\ s.cmd = "status"
  BY <1>1 DEF StatusPreflight, At
<1>3. PICK k \in AwsStacks : k = Stack(o)
  BY SessionLemma
<1>4. PICK p \in {"ok", "report", "drift", "failed"} : Keep(o, [s EXCEPT !.seen = k], p)
  BY <1>1, <1>3 DEF StatusPreflight
<1>5. PICK r : r = [[s EXCEPT !.seen = k] EXCEPT !.pc = p]
  OBVIOUS
<1>6. /\ r \in AwsRuns /\ r.pc = p /\ r.cmd = s.cmd /\ r.purgeable = s.purgeable /\ r.purge = s.purge
  BY <1>3, <1>4, <1>5 DEF AwsRuns, SessionPoints, StatusCalls
<1>7. sessions' = [sessions EXCEPT ![o] = r] /\ UNCHANGED <<stacks, changeSets, resources, effects>>
  BY <1>4, <1>5 DEF StatusPreflight, Keep
<1>8. r.pc \notin CleanupCalls \cup DeployCalls \cup SharedCalls \cup EarlyPoints
  BY <1>6 DEF CleanupCalls, DeployCalls, SharedCalls, EarlyPoints
<1>9. PointsOf(r) /\ SeenByOthers(o, r)
  BY <1>1, <1>2, <1>6, <1>8 DEF PointsOf, SeenByOthers, SharedCalls
<1>10. ~AnswersFor(s, SetsOf("app")) /\ Bystander(r)
  BY <1>2, <1>6 DEF AnswersFor, Bystander, DeployCommands
<1> QED BY <1>1, <1>6, <1>7, <1>8, <1>9, <1>10, AwsStill

\* The drift detection and the report.
LEMMA StatusReportKeeps ==
    ASSUME AwsInv, NEW o \in Sessions, NEW h, DetectDrift(o) \/ StatusReport(o, h)
    PROVE  AwsInv'
<1>1. PICK s \in AwsRuns : s = sessions[o] /\ PointsOf(s)
  BY SessionLemma
<1>2. s.pc \in {"drift", "report"} /\ s.cmd = "status"
  BY <1>1 DEF DetectDrift, StatusReport, At, PointsOf, StatusCalls
<1>3. UNCHANGED <<stacks, changeSets, resources, effects>>
  BY DEF DetectDrift, StatusReport
<1>4. PICK p \in {"report", "failed", "operational", "ok"} : Go(o, p)
  <2>1. CASE DetectDrift(o)
    BY <2>1 DEF DetectDrift
  <2>2. CASE StatusReport(o, h)
    BY <2>2 DEF StatusReport
  <2> QED BY <2>1, <2>2
<1>5. /\ p \in SessionPoints
      /\ p \notin DeployCalls \cup SharedCalls \cup CleanupCalls \cup EarlyPoints
  BY DEF SessionPoints, DeployCalls, SharedCalls, CleanupCalls, StatusCalls, EarlyPoints
<1>6. s.cmd \notin DeployCommands /\ ~AnswersFor(s, SetsOf("app"))
  BY <1>2 DEF AnswersFor, DeployCommands
<1> QED BY <1>1, <1>2, <1>3, <1>4, <1>5, <1>6, SessionGoesOn

-----------------------------------------------------------------------------
\* The sessions stand still while the application stack or its resources move.
LEMMA AccountFrame ==
    ASSUME AwsInv, UNCHANGED <<changeSets, sessions, effects>>,
           stacks' \in [Targets -> AwsStacks], resources' \in [1 .. MaxGeneration -> Contents],
           StackInv', LeftOpen' => LeftOpen,
           \A g \in Nat : RolledBack(g) => RolledBack(g)'
    PROVE  AwsInv'
<1>1. AwsTypeOK'
  BY DEF AwsInv, AwsTypeOK
<1>2. \A o \in Sessions : PointsOf(sessions[o])'
  BY DEF AwsInv, PointsOf
<1>3. OwnersInv'
  BY DEF AwsInv, OwnersInv, SeenByOthers
<1>4. PurgeInv'
  <2>1. ASSUME NEW o \in Sessions, sessions[o].purge, sessions[o].pc \in CleanupCalls
        PROVE  RolledBack(sessions[o].seen.generation)'
    <3>1. PICK g \in Nat : g = sessions[o].seen.generation
      BY DEF AwsInv, AwsTypeOK, AwsRuns, AwsStacks
    <3>2. RolledBack(g)'
      BY <2>1, <3>1 DEF AwsInv, PurgeInv
    <3>3. sessions'[o].seen.generation = g
      BY <3>1
    <3> QED BY <3>2, <3>3 DEF RolledBack
  <2> QED BY <2>1 DEF PurgeInv
<1>5. ProtectionInv'
  <2>1. SetsOf("app")' = SetsOf("app")
    BY DEF SetsOf
  <2>2. (\E o \in Sessions : AnswersFor(sessions[o], SetsOf("app")))
           => \E o \in Sessions : AnswersFor(sessions[o], SetsOf("app"))'
    BY <2>1 DEF AnswersFor
  <2>3. (\A o \in Sessions : Bystander(sessions[o])) => \A o \in Sessions : Bystander(sessions[o])'
    BY DEF Bystander, Exists
  <2> QED BY <2>2, <2>3 DEF AwsInv, ProtectionInv
<1>6. NothingLostUnacknowledged'
  BY DEF AwsInv, NothingLostUnacknowledged
<1> QED BY <1>1, <1>2, <1>3, <1>4, <1>5, <1>6 DEF AwsInv

\* An operation of CloudFormation ends.
LEMMA SettleStackKeeps ==
    ASSUME AwsInv, NEW t \in DOMAIN stacks, SettleStack(t)
    PROVE  AwsInv'
<1>1. t \in Targets
  BY DEF AwsInv, AwsTypeOK
<1>2. PICK k \in AwsStacks : k = stacks[t]
  BY <1>1 DEF AwsInv, AwsTypeOK
<1>3. UNCHANGED <<changeSets, resources, sessions, effects>>
  BY DEF SettleStack
<1>4. PICK end \in SettledAs(k.status) :
        UpdateStack(t, IF end = "none" THEN NoStack ELSE [k EXCEPT !.status = end])
  BY <1>2 DEF SettleStack
<1>5. \/ k.status = "CREATE_IN_PROGRESS" /\ end \in {"CREATE_COMPLETE", "ROLLBACK_COMPLETE"}
      \/ k.status = "UPDATE_IN_PROGRESS" /\ end \in {"UPDATE_COMPLETE", "UPDATE_ROLLBACK_COMPLETE"}
      \/ k.status = "DELETE_IN_PROGRESS" /\ end \in {"none", "DELETE_FAILED"}
  BY <1>4 DEF SettledAs
<1>6. end \in StackStatuses
  BY <1>5 DEF StackStatuses, CLEANUP_SAFE_STACK_STATUSES, STABLE_STACK_STATUSES
<1>7. PICK v : v = IF end = "none" THEN NoStack ELSE [k EXCEPT !.status = end]
  OBVIOUS
<1>8. /\ v \in AwsStacks /\ v.status = end
      /\ end = "none" => v.generation = 0
      /\ end # "none" => /\ v.generation = k.generation /\ v.protected = k.protected
                         /\ v.policy = k.policy
  <2>1. CASE end = "none"
    BY <1>7, <2>1 DEF NoStack, AwsStacks, StackStatuses
  <2>2. CASE end # "none"
    BY <1>6, <1>7, <2>2 DEF AwsStacks
  <2> QED BY <2>1, <2>2
<1>9. stacks' = [stacks EXCEPT ![t] = v]
  BY <1>4, <1>7 DEF UpdateStack
<1>10. stacks' \in [Targets -> AwsStacks] /\ resources' \in [1 .. MaxGeneration -> Contents]
       /\ SetsOf("app")' = SetsOf("app")
  BY <1>1, <1>3, <1>8, <1>9 DEF AwsInv, AwsTypeOK, SetsOf
<1>11. CASE t # "app"
  <2>1. stacks'["app"] = stacks["app"]
    BY <1>1, <1>9, <1>11 DEF AwsInv, AwsTypeOK, Targets
  <2>2. StackInv' /\ (LeftOpen' => LeftOpen)
    BY <1>3, <1>10, <2>1 DEF AwsInv, StackInv, LeftOpen
  <2>3. \A g \in Nat : RolledBack(g) => RolledBack(g)'
    BY <1>3, <2>1 DEF RolledBack
  <2> QED BY <1>3, <1>10, <2>2, <2>3, AccountFrame
<1>12. CASE t = "app"
  <2>1. k = stacks["app"] /\ stacks'["app"] = v
    BY <1>2, <1>9, <1>12 DEF AwsInv, AwsTypeOK, Targets
  <2>2. v.status \in {"none", "DELETE_IN_PROGRESS", "DELETE_FAILED"} => SetsOf("app")' = {}
    BY <1>5, <1>8, <1>10, <2>1 DEF AwsInv, StackInv
  <2>3. k.status \in {"CREATE_IN_PROGRESS", "UPDATE_IN_PROGRESS"} =>
          k.generation \in 1 .. MaxGeneration /\ resources[k.generation] # "unused"
    BY <2>1 DEF AwsInv, StackInv
  <2>4. k.status = "CREATE_IN_PROGRESS" => resources[k.generation] # "data"
    BY <2>1 DEF AwsInv, StackInv
  <2>5. v.status \in CLEANUP_SAFE_STACK_STATUSES \cup {"CREATE_IN_PROGRESS", "UPDATE_IN_PROGRESS"} =>
          k.status \in {"CREATE_IN_PROGRESS", "UPDATE_IN_PROGRESS"} /\ v.generation = k.generation
    BY <1>5, <1>8 DEF CLEANUP_SAFE_STACK_STATUSES, STABLE_STACK_STATUSES
  <2>6. v.status \in {"CREATE_IN_PROGRESS", "ROLLBACK_COMPLETE"} =>
          k.status = "CREATE_IN_PROGRESS" /\ v.generation = k.generation
    BY <1>5, <1>8
  <2>7. StackInv'
    <3>1. \E n \in 0 .. MaxGeneration : \A g \in 1 .. MaxGeneration : resources'[g] # "unused" <=> g <= n
      BY <1>3 DEF AwsInv, StackInv
    <3> QED BY <1>3, <2>1, <2>2, <2>3, <2>4, <2>5, <2>6, <3>1 DEF StackInv
  <2>8. LeftOpen' => LeftOpen
    BY <1>5, <1>8, <2>1 DEF LeftOpen, Exists
  <2>9. \A g \in Nat : RolledBack(g) => RolledBack(g)'
    BY <1>3, <1>5, <1>8, <2>1 DEF RolledBack
  <2> QED BY <1>3, <1>10, <2>7, <2>8, <2>9, AccountFrame
<1> QED BY <1>11, <1>12

\* The application stores data.
LEMMA UseApplicationKeeps ==
    ASSUME AwsInv, UseApplication
    PROVE  AwsInv'
<1>1. PICK k \in AwsStacks : k = stacks["app"]
  BY DEF AwsInv, AwsTypeOK, Targets
<1>2. PICK g : g = k.generation
  OBVIOUS
<1>3. /\ k.status \in STABLE_STACK_STATUSES /\ resources[g] = "empty"
      /\ resources' = [resources EXCEPT ![g] = "data"]
      /\ UNCHANGED <<stacks, changeSets, sessions, effects>>
  BY <1>1, <1>2 DEF UseApplication
<1>4. g \in 1 .. MaxGeneration
  BY <1>1, <1>2, <1>3 DEF AwsInv, StackInv, CLEANUP_SAFE_STACK_STATUSES
<1>5. /\ resources' \in [1 .. MaxGeneration -> Contents] /\ resources'[g] = "data"
      /\ \A x \in 1 .. MaxGeneration : x # g => resources'[x] = resources[x]
  BY <1>3, <1>4 DEF AwsInv, AwsTypeOK, Contents
<1>6. stacks' \in [Targets -> AwsStacks] /\ SetsOf("app")' = SetsOf("app") /\ (LeftOpen' => LeftOpen)
  BY <1>3 DEF AwsInv, AwsTypeOK, SetsOf, LeftOpen
<1>7. StackInv'
  <2>1. PICK n \in 0 .. MaxGeneration : \A x \in 1 .. MaxGeneration : resources[x] # "unused" <=> x <= n
    BY DEF AwsInv, StackInv
  <2>2. \A x \in 1 .. MaxGeneration : resources'[x] # "unused" <=> x <= n
    BY <1>3, <1>4, <1>5, <2>1
  <2>3. k.status \notin {"none", "DELETE_IN_PROGRESS", "DELETE_FAILED", "CREATE_IN_PROGRESS", "ROLLBACK_COMPLETE"}
    BY <1>3 DEF STABLE_STACK_STATUSES
  <2>4. stacks'["app"] = k
    BY <1>1, <1>3
  <2> QED BY <1>2, <1>4, <1>5, <2>2, <2>3, <2>4 DEF StackInv
<1>8. \A x \in Nat : RolledBack(x) => RolledBack(x)'
  BY <1>1, <1>2, <1>3, <1>5 DEF RolledBack, STABLE_STACK_STATUSES
<1> QED BY <1>3, <1>5, <1>6, <1>7, <1>8, AccountFrame

-----------------------------------------------------------------------------
\* The commands start from an account at rest.
LEMMA AwsInitInv == AwsInit => AwsInv
<1> SUFFICES ASSUME AwsInit PROVE AwsInv
  OBVIOUS
<1>1. PICK k \in Existing :
        stacks = [t \in {"app", "bootstrap"} |-> IF t = "app" THEN k ELSE NoStack]
  BY DEF AwsInit
<1>2. NoStack \in AwsStacks /\ NoStack.status = "none" /\ NoStack.generation = 0
  BY DEF NoStack, AwsStacks, StackStatuses
<1>3. /\ k \in AwsStacks
      /\ \/ k.status = "none" /\ k.generation = 0
         \/ k.status \in CLEANUP_SAFE_STACK_STATUSES /\ k.generation = 1
  <2>1. CASE k = NoStack
    BY <1>2, <2>1
  <2>2. CASE k \in [status : CLEANUP_SAFE_STACK_STATUSES, protected : BOOLEAN,
                    policy : BOOLEAN, managed : BOOLEAN, generation : {1}]
    BY <2>2 DEF AwsStacks, StackStatuses
  <2> QED BY <1>1, <2>1, <2>2, ExistingAreAtRest
<1>4. stacks \in [Targets -> AwsStacks] /\ stacks["app"] = k
  BY <1>1, <1>2, <1>3 DEF Targets
<1>5. /\ resources = [g \in 1 .. MaxGeneration |->
                        IF g # k.generation THEN "unused"
                        ELSE IF k.status = "ROLLBACK_COMPLETE" THEN "empty" ELSE "data"]
      /\ changeSets = {} /\ effects = {}
  BY <1>4 DEF AwsInit
<1>6. PICK i : i = IdleSession
  OBVIOUS
<1>7. i \in AwsRuns /\ i.pc = "idle" /\ i.cmd = "none" /\ ~i.purgeable
  <2>1. /\ NewSession("none", FALSE, FALSE, FALSE, FALSE) \in AwsRuns
        /\ NewSession("none", FALSE, FALSE, FALSE, FALSE).pc = "idle"
        /\ NewSession("none", FALSE, FALSE, FALSE, FALSE).cmd = "none"
        /\ ~NewSession("none", FALSE, FALSE, FALSE, FALSE).purgeable
    BY NewSessionLemma
  <2> QED BY <1>6, <2>1 DEF IdleSession
<1>8. sessions = [o \in Sessions |-> i]
  BY <1>6 DEF AwsInit
<1>9. AwsTypeOK
  BY <1>4, <1>5, <1>7, <1>8 DEF AwsTypeOK, Contents
<1>10. \A o \in Sessions : PointsOf(sessions[o])
  <2>1. PointsOf(i)
    BY <1>7 DEF PointsOf, DeployCalls, SharedCalls, CleanupCalls, StatusCalls
  <2> QED BY <1>8, <2>1
<1>11. OwnersInv /\ PurgeInv /\ ProtectionInv
  <2>1. i.pc \notin CleanupCalls /\ Bystander(i) /\ \A o : SeenByOthers(o, i)
    BY <1>7 DEF CleanupCalls, Bystander, SeenByOthers, DeployCommands
  <2> QED BY <1>5, <1>8, <2>1 DEF OwnersInv, PurgeInv, ProtectionInv
<1>12. StackInv
  <2>1. PICK n \in 0 .. 1 : n = k.generation
    BY <1>3
  <2>2. \A g \in 1 .. MaxGeneration : resources[g] # "unused" <=> g <= n
    BY <1>5, <2>1
  <2>3. n \in 0 .. MaxGeneration
    BY GenerationsAreCounted
  <2>4. SetsOf("app") = {}
    BY <1>5 DEF SetsOf
  <2>5. k.status # "none" => k.generation \in 1 .. MaxGeneration
    BY <1>3, GenerationsAreCounted
  <2>6. k.status = "ROLLBACK_COMPLETE" => resources[k.generation] # "data"
    BY <1>5, <2>5
  <2>7. k.status # "none" => resources[k.generation] # "unused"
    BY <1>5, <2>5
  <2>8. k.status \notin {"CREATE_IN_PROGRESS", "UPDATE_IN_PROGRESS"} /\ "none" \notin CLEANUP_SAFE_STACK_STATUSES
    BY <1>3 DEF CLEANUP_SAFE_STACK_STATUSES, STABLE_STACK_STATUSES
  <2> QED BY <1>4, <2>2, <2>3, <2>4, <2>5, <2>6, <2>7, <2>8 DEF StackInv
<1>13. NothingLostUnacknowledged
  BY <1>5 DEF NothingLostUnacknowledged
<1> QED BY <1>9, <1>10, <1>11, <1>12, <1>13 DEF AwsInv

\* Every step of the commands and of the account.
LEMMA AwsNextInv == AwsInv /\ [AwsNext]_awsVars => AwsInv'
<1> SUFFICES ASSUME AwsInv, [AwsNext]_awsVars PROVE AwsInv'
  OBVIOUS
<1>1. CASE UNCHANGED awsVars
  <2>1. /\ StackInv' /\ (LeftOpen' => LeftOpen)
        /\ stacks' \in [Targets -> AwsStacks] /\ resources' \in [1 .. MaxGeneration -> Contents]
    BY <1>1 DEF awsVars, AwsInv, AwsTypeOK, StackInv, SetsOf, LeftOpen
  <2>2. \A g \in Nat : RolledBack(g) => RolledBack(g)'
    BY <1>1 DEF awsVars, RolledBack
  <2> QED BY <1>1, <2>1, <2>2, AccountFrame DEF awsVars
<1>2. ASSUME NEW t \in DOMAIN stacks, SettleStack(t) PROVE AwsInv'
  BY <1>2, SettleStackKeeps
<1>3. CASE UseApplication
  BY <1>3, UseApplicationKeeps
<1>4. ASSUME NEW o \in Sessions, NEW cmd \in Commands, Begin(o, cmd) PROVE AwsInv'
  BY <1>4, BeginKeeps
<1>5. ASSUME NEW o \in Sessions, CallFails(o) PROVE AwsInv'
  BY <1>5, CallFailsKeeps
<1>6. ASSUME NEW o \in Sessions, DeployStep(o) PROVE AwsInv'
  <2>1. ASSUME NEW e, DeployPreflight(o, e) PROVE AwsInv'
    BY <2>1, DeployPreflightKeeps
  <2> QED BY <1>6, <2>1, DeployBuildKeeps, ListBeforeKeeps, SamDeployKeeps, ListAfterKeeps,
            DescribeChangeSetKeeps, ExecuteChangeSetKeeps, WaitForStackKeeps, SetStackPolicyKeeps,
            EnableProtectionKeeps, VerifyProtectionsKeeps DEF DeployStep
<1>7. ASSUME NEW o \in Sessions, BootstrapStep(o) PROVE AwsInv'
  BY <1>7, BootstrapPreflightKeeps, BootstrapCreateKeeps, BootstrapDescribeKeeps DEF BootstrapStep
<1>8. ASSUME NEW o \in Sessions, CleanupStep(o) PROVE AwsInv'
  BY <1>8, CleanupPreflightKeeps, CleanupPlanKeeps, DisableProtectionKeeps, ConfirmUnprotectedKeeps,
     DeleteStackKeeps, RecoverProtectionKeeps, VerifyDeletedKeeps, PurgeResourcesKeeps DEF CleanupStep
<1>9. ASSUME NEW o \in Sessions, StatusStep(o) PROVE AwsInv'
  BY <1>9, StatusPreflightKeeps, StatusReportKeeps DEF StatusStep
<1> QED BY <1>1, <1>2, <1>3, <1>4, <1>5, <1>6, <1>7, <1>8, <1>9 DEF AwsNext, Proceed

\* The invariant of the AWS commands: whoever runs beside whom, the account's
\* generations, change sets and retained resources fit, and an open stack has
\* somebody to answer for it or was open when it was found.
THEOREM AwsInvariant == AwsSpec => []AwsInv
<1> QED BY AwsInitInv, AwsNextInv, PTL DEF AwsSpec

\* No interleaving of deploy, upgrade, cleanup and bootstrap runs, and no call
\* failing after its effect, destroys a retained resource with data in it, or
\* lets go of one, that an operator did not acknowledge.
THEOREM NothingLostUnacknowledgedHolds == AwsSpec => []NothingLostUnacknowledged
<1>1. AwsInv => NothingLostUnacknowledged
  BY DEF AwsInv
<1> QED BY <1>1, AwsInvariant, PTL

-----------------------------------------------------------------------------
\* A deployment that has the account to itself: while it finds no stack there
\* is none, so that the change set it asks for is the only one; and when it has
\* ended well the stack is not open.
AloneRun(r) ==
    r.cmd \in DeployCommands =>
        /\ r.pc \in {"build", "before", "create"} /\ ~Exists(r.seen) => ~Exists(stacks["app"])
        /\ r.pc \in {"create", "after"} /\ ~Exists(r.seen) => r.before = {}
        /\ r.pc = "after" /\ ~Exists(r.seen) => SetsOf("app") # {}
        /\ r.pc = "ok" => ~LeftOpen

AloneInv ==
    \A o \in alone :
        /\ o \in Sessions
        /\ \A p \in Sessions \ {o} : AtRest(p)
        /\ AloneRun(sessions[o])

\* A step of a session that is under way: whoever is alone is that session.
LEMMA AloneFrame ==
    ASSUME AwsInv, AloneInv, UNCHANGED alone, NEW o \in Sessions, ~AtRest(o),
           NEW r, sessions' = [sessions EXCEPT ![o] = r],
           AloneRun(sessions[o]) => AloneRun(r)'
    PROVE  AloneInv'
<1>1. \A p \in Sessions : sessions'[p] = IF p = o THEN r ELSE sessions[p]
  BY DEF AwsInv, AwsTypeOK
<1>2. \A p \in alone : p = o
  BY DEF AloneInv
<1>3. \A p \in Sessions \ {o} : AtRest(p) => AtRest(p)'
  BY <1>1 DEF AtRest
<1>4. o \in alone => AloneRun(sessions[o])'
  <2>1. o \in alone => AloneRun(r)'
    BY DEF AloneInv
  <2>2. sessions'[o] = r
    BY <1>1
  <2> QED BY <2>1, <2>2 DEF AloneRun
<1>5. ASSUME NEW p \in alone'
      PROVE  p \in Sessions /\ (\A x \in Sessions \ {p} : AtRest(x)') /\ AloneRun(sessions[p])'
  <2>1. p = o /\ o \in alone
    BY <1>2, <1>5
  <2>2. \A x \in Sessions \ {o} : AtRest(x)
    BY <2>1 DEF AloneInv
  <2>3. AloneRun(sessions[p])'
    BY <1>4, <2>1
  <2> QED BY <1>3, <2>1, <2>2, <2>3
<1> QED BY <1>5 DEF AloneInv

\* A run that is no deployment, or stands at a point without conditions.
LEMMA AloneElsewhere ==
    ASSUME AwsInv, AloneInv, UNCHANGED alone, NEW o \in Sessions, ~AtRest(o),
           NEW r, sessions' = [sessions EXCEPT ![o] = r],
           \/ r.cmd \notin DeployCommands
           \/ r.pc \notin {"build", "before", "create", "after", "ok"}
    PROVE  AloneInv'
<1>1. AloneRun(r)'
  BY DEF AloneRun
<1> QED BY <1>1, AloneFrame

\* A step to another point, and a step that keeps what it has read.
LEMMA AloneGo ==
    ASSUME AwsInv, NEW o \in Sessions, NEW p, Go(o, p)
    PROVE  \E r : /\ sessions' = [sessions EXCEPT ![o] = r] /\ r.pc = p
                  /\ r.cmd = sessions[o].cmd /\ r.seen = sessions[o].seen
                  /\ r.before = sessions[o].before
<1>1. PICK s \in AwsRuns : s = sessions[o]
  BY DEF AwsInv, AwsTypeOK
<1>2. PICK r : r = [s EXCEPT !.pc = p]
  OBVIOUS
<1>3. r.pc = p /\ r.cmd = s.cmd /\ r.seen = s.seen /\ r.before = s.before
  BY <1>1, <1>2 DEF AwsRuns
<1> QED BY <1>1, <1>2, <1>3 DEF Go

\* A call fails, or a run ends without success.
LEMMA AloneStops ==
    ASSUME AwsInv, AloneInv, UNCHANGED alone, NEW o \in Sessions, ~AtRest(o),
           NEW p, Go(o, p), p \notin {"build", "before", "create", "after", "ok"}
    PROVE  AloneInv'
BY AloneGo, AloneElsewhere

LEMMA AloneCallFails ==
    ASSUME AwsInv, AloneInv, UNCHANGED alone, NEW o \in Sessions, CallFails(o)
    PROVE  AloneInv'
<1>1. Go(o, AfterFailure(o)) /\ ~AtRest(o)
  BY DEF CallFails, Calls, AtRest
<1>2. AfterFailure(o) \in {"recover", "failed"}
  BY DEF AfterFailure
<1> QED BY <1>1, <1>2, AloneStops

\* Only a session that deploys has conditions to keep.
LEMMA AloneOthers ==
    ASSUME AwsInv, AloneInv, UNCHANGED alone, NEW o \in Sessions,
           BootstrapStep(o) \/ CleanupStep(o) \/ StatusStep(o)
    PROVE  AloneInv'
<1>1. PICK s \in AwsRuns : s = sessions[o] /\ PointsOf(s)
  BY DEF AwsInv, AwsTypeOK
<1>2. s.cmd \notin DeployCommands /\ ~AtRest(o)
  BY <1>1 DEF PointsOf, At, AtRest, DeployCommands, SharedCalls, CleanupCalls, StatusCalls,
     BootstrapStep, BootstrapPreflight, BootstrapCreate, BootstrapDescribe,
     CleanupStep, CleanupPreflight, CleanupPlan, DisableProtection, ConfirmUnprotected,
     DeleteStack, RecoverProtection, VerifyDeleted, PurgeResources,
     StatusStep, StatusPreflight, DetectDrift, StatusReport
<1>3. \E r : sessions' = [sessions EXCEPT ![o] = r] /\ r.cmd = s.cmd
  <2>1. ASSUME NEW p, Go(o, p) PROVE <1>3
    BY <1>1, <2>1, AloneGo
  <2>2. ASSUME NEW n, Answered(o, n) PROVE <1>3
    BY <2>1, <2>2 DEF Answered
  <2>3. DOMAIN s = {"pc", "cmd", "apply", "allow", "purge", "disable", "seen", "before", "set",
                    "purgeable", "unprotected"}
    BY DEF AwsRuns
  <2>4. ASSUME NEW k, NEW p, Keep(o, k, p), k.cmd = s.cmd, DOMAIN k = DOMAIN s PROVE <1>3
    <3>1. PICK r : r = [k EXCEPT !.pc = p]
      OBVIOUS
    <3>2. r.cmd = s.cmd
      BY <2>3, <2>4, <3>1
    <3> QED BY <2>4, <3>1, <3>2 DEF Keep
  <2>5. ASSUME NEW v, NEW p, Keep(o, [s EXCEPT !.seen = v], p) PROVE <1>3
    BY <2>3, <2>4, <2>5
  <2>6. ASSUME NEW v, NEW p, Keep(o, [s EXCEPT !.set = v], p) PROVE <1>3
    BY <2>3, <2>4, <2>6
  <2>7. ASSUME NEW v, NEW p, Keep(o, [s EXCEPT !.purgeable = v], p) PROVE <1>3
    BY <2>3, <2>4, <2>7
  <2>8. ASSUME NEW v, NEW p, Keep(o, [s EXCEPT !.unprotected = v], p) PROVE <1>3
    BY <2>3, <2>4, <2>8
  <2>9. CASE BootstrapStep(o)
    BY <1>1, <2>1, <2>5, <2>6, <2>9
    DEF BootstrapStep, BootstrapPreflight, BootstrapCreate, BootstrapDescribe
  <2>10. CASE CleanupStep(o)
    <3>1. CASE CleanupPreflight(o) \/ CleanupPlan(o) \/ ConfirmUnprotected(o)
      BY <1>1, <2>5, <2>7, <2>8, <3>1 DEF CleanupPreflight, CleanupPlan, ConfirmUnprotected
    <3>2. CASE DisableProtection(o) \/ DeleteStack(o) \/ PurgeResources(o)
      BY <2>1, <2>2, <3>2 DEF DisableProtection, DeleteStack, PurgeResources
    <3>3. CASE RecoverProtection(o) \/ VerifyDeleted(o)
      BY <2>1, <3>3 DEF RecoverProtection, VerifyDeleted
    <3> QED BY <2>10, <3>1, <3>2, <3>3 DEF CleanupStep
  <2>11. CASE StatusStep(o)
    BY <1>1, <2>1, <2>5, <2>11 DEF StatusStep, StatusPreflight, DetectDrift, StatusReport
  <2> QED BY <2>9, <2>10, <2>11
<1> QED BY <1>2, <1>3, <1>1, AloneElsewhere

\* The account takes a step: a stack does not come to be, nor is it opened.
LEMMA AloneStays ==
    ASSUME AloneInv, UNCHANGED <<alone, sessions, changeSets>>,
           Exists(stacks["app"])' => Exists(stacks["app"]), LeftOpen' => LeftOpen
    PROVE  AloneInv'
<1>1. ASSUME NEW r, AloneRun(r)
      PROVE  AloneRun(r)'
  BY <1>1 DEF AloneRun, Exists, SetsOf
<1>2. ASSUME NEW o \in alone
      PROVE  AloneRun(sessions[o])'
  <2>1. AloneRun(sessions[o])
    BY <1>2 DEF AloneInv
  <2> QED BY <2>1 DEF AloneRun, Exists, SetsOf
<1> QED BY <1>2 DEF AloneInv, AtRest

LEMMA AloneAccount ==
    ASSUME AwsInv, AloneInv, UNCHANGED alone,
           (\E t \in DOMAIN stacks : SettleStack(t)) \/ UseApplication
    PROVE  AloneInv'
<1>1. CASE UseApplication
  BY <1>1, AloneStays DEF UseApplication, Exists, LeftOpen
<1>2. ASSUME NEW t \in DOMAIN stacks, SettleStack(t)
      PROVE  AloneInv'
  <2>1. stacks["app"] \in AwsStacks /\ stacks \in [Targets -> AwsStacks] /\ t \in Targets
    BY <1>2 DEF AwsInv, AwsTypeOK, Targets
  <2>2. PICK k : /\ stacks' = [stacks EXCEPT ![t] = k]
                 /\ stacks[t].status # "none"
                 /\ ~Exists(k) \/ (k.protected = stacks[t].protected /\ k.policy = stacks[t].policy)
    <3>1. PICK end \in SettledAs(stacks[t].status) :
            UpdateStack(t, IF end = "none" THEN NoStack ELSE [stacks[t] EXCEPT !.status = end])
      BY <1>2 DEF SettleStack
    <3>2. stacks[t].status # "none"
      BY <3>1 DEF SettledAs
    <3>3. ~Exists(NoStack)
      BY DEF Exists, NoStack
    <3>4. stacks[t] \in AwsStacks
      BY <2>1
    <3>5. /\ [stacks[t] EXCEPT !.status = end].protected = stacks[t].protected
          /\ [stacks[t] EXCEPT !.status = end].policy = stacks[t].policy
      BY <3>4 DEF AwsStacks
    <3> QED BY <3>1, <3>2, <3>3, <3>5 DEF UpdateStack
  <2>3. UNCHANGED <<sessions, changeSets>>
    BY <1>2 DEF SettleStack
  <2>4. CASE t = "app"
    <3>1. stacks'["app"] = k
      BY <2>1, <2>2, <2>4
    <3> QED BY <2>2, <2>3, <2>4, <3>1, AloneStays DEF Exists, LeftOpen
  <2>5. CASE t # "app"
    <3>1. stacks'["app"] = stacks["app"]
      BY <2>1, <2>2, <2>5 DEF Targets
    <3> QED BY <2>3, <3>1, AloneStays DEF Exists, LeftOpen
  <2> QED BY <2>4, <2>5
<1> QED BY <1>1, <1>2

\* A run that begins is alone when nobody else is under way.
LEMMA AloneBegins ==
    ASSUME AwsInv, AloneInv, NEW o \in Sessions, NEW cmd \in Commands, Begin(o, cmd)
    PROVE  AloneInv'
<1>1. PICK f \in FlagsOf(cmd), p \in {"preflight", "failed"} : Keep(o, f, p)
  BY DEF Begin
<1>2. f \in AwsRuns
  BY FlagsLemma
<1>3. PICK r : r = [f EXCEPT !.pc = p]
  OBVIOUS
<1>4. r.pc = p
  BY <1>2, <1>3 DEF AwsRuns
<1>5. \A x \in Sessions : sessions'[x] = IF x = o THEN r ELSE sessions[x]
  BY <1>1, <1>3 DEF Keep, AwsInv, AwsTypeOK
<1>6. AloneRun(sessions[o])'
  BY <1>1, <1>4, <1>5 DEF AloneRun
<1>7. (\A x \in Sessions : AtRest(x)) => \A x \in Sessions \ {o} : AtRest(x)'
  BY <1>5 DEF AtRest
<1>8. alone' = {} \/ (alone' = {o} /\ \A x \in Sessions : AtRest(x))
  BY DEF Begin
<1> QED BY <1>6, <1>7, <1>8 DEF AloneInv

\* A deployment goes on.
LEMMA AloneDeploys ==
    ASSUME AwsInv, AloneInv, UNCHANGED alone, NEW o \in Sessions, DeployStep(o)
    PROVE  AloneInv'
<1>1. PICK s \in AwsRuns : s = sessions[o] /\ PointsOf(s)
  BY DEF AwsInv, AwsTypeOK
<1>2. ~AtRest(o)
  BY DEF At, AtRest, DeployStep, DeployPreflight, DeployBuild, ListBefore, SamDeploy, ListAfter,
     DescribeChangeSet, ExecuteChangeSet, WaitForStack, SetStackPolicy, EnableProtection,
     VerifyProtections
<1>3. ASSUME NEW p, Go(o, p), p \notin {"build", "before", "create", "after", "ok"} PROVE AloneInv'
  BY <1>2, <1>3, AloneStops
<1>4. ASSUME NEW n, Answered(o, n), n \notin {"build", "before", "create", "after", "ok"} PROVE AloneInv'
  BY <1>3, <1>4 DEF Answered, AfterFailure
<1>5. CASE DescribeChangeSet(o) \/ ExecuteChangeSet(o) \/ SetStackPolicy(o) \/ EnableProtection(o)
  BY <1>3, <1>4, <1>5 DEF DescribeChangeSet, ExecuteChangeSet, SetStackPolicy, EnableProtection
<1>6. CASE s.cmd \notin DeployCommands
  <2>1. WaitForStack(o) \/ VerifyProtections(o) \/ ExecuteChangeSet(o) \/ EnableProtection(o)
    BY <1>1, <1>6 DEF DeployStep, DeployPreflight, DeployBuild, ListBefore, SamDeploy, ListAfter,
       DescribeChangeSet, SetStackPolicy, At, PointsOf, DeployCalls, DeployCommands
  <2>2. ASSUME NEW p, Go(o, p) PROVE AloneInv'
    <3>1. PICK r : sessions' = [sessions EXCEPT ![o] = r] /\ r.cmd = s.cmd
      BY <1>1, <2>2, AloneGo
    <3> QED BY <1>2, <1>6, <3>1, AloneElsewhere
  <2> QED BY <1>5, <2>1, <2>2 DEF WaitForStack, VerifyProtections
<1>7. CASE s.cmd \in DeployCommands
  <2>1. Target(o) = "app" /\ Stack(o) = stacks["app"]
    BY <1>1, <1>7 DEF Target, Stack, DeployCommands
  <2>2. CASE UNCHANGED <<stacks, changeSets>> /\ \E e : DeployPreflight(o, e)
    <3>1. PICK p \in {"failed", "build"} : Keep(o, [s EXCEPT !.seen = stacks["app"]], p)
      BY <1>1, <2>1, <2>2 DEF DeployPreflight
    <3>2. PICK r : r = [[s EXCEPT !.seen = stacks["app"]] EXCEPT !.pc = p]
      OBVIOUS
    <3>3. r.pc = p /\ r.seen = stacks["app"]
      BY <3>2 DEF AwsRuns
    <3>4. AloneRun(r)'
      BY <2>2, <3>1, <3>3 DEF AloneRun, Exists
    <3> QED BY <1>1, <1>2, <3>1, <3>2, <3>4, AloneFrame DEF Keep
  <2>3. CASE DeployBuild(o)
    <3>1. CASE Go(o, "before") /\ s.pc = "build"
      <4>1. PICK r : /\ sessions' = [sessions EXCEPT ![o] = r] /\ r.pc = "before"
                     /\ r.cmd = s.cmd /\ r.seen = s.seen
        BY <1>1, <3>1, AloneGo
      <4>2. UNCHANGED <<stacks, changeSets>>
        BY <2>3 DEF DeployBuild
      <4>3. AloneRun(s) => AloneRun(r)'
        BY <3>1, <4>1, <4>2 DEF AloneRun, Exists
      <4> QED BY <1>1, <1>2, <4>1, <4>3, AloneFrame
    <3> QED BY <1>1, <1>3, <2>3, <3>1 DEF DeployBuild, At
  <2>4. CASE ListBefore(o)
    <3>1. PICK p \in {"failed", "create"} : Keep(o, [s EXCEPT !.before = SetsOf("app")], p)
      BY <1>1, <2>4 DEF ListBefore
    <3>2. PICK r : r = [[s EXCEPT !.before = SetsOf("app")] EXCEPT !.pc = p]
      OBVIOUS
    <3>3. r.pc = p /\ r.seen = s.seen /\ r.cmd = s.cmd /\ r.before = SetsOf("app") /\ s.pc = "before"
      BY <1>1, <2>4, <3>2 DEF AwsRuns, ListBefore, At
    <3>4. UNCHANGED <<stacks, changeSets>>
      BY <2>4 DEF ListBefore
    <3>5. ~Exists(stacks["app"]) => SetsOf("app") = {}
      BY DEF AwsInv, StackInv, Exists
    <3>6. AloneRun(s) => AloneRun(r)'
      BY <1>7, <3>1, <3>3, <3>4, <3>5 DEF AloneRun, Exists
    <3> QED BY <1>1, <1>2, <3>1, <3>2, <3>6, AloneFrame DEF Keep
  <2>5. CASE SamDeploy(o)
    <3>1. s.pc = "create"
      BY <1>1, <2>5 DEF SamDeploy, At
    <3>2. CASE Go(o, "after")
      <4>1. PICK r : /\ sessions' = [sessions EXCEPT ![o] = r] /\ r.pc = "after"
                     /\ r.cmd = s.cmd /\ r.seen = s.seen /\ r.before = s.before
        BY <1>1, <3>2, AloneGo
      <4>2. ~Exists(stacks["app"]) => SetsOf("app")' # {}
        <5>1. SUFFICES ASSUME ~Exists(stacks["app"]) PROVE SetsOf("app")' # {}
          OBVIOUS
        <5>2. stacks["app"].status = "none"
          BY <5>1 DEF Exists
        <5>3. PICK c : AddChangeSet(o, "app", c)
          BY <2>1, <2>5, <5>2 DEF SamDeploy, STABLE_STACK_STATUSES, Changeable
        <5>4. [owner |-> o, target |-> "app", change |-> c, done |-> FALSE] \in changeSets'
          BY <5>3 DEF AddChangeSet
        <5> QED BY <5>4 DEF SetsOf
      <4>3. AloneRun(s) => AloneRun(r)'
        BY <1>7, <3>1, <4>1, <4>2 DEF AloneRun
      <4> QED BY <1>1, <1>2, <4>1, <4>3, AloneFrame
    <3>3. CASE Go(o, AfterFailure(o)) \/ Go(o, "failed")
      BY <1>3, <3>3 DEF AfterFailure
    <3> QED BY <2>5, <3>2, <3>3 DEF SamDeploy, Answered
  <2>6. CASE ListAfter(o)
    <3>1. UNCHANGED <<stacks, changeSets>> /\ s.pc = "after"
      BY <1>1, <2>6 DEF ListAfter, At
    <3>2. CASE Go(o, "failed") \/ Go(o, "policy")
      BY <1>3, <3>2
    <3>3. CASE Go(o, "ok") /\ ~Exists(s.seen) /\ SetsOf("app") \subseteq s.before
      <4>1. PICK r : sessions' = [sessions EXCEPT ![o] = r] /\ r.pc = "ok" /\ r.cmd = s.cmd
        BY <1>1, <3>3, AloneGo
      <4>2. ~AloneRun(s)
        BY <1>7, <3>1, <3>3 DEF AloneRun
      <4> QED BY <1>1, <1>2, <4>1, <4>2, AloneFrame
    <3>4. ASSUME NEW c, Keep(o, [s EXCEPT !.set = c], "describe")
          PROVE  AloneInv'
      <4>1. PICK r : r = [[s EXCEPT !.set = c] EXCEPT !.pc = "describe"]
        OBVIOUS
      <4>2. r.pc = "describe"
        BY <4>1 DEF AwsRuns
      <4> QED BY <1>2, <3>4, <4>1, <4>2, AloneElsewhere DEF Keep
    <3> QED BY <1>1, <2>6, <3>2, <3>3, <3>4 DEF ListAfter, WithoutChanges
  <2>7. CASE WaitForStack(o)
    BY <1>3, <2>1, <2>7 DEF WaitForStack
  <2>8. CASE VerifyProtections(o)
    <3>1. CASE Go(o, "failed")
      BY <1>3, <3>1
    <3>2. CASE Go(o, "ok") /\ ~LeftOpen
      <4>1. PICK r : sessions' = [sessions EXCEPT ![o] = r] /\ r.pc = "ok"
        BY <1>1, <3>2, AloneGo
      <4>2. ~LeftOpen'
        BY <2>8, <3>2 DEF VerifyProtections, LeftOpen
      <4>3. AloneRun(r)'
        BY <4>1, <4>2 DEF AloneRun
      <4> QED BY <1>2, <4>1, <4>3, AloneFrame
    <3> QED BY <2>1, <2>8, <3>1, <3>2 DEF VerifyProtections, LeftOpen
  <2>9. (\E e : DeployPreflight(o, e)) => UNCHANGED <<stacks, changeSets>>
    BY DEF DeployPreflight
  <2> QED BY <1>5, <2>2, <2>3, <2>4, <2>5, <2>6, <2>7, <2>8, <2>9 DEF DeployStep
<1> QED BY <1>6, <1>7

\* What a run that is alone has to show, in every state.
THEOREM AloneInvariant == AwsSpec => []AloneInv
<1>1. AwsInit => AloneInv
  BY DEF AwsInit, AloneInv
<1>2. AwsInv /\ AloneInv /\ [AwsNext]_awsVars => AloneInv'
  <2> SUFFICES ASSUME AwsInv, AloneInv, [AwsNext]_awsVars PROVE AloneInv'
    OBVIOUS
  <2>1. CASE UNCHANGED awsVars
    BY <2>1, AloneStays DEF awsVars, Exists, LeftOpen
  <2>2. CASE \E o \in Sessions, cmd \in Commands : Begin(o, cmd)
    BY <2>2, AloneBegins
  <2>3. CASE Proceed /\ UNCHANGED alone
    BY <2>3, AloneAccount, AloneCallFails, AloneDeploys, AloneOthers DEF Proceed
  <2> QED BY <2>1, <2>2, <2>3 DEF AwsNext
<1> QED BY <1>1, <1>2, AwsInvariant, PTL DEF AwsSpec

\* A deployment that reports success leaves no stack open to deletion: neither
\* one that had the account to itself, whatever earlier runs had left behind,
\* nor one beside which other runs went on that all ended well.
THEOREM SuccessLeavesProtectedHolds == AwsSpec => []SuccessLeavesProtected
<1>1. AwsInv /\ AloneInv => SuccessLeavesProtected
  <2> SUFFICES ASSUME AwsInv, AloneInv, LeftOpen, NEW o \in Sessions, Applied(o)
               PROVE  /\ \A p \in alone : ~Applied(p)
                      /\ \E p \in Sessions :
                            sessions[p].pc \notin {"idle", "ok", "planned", "operational"}
    BY DEF SuccessLeavesProtected, LeftOpen, Closed
  <2>1. \A p \in alone : ~Applied(p)
    BY DEF AloneInv, AloneRun, Applied, At, DeployCommands
  <2>2. ~Bystander(sessions[o])
    BY DEF Bystander, Applied, At, DeployCommands
  <2>3. PICK p \in Sessions : AnswersFor(sessions[p], SetsOf("app"))
    BY <2>2 DEF AwsInv, ProtectionInv
  <2>4. sessions[p].pc \notin {"idle", "ok", "planned", "operational"}
    BY <2>3 DEF AnswersFor
  <2> QED BY <2>1, <2>4
<1> QED BY <1>1, AwsInvariant, AloneInvariant, PTL
=============================================================================
