-------------------------- MODULE SchemaMigrations --------------------------
(* migratePostgres of src/adapters/postgres/postgres-migrations.ts, run by  *)
(* several processes of several releases at once: a session lock, the       *)
(* registry of applied migrations and one transaction for each migration.   *)
(* PostgreSQL is external: a lock ends with its session, a transaction      *)
(* takes effect whole or not at all, and a schema statement that was run    *)
(* before fails when it is run again.                                       *)
EXTENDS Naturals, Sequences

CONSTANTS Migrators,      \* processes that run the migrations
          Releases,       \* release -> its list of migrations, each a checksum
          NoMigrator

ASSUME ReleasesAreLists ==
    /\ \A r \in DOMAIN Releases : Releases[r] \in Seq(Nat \ {0})
    /\ NoMigrator \notin Migrators

\* A version is the position of a migration in the list.
Versions == UNION {DOMAIN Releases[r] : r \in DOMAIN Releases}

VARIABLES advisoryLock,  \* the session that holds the lock
          registry,      \* hayasend_schema_migrations: version -> checksum, 0 for no row
          schema,        \* the statements that took effect, in order
          migrator       \* the local state of each process

pgVars == <<advisoryLock, registry, schema, migrator>>

IdleMigrator == [pc |-> "idle", release |-> "none", i |-> 1, cause |-> "none"]

PgInit ==
    /\ advisoryLock = NoMigrator
    /\ registry = [v \in Versions |-> 0]
    /\ schema = <<>>
    /\ migrator = [m \in Migrators |-> IdleMigrator]

Migrating(m, point) == migrator[m].pc = point
MigrationsOf(m)  == Releases[migrator[m].release]
ChecksumOf(m)    == MigrationsOf(m)[migrator[m].i]
MigratorTo(m, point) == migrator' = [migrator EXCEPT ![m].pc = point]

\* The finally block: the lock is given back, then the process ends.
Throw(m, cause) ==
    migrator' = [migrator EXCEPT ![m].pc = "unlockFailed", ![m].cause = cause]

\* A process of some release starts and opens its session.
StartMigrator(m, release) ==
    /\ Migrating(m, "idle")
    /\ migrator' = [migrator EXCEPT ![m] =
                      [IdleMigrator EXCEPT !.pc = "lock", !.release = release]]
    /\ UNCHANGED <<advisoryLock, registry, schema>>

\* Mutant: the lock does not exclude.
AcquireLock_Shared(m) ==
    /\ Migrating(m, "lock")
    /\ advisoryLock' = m
    /\ MigratorTo(m, "select")
    /\ UNCHANGED <<registry, schema>>

\* pg_advisory_lock waits for the session that holds the lock; creating the
\* registry when it is missing changes nothing else.
AcquireLock(m) ==
    /\ Migrating(m, "lock") /\ advisoryLock = NoMigrator
    /\ advisoryLock' = m
    /\ MigratorTo(m, "select")
    /\ UNCHANGED <<registry, schema>>

\* The row of the migration in hand: skipped, refused or to be applied.
SelectChecksum(m) ==
    /\ Migrating(m, "select") /\ migrator[m].i \in DOMAIN MigrationsOf(m)
    /\ LET found == registry[migrator[m].i] IN
       \/ found = ChecksumOf(m) /\ migrator' = [migrator EXCEPT ![m].i = @ + 1]
       \/ found \notin {0, ChecksumOf(m)} /\ Throw(m, "checksum")
       \/ found = 0 /\ MigratorTo(m, "apply")
    /\ UNCHANGED <<advisoryLock, registry, schema>>

AllSelected(m) ==
    /\ Migrating(m, "select") /\ migrator[m].i \notin DOMAIN MigrationsOf(m)
    /\ MigratorTo(m, "unlock")
    /\ UNCHANGED <<advisoryLock, registry, schema>>

Statement(m) == <<migrator[m].i, ChecksumOf(m)>>
WasRun(version) == \E n \in DOMAIN schema : schema[n][1] = version

\* BEGIN, the statements, the row, COMMIT.
ApplyMigration(m) ==
    /\ Migrating(m, "apply")
    /\ ~WasRun(migrator[m].i) /\ registry[migrator[m].i] = 0
    /\ schema' = Append(schema, Statement(m))
    /\ registry' = [registry EXCEPT ![migrator[m].i] = ChecksumOf(m)]
    /\ migrator' = [migrator EXCEPT ![m].pc = "select", ![m].i = @ + 1]
    /\ UNCHANGED advisoryLock

\* The transaction fails, of itself or because a statement was run before or a
\* row is there: ROLLBACK, throw.
MigrationFails(m) ==
    /\ Migrating(m, "apply")
    /\ Throw(m, IF WasRun(migrator[m].i) \/ registry[migrator[m].i] # 0
                  THEN "collision" ELSE "database")
    /\ UNCHANGED <<advisoryLock, registry, schema>>

\* pg_advisory_unlock, release of the session, end of the pool.
Unlock(m) ==
    /\ migrator[m].pc \in {"unlock", "unlockFailed"}
    /\ advisoryLock' = IF advisoryLock = m THEN NoMigrator ELSE advisoryLock
    /\ MigratorTo(m, IF Migrating(m, "unlock") THEN "complete" ELSE "failed")
    /\ UNCHANGED <<registry, schema>>

\* The process or its connection is lost: PostgreSQL gives the lock back.  A
\* transaction whose COMMIT was on its way takes effect or does not.  When only
\* the connection is lost, the unlock of the finally block throws as well.
LoseSession(m) ==
    /\ migrator[m].pc \in {"lock", "select", "apply", "unlock", "unlockFailed"}
    /\ advisoryLock' = IF advisoryLock = m THEN NoMigrator ELSE advisoryLock
    /\ migrator' = [migrator EXCEPT ![m].pc = "failed", ![m].cause = "lost"]
    /\ \/ UNCHANGED <<registry, schema>>
       \/ /\ Migrating(m, "apply")
          /\ ~WasRun(migrator[m].i) /\ registry[migrator[m].i] = 0
          /\ schema' = Append(schema, Statement(m))
          /\ registry' = [registry EXCEPT ![migrator[m].i] = ChecksumOf(m)]

\* The job is started again, by the same release or by another.
RestartMigrator(m) ==
    /\ Migrating(m, "failed") /\ migrator[m].cause \in {"lost", "database"}
    /\ migrator' = [migrator EXCEPT ![m] = IdleMigrator]
    /\ UNCHANGED <<advisoryLock, registry, schema>>

PgNext ==
    \E m \in Migrators :
        \/ \E r \in DOMAIN Releases : StartMigrator(m, r)
        \/ AcquireLock(m) \/ SelectChecksum(m) \/ AllSelected(m)
        \/ ApplyMigration(m) \/ MigrationFails(m)
        \/ Unlock(m) \/ LoseSession(m) \/ RestartMigrator(m)

PgSpec == PgInit /\ [][PgNext]_pgVars

----------------------------------------------------------------------------
\* A migration job fails only because an applied migration was edited, its
\* session was lost or the database refused a statement, never because another job ran at the same time; and one
\* that reports completion leaves every migration of its release in the schema,
\* with its own text and exactly once, whatever ran and was lost before.
MigrationJobsDoNotCollide ==
    /\ \A m \in Migrators : migrator[m].cause # "collision"
    /\ \A m \in Migrators : Migrating(m, "complete") =>
          \A v \in DOMAIN MigrationsOf(m) :
              \E n \in DOMAIN schema :
                  /\ schema[n] = <<v, MigrationsOf(m)[v]>>
                  /\ \A k \in DOMAIN schema : schema[k][1] = v => k = n
=============================================================================
