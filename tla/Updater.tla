------------------------------- MODULE Updater -------------------------------
(***************************************************************************)
(* The start of the server as far as the database is concerned: the         *)
(* migration of the schema (updater::migrate), the connection pools         *)
(* (db_mgr), crashes and restarts; and the check of a client's version      *)
(* (updater::check).                                                        *)
(*                                                                          *)
(* The schema is the set of statements of script/core.sql that have taken   *)
(* effect.  SQLite keeps what is committed over a crash and forgets the     *)
(* rest; every call of it may fail.                                         *)
(***************************************************************************)
EXTENDS Integers, Sequences
LOCAL INSTANCE SequencesExt

CONSTANTS
    DbConfs,    \* the database ids, in order, of the configurations considered
    UintSize,   \* 2^32, the number of values of a uint32_t
    MaxPart,    \* bound: of a part of a version number
    MaxCrashes  \* bound: crashes

ASSUME DbConfsAssumption == DbConfs \subseteq Seq(Int)
ASSUME UintSizeAssumption == UintSize \in Nat /\ UintSize > 2
ASSUME BoundsAssumption == MaxPart \in Nat /\ MaxCrashes \in Nat

VARIABLES
    conf,       \* ids of the sections db/sqlite names; -1: a section without id
    boot,       \* where the process is
    disk,       \* statements of core.sql that are committed
    work,       \* statements in effect on the connection of migrate
    step,       \* the statement that migrate executes next
    tx,         \* sqlite.begin has opened a transaction
    pools,      \* _pools: its size and the indexes that hold a pool
    crashes     \* crashes so far

bootVars == <<conf, boot, disk, work, step, tx, pools, crashes>>

\* The statements of core.sql in order; the last one writes the version.
Statements == <<"schema_version", "session", "message", "user", "plugin",
                "file", "version_row">>
Complete == {Statements[i] : i \in DOMAIN Statements}

DbSqlite1 == 0

\* The vector of pools before db_mgr::init.
NoPools == [size |-> 0, filled |-> {}]

BootInit ==
    /\ conf \in DbConfs
    /\ boot = "down" /\ disk = {} /\ work = {} /\ step = 1 /\ tx = FALSE
    /\ pools = NoPools /\ crashes = 0

\* main reaches updater::init.
Start ==
    /\ boot = "down" /\ boot' = "migrate"
    /\ UNCHANGED <<conf, disk, work, step, tx, pools, crashes>>

-----------------------------------------------------------------------------
(* updater::migrate, for the database with id DbSqlite1.                    *)

\* The database cannot be opened, the script cannot be read, or the version
\* row says that there is nothing to do: the next section's turn.
MigrateSkip ==
    /\ boot = "migrate" /\ boot' = "pools"
    /\ UNCHANGED <<conf, disk, work, step, tx, pools, crashes>>

\* The version row is missing or cannot be read: the script is run.  Whether
\* begin has worked is not looked at; without a transaction every statement
\* is its own.
MigrateBegin(begun) ==
    /\ boot = "migrate" /\ DbSqlite1 \in ToSet(conf)
    /\ boot' = "statements" /\ step' = 1 /\ tx' = begun /\ work' = disk
    /\ UNCHANGED <<conf, disk, pools, crashes>>

\* rollback; nothing if there is no transaction.
Rollback == boot' = "pools" /\ work' = disk /\ step' = 1 /\ UNCHANGED disk

\* As MigrateStatement, with the loop going on after a failed statement.
MigrateStatementGoesOn(ok) ==
    /\ boot = "statements"
    /\ work' = IF ok THEN work \cup {Statements[step]} ELSE work
    /\ disk' = IF tx THEN disk ELSE work'
    /\ IF step < Len(Statements)
         THEN step' = step + 1 /\ UNCHANGED boot
         ELSE boot' = "check" /\ UNCHANGED step
    /\ UNCHANGED <<conf, tx, pools, crashes>>

\* One statement; CREATE IF NOT EXISTS and ON CONFLICT DO NOTHING make it
\* harmless to repeat.  The first failure ends the loop.
MigrateStatement(ok) ==
    /\ boot = "statements"
    /\ IF ok
         THEN /\ work' = work \cup {Statements[step]}
              /\ disk' = IF tx THEN disk ELSE work'
              /\ IF step < Len(Statements)
                   THEN step' = step + 1 /\ UNCHANGED boot
                   ELSE boot' = "check" /\ UNCHANGED step
         ELSE Rollback
    /\ UNCHANGED <<conf, tx, pools, crashes>>

\* The version row is read back.  Whether commit has worked is not looked at
\* either: the connection is closed and SQLite rolls back what is open.
MigrateCheck(readable, committed) ==
    /\ boot = "check"
    /\ IF readable /\ "version_row" \in work
         THEN /\ boot' = "pools"
              /\ disk' = IF tx /\ committed THEN work ELSE disk
              /\ work' = disk' /\ step' = 1
         ELSE Rollback
    /\ UNCHANGED <<conf, tx, pools, crashes>>

-----------------------------------------------------------------------------
(* db_mgr.                                                                  *)

\* db_mgr::add: the index is a uint32_t, and so is db_id + 1.
Add(p, id) ==
    LET i == id % UintSize
        size == IF p.size <= i THEN (i + 1) % UintSize ELSE p.size
    IN  [size |-> size,
         filled |-> {j \in p.filled : j < size} \cup {i}]

Loaded == FoldLeft(Add, NoPools, conf)

\* A pool was written behind the end of the vector: undefined.
OutOfBounds(p) == \E i \in p.filled : i >= p.size

\* db_mgr::init; main goes on to start the server.
InitPools ==
    /\ boot = "pools"
    /\ pools' = Loaded
    /\ boot' = IF OutOfBounds(Loaded) THEN "corrupt" ELSE "serving"
    /\ tx' = FALSE
    /\ UNCHANGED <<conf, disk, work, step, crashes>>

\* exec and query on an empty vector answer DB_NOT_EXIST; otherwise they use
\* index 0, pool or no pool.
NullPool == pools.size > DbSqlite1 /\ DbSqlite1 \notin pools.filled

UseNullPool ==
    /\ boot = "serving" /\ NullPool
    /\ boot' = "corrupt"
    /\ UNCHANGED <<conf, disk, work, step, tx, pools, crashes>>

\* A statement on table t can succeed.
Reachable(t) ==
    /\ boot = "serving" /\ DbSqlite1 \in pools.filled
    /\ t \in disk

-----------------------------------------------------------------------------
\* The process ends, at any point; it may be started again.
CrashProcess ==
    /\ boot \notin {"down", "corrupt"} /\ crashes < MaxCrashes
    /\ boot' = "down" /\ work' = disk /\ crashes' = crashes + 1
    /\ pools' = NoPools /\ step' = 1 /\ tx' = FALSE
    /\ UNCHANGED <<conf, disk>>

BootStep ==
    \/ Start \/ MigrateSkip \/ InitPools \/ UseNullPool
    \/ \E ok \in BOOLEAN : MigrateBegin(ok) \/ MigrateStatement(ok)
    \/ \E readable, committed \in BOOLEAN : MigrateCheck(readable, committed)

-----------------------------------------------------------------------------
(* updater::check.                                                          *)

Part == 0..MaxPart
MinVersions == [1..3 -> Part]

\* What a client sends: one to four numbers.
Versions == UNION {[1..n -> Part] : n \in 1..4}

\* As Accepts, with the last part not looked at.
AcceptsTwoParts(min, v) == \A i \in DOMAIN v \cap 1..2 : min[i] <= v[i]

\* No part of the version that there is, up to the third, is below the same
\* part of the minimum.
Accepts(min, v) == \A i \in DOMAIN v \cap 1..3 : min[i] <= v[i]

\* The order of versions: the first part that differs decides.
Older(v, min) ==
    \E i \in 1..3 : v[i] < min[i] /\ \A j \in 1..(i - 1) : v[j] = min[j]
=============================================================================
