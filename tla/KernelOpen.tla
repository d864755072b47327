----------------------------- MODULE KernelOpen -----------------------------
(***************************************************************************)
(* Starting a kernel on its data directory, with a crash between any two   *)
(* of its writes: the control-plane key and its public half (Kernel::open  *)
(* of kernel.rs, write_private and load of keys.rs), directory.json, and   *)
(* the migrations of the database (store.rs).                              *)
(*                                                                         *)
(* Files are written by opening them empty and filling them.  Statements   *)
(* of a migration run one by one, each in a transaction of its own.        *)
(***************************************************************************)
EXTENDS Integers, FiniteSets

CONSTANTS MaxKeys   \* bound on the keys generated

Absent == -1
Empty == 0          \* a file that was opened and not yet written
Latest == 2         \* SCHEMA_VERSION

VARIABLES
    keyFile, pubFile,   \* Absent, Empty or the number of a key
    directory,          \* directory.json: "absent", "valid" or "invalid"
    db,                 \* [tables, column, versions: rows of schema_version by version]
    phase,              \* where the process is
    key,                \* its key
    version,            \* the migration it is at
    served,             \* the keys the kernel has come up with
    made,               \* keys generated so far
    cut                 \* a start was killed with a key or a migration half done

openVars == <<keyFile, pubFile, directory, db, phase, key, version, served, made, cut>>

Fresh == [tables |-> FALSE, column |-> FALSE, versions |-> <<0, 0>>]
OfVersion1 == [tables |-> TRUE, column |-> FALSE, versions |-> <<1, 0>>]

OpenInit ==
    /\ \/ db = Fresh /\ keyFile = Absent /\ pubFile = Absent /\ made = 0 /\ served = {}
       \/ db = OfVersion1 /\ keyFile = 1 /\ pubFile = 1 /\ made = 1 /\ served = {1}
    /\ directory \in {"absent", "valid"}
    /\ phase = "down" /\ key = Empty /\ version = 1 /\ cut = FALSE

Start ==
    /\ phase = "down"
    /\ phase' = "key" /\ key' = Empty /\ version' = 1
    /\ UNCHANGED <<keyFile, pubFile, directory, db, served, made, cut>>

\* An existing key is loaded; an empty file is no key, and the start fails.
LoadKey ==
    /\ phase = "key" /\ keyFile # Absent
    /\ IF keyFile = Empty THEN phase' = "failed" /\ UNCHANGED key
       ELSE phase' = "pub" /\ key' = keyFile
    /\ UNCHANGED <<keyFile, pubFile, directory, db, version, served, made, cut>>

GenerateKey ==
    /\ phase = "key" /\ keyFile = Absent /\ made < MaxKeys
    /\ key' = made + 1 /\ made' = made + 1
    /\ keyFile' = Empty
    /\ phase' = "write_key"
    /\ UNCHANGED <<pubFile, directory, db, version, served, cut>>

WriteKey ==
    /\ phase = "write_key"
    /\ keyFile' = key
    /\ phase' = "pub"
    /\ UNCHANGED <<pubFile, directory, db, key, version, served, made, cut>>

\* The public half is written when there is no file for it.
OpenPublic ==
    /\ phase = "pub"
    /\ IF pubFile = Absent THEN pubFile' = Empty /\ phase' = "write_pub"
       ELSE UNCHANGED pubFile /\ phase' = "directory"
    /\ UNCHANGED <<keyFile, directory, db, key, version, served, made, cut>>

WritePublic ==
    /\ phase = "write_pub"
    /\ pubFile' = key
    /\ phase' = "directory"
    /\ UNCHANGED <<keyFile, directory, db, key, version, served, made, cut>>

LoadDirectory ==
    /\ phase = "directory"
    /\ phase' = IF directory = "invalid" THEN "failed" ELSE "migrate"
    /\ UNCHANGED <<keyFile, pubFile, directory, db, key, version, served, made, cut>>

Recorded == IF db.versions[2] > 0 THEN 2 ELSE IF db.versions[1] > 0 THEN 1 ELSE 0

\* Mutation: a migration is run again although it is recorded.
Migrate_Again ==
    /\ phase = "migrate" /\ version <= Latest
    /\ IF version = 2 /\ db.column THEN phase' = "failed" /\ UNCHANGED <<db, version>>
       ELSE /\ db' = IF version = 1 THEN [db EXCEPT !.tables = TRUE] ELSE [db EXCEPT !.column = TRUE]
            /\ phase' = "record"
            /\ UNCHANGED version
    /\ UNCHANGED <<keyFile, pubFile, directory, key, served, made, cut>>

\* The statements of a migration that is not recorded yet: version 1 creates
\* what does not exist, version 2 adds a column, which fails when it is there.
Migrate ==
    /\ phase = "migrate" /\ version <= Latest
    /\ IF version <= Recorded THEN version' = version + 1 /\ UNCHANGED <<db, phase>>
       ELSE IF version = 2 /\ db.column THEN phase' = "failed" /\ UNCHANGED <<db, version>>
       ELSE /\ db' = IF version = 1 THEN [db EXCEPT !.tables = TRUE] ELSE [db EXCEPT !.column = TRUE]
            /\ phase' = "record"
            /\ UNCHANGED version
    /\ UNCHANGED <<keyFile, pubFile, directory, key, served, made, cut>>

\* Mutation: the version of the build is recorded, not that of the migration.
Record_Latest ==
    /\ phase = "record"
    /\ db' = [db EXCEPT !.versions[Latest] = 1]
    /\ phase' = "migrate" /\ version' = version + 1
    /\ UNCHANGED <<keyFile, pubFile, directory, key, served, made, cut>>

Record ==
    /\ phase = "record"
    /\ db' = [db EXCEPT !.versions[version] = @ + 1]
    /\ phase' = "migrate" /\ version' = version + 1
    /\ UNCHANGED <<keyFile, pubFile, directory, key, served, made, cut>>

Up ==
    /\ phase = "migrate" /\ version > Latest
    /\ phase' = "up" /\ served' = served \cup {key}
    /\ UNCHANGED <<keyFile, pubFile, directory, db, key, version, made, cut>>

\* The process ends: stopped, refused to start, or killed at any point.
Stop ==
    /\ phase # "down"
    /\ phase' = "down" /\ key' = Empty /\ version' = 1
    /\ cut' = (cut \/ phase = "write_key" \/ (phase = "record" /\ version = 2))
    /\ UNCHANGED <<keyFile, pubFile, directory, db, served, made>>

\* The operator writes or corrects directory.json while the kernel is down.
EditDirectory ==
    /\ phase = "down"
    /\ directory' \in {"valid", "invalid"} \ {directory}
    /\ UNCHANGED <<keyFile, pubFile, db, phase, key, version, served, made, cut>>

OpenStep ==
    \/ Start \/ LoadKey \/ GenerateKey \/ WriteKey \/ OpenPublic \/ WritePublic
    \/ LoadDirectory \/ Migrate \/ Record \/ Up \/ EditDirectory

----------------------------------------------------------------------------
(* Properties.                                                             *)

\* A kernel that is up has the whole schema, every migration recorded once,
\* and the key it always had, on disk, whatever starts were cut short before
\* ("one row per applied migration, applied once").
UpIsComplete ==
    phase = "up" =>
        /\ db = [tables |-> TRUE, column |-> TRUE, versions |-> <<1, 1>>]
        /\ keyFile = key /\ served = {key}

\* A start fails only over a directory.json that does not parse, or after a
\* start that was killed between opening the key file and writing it, or
\* between adding the column of version 2 and recording it: a stop at any
\* other point is made good by the next start ("creates its Ed25519
\* control-plane key on first start", migrations_are_idempotent_and_versioned).
StartsRecover == phase = "failed" => directory = "invalid" \/ cut

----------------------------------------------------------------------------
(* The inductive invariant behind the theorems of ProcessProofs.           *)

Loading == {"pub", "write_pub", "directory", "migrate", "record", "up"}

OpenTypeOK ==
    /\ phase \in Loading \cup {"down", "key", "write_key", "failed"}
    /\ directory \in {"absent", "valid", "invalid"}
    /\ version \in 1..3 /\ cut \in BOOLEAN
    /\ db \in [tables: BOOLEAN, column: BOOLEAN, versions: [1..2 -> 0..1]]

\* One key is ever made.  A key file without a key is being written, or a start was
\* killed there; who is past the key holds the one on disk.
OneKey ==
    /\ \/ keyFile = Absent /\ made = 0 /\ served = {}
       \/ keyFile = Empty /\ made = 1 /\ served = {} /\ (phase = "write_key" \/ cut)
       \/ keyFile = 1 /\ made = 1 /\ served \subseteq {1}
    /\ phase = "write_key" => keyFile = Empty /\ key = 1
    /\ phase \in Loading => keyFile = 1 /\ key = 1
    /\ phase = "up" => served = {1}

\* The schema has what its versions say, and more only where a migration is under way
\* or a start was killed; the migrations before the present one are recorded.
SchemaRecorded ==
    /\ db.versions[1] = 1 => db.tables
    /\ db.versions[2] = 1 => db.versions[1] = 1 /\ db.column
    /\ db.column => db.versions[2] = 1 \/ cut \/ (phase = "record" /\ version = 2)
    /\ phase \in {"migrate", "record", "up"} =>
          /\ version > 1 => db.versions[1] = 1
          /\ version > 2 => db.versions[2] = 1
    /\ phase = "record" =>
          /\ version < 3 /\ db.versions[version] = 0
          /\ db.tables /\ (version = 2 => db.column)
    /\ phase = "up" => version = 3
    /\ phase \notin {"migrate", "record", "up", "failed"} => version = 1

OpenInv == OpenTypeOK /\ OneKey /\ SchemaRecorded /\ StartsRecover
=============================================================================
