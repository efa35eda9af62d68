----------------------------- MODULE Migrations -----------------------------
(***************************************************************************)
(* Migrate runs every file at every start.  The statements of a file are   *)
(* one Exec without a transaction: each commits by itself, the first error *)
(* ends the file, and a duplicate column is no error but a reason to go on *)
(* with the next file.  The process may stop between any two statements,   *)
(* and a newer release with more files may start in its place.  The rows   *)
(* that a process has stored while it served may violate a unique index    *)
(* that is still to come; then every start fails there.                    *)
(***************************************************************************)
EXTENDS Integers, Sequences

CONSTANTS
    Objects,        \* tables, indexes, triggers and added columns
    Releases,       \* the files of each release, older releases first
    UniqueIndexes,  \* unique indexes over tables that older releases had
    MaxStops        \* bound on the times Migrate is stopped

Statement == [does : {"create", "add", "drop"}, object : Objects,
              needs : SUBSET Objects, columns : SUBSET Objects]

Files(r) == 1..Len(Releases[r])
Statements(r, f) == 1..Len(Releases[r][f])

(* No release makes what it drops.                                         *)
ASSUME ReleasesAssumption ==
    /\ Releases \in Seq(Seq(Seq(Statement)))
    /\ UniqueIndexes \subseteq Objects
    /\ MaxStops \in Nat
    /\ \A r \in DOMAIN Releases :
           \A f, g \in Files(r) :
               \A s \in Statements(r, f), t \in Statements(r, g) :
                   Releases[r][f][s].does = "drop"
                       /\ Releases[r][g][t].does # "drop" =>
                       /\ Releases[r][f][s].object # Releases[r][g][t].object
                       /\ Releases[r][f][s].object
                              \notin Releases[r][g][t].columns

VARIABLES
    schema,     \* what is in sqlite_master
    conflicts,  \* unique indexes that the rows of the database violate
    release,    \* the release that is installed
    phase,      \* of the process
    file,       \* the next file
    stmt,       \* the next statement of that file
    stops       \* how often Migrate was stopped before its end

vars == <<schema, conflicts, release, phase, file, stmt, stops>>

TypeOK ==
    /\ schema \subseteq Objects
    /\ conflicts \subseteq UniqueIndexes
    /\ release \in DOMAIN Releases
    /\ phase \in {"stopped", "migrating", "serving"}
    /\ file \in 1..(Len(Releases[release]) + 1)
    /\ file \in Files(release) =>
           stmt \in 1..(Len(Releases[release][file]) + 1)
    /\ stmt \in Nat
    /\ stops \in 0..MaxStops

-----------------------------------------------------------------------------
AtStatement ==
    /\ phase = "migrating"
    /\ file \in Files(release)
    /\ stmt \in Statements(release, file)

Current == Releases[release][file][stmt]

(* What the schema is after s.  IF NOT EXISTS looks at the name alone: an  *)
(* older table does not get newer columns.                                 *)
After(s) ==
    IF s.does = "drop" THEN schema \ {s.object}
    ELSE IF s.object \in schema THEN schema
    ELSE schema \union {s.object} \union s.columns

(* CREATE UNIQUE INDEX over rows that violate it.                          *)
Refused(s) == s.does = "create" /\ s.object \in conflicts \ schema

Duplicate == Current.does = "add" /\ Current.object \in schema

Start ==
    /\ phase = "stopped"
    /\ phase' = "migrating"
    /\ file' = 1
    /\ stmt' = 1
    /\ UNCHANGED <<schema, conflicts, release, stops>>

(* Mutation: a file is left after its first ALTER.                         *)
OneAlterOfFile ==
    /\ AtStatement
    /\ ~ Duplicate
    /\ Current.needs \subseteq schema
    /\ ~ Refused(Current)
    /\ schema' = After(Current)
    /\ IF Current.does = "add"
       THEN file' = file + 1 /\ stmt' = 1
       ELSE stmt' = stmt + 1 /\ UNCHANGED file
    /\ UNCHANGED <<conflicts, release, phase, stops>>

(* If a table is not there, or the rows violate the index, Migrate fails   *)
(* and main exits.                                                         *)
RunStatement ==
    /\ AtStatement
    /\ ~ Duplicate
    /\ IF Current.needs \subseteq schema /\ ~ Refused(Current)
       THEN schema' = After(Current) /\ stmt' = stmt + 1 /\ UNCHANGED phase
       ELSE phase' = "stopped" /\ UNCHANGED <<schema, stmt>>
    /\ UNCHANGED <<conflicts, release, file, stops>>

(* Mutation: "duplicate column name" is an error as any other.             *)
DuplicateFails ==
    /\ AtStatement
    /\ Duplicate
    /\ phase' = "stopped"
    /\ UNCHANGED <<schema, conflicts, release, file, stmt, stops>>

(* Mutation: Migrate returns without the files that are left.              *)
DuplicateEnds ==
    /\ AtStatement
    /\ Duplicate
    /\ file' = Len(Releases[release]) + 1
    /\ UNCHANGED <<schema, conflicts, release, phase, stmt, stops>>

(* The rest of the file is skipped. *)
DuplicateColumn ==
    /\ AtStatement
    /\ Duplicate
    /\ file' = file + 1
    /\ stmt' = 1
    /\ UNCHANGED <<schema, conflicts, release, phase, stops>>

(* Mutation: the statement is not set back. *)
NextFileInside ==
    /\ phase = "migrating"
    /\ file \in Files(release)
    /\ stmt = Len(Releases[release][file]) + 1
    /\ file' = file + 1
    /\ UNCHANGED <<schema, conflicts, release, phase, stmt, stops>>

NextFile ==
    /\ phase = "migrating"
    /\ file \in Files(release)
    /\ stmt = Len(Releases[release][file]) + 1
    /\ file' = file + 1
    /\ stmt' = 1
    /\ UNCHANGED <<schema, conflicts, release, phase, stops>>

Serve ==
    /\ phase = "migrating"
    /\ file \notin Files(release)
    /\ phase' = "serving"
    /\ UNCHANGED <<schema, conflicts, release, file, stmt, stops>>

(* The process ends, or another error (a full disk, a busy database) ends  *)
(* Migrate and main exits.                                                 *)
Stop ==
    /\ phase = "migrating"
    /\ stops < MaxStops
    /\ stops' = stops + 1
    /\ phase' = "stopped"
    /\ UNCHANGED <<schema, conflicts, release, file, stmt>>

(* An index that is not there cannot keep rows out of its table.           *)
MayConflict ==
    {o \in UniqueIndexes \ schema :
        \E r \in DOMAIN Releases : \E f \in Files(r) :
            \E s \in Statements(r, f) :
                /\ Releases[r][f][s].object = o
                /\ Releases[r][f][s].needs \subseteq schema}

(* A process that serves ends (a signal, a power cut) and leaves its rows. *)
ShutDown ==
    /\ phase = "serving"
    /\ phase' = "stopped"
    /\ conflicts' \in SUBSET MayConflict
    /\ UNCHANGED <<schema, release, file, stmt, stops>>

(* A newer release is put in place. *)
Upgrade(r) ==
    /\ phase = "stopped"
    /\ r > release
    /\ release' = r
    /\ file' = 1
    /\ stmt' = 1
    /\ UNCHANGED <<schema, conflicts, phase, stops>>

Init ==
    /\ schema = {}
    /\ conflicts = {}
    /\ release \in DOMAIN Releases
    /\ phase = "stopped"
    /\ file = 1
    /\ stmt = 1
    /\ stops = 0

MigrateStep ==
    \/ RunStatement
    \/ DuplicateColumn
    \/ NextFile
    \/ Serve

Next ==
    \/ Start
    \/ MigrateStep
    \/ Stop
    \/ ShutDown
    \/ \E r \in DOMAIN Releases : Upgrade(r)

(* main is started again and runs on. *)
Fairness == WF_vars(Start) /\ WF_vars(MigrateStep)

Spec == Init /\ [][Next]_vars /\ Fairness

-----------------------------------------------------------------------------
(* Properties *)

(* What statement s of file f is for has happened. *)
Done(f, s) ==
    LET statement == Releases[release][f][s] IN
    IF statement.does = "drop" THEN statement.object \notin schema
    ELSE statement.object \in schema

(* An ALTER stands before statement s of file f in that file: a duplicate  *)
(* column there skips s.                                                   *)
BehindAdd(f, s) ==
    \E t \in Statements(release, f) :
        t < s /\ Releases[release][f][t].does = "add"

(* Whatever was installed before and wherever Migrate was stopped, a       *)
(* process that serves has every table, index, trigger and column of its   *)
(* release, and not what that drops, except what stands behind an ALTER in *)
(* the same file.                                                          *)
MissingOnlyBehindAdd ==
    phase = "serving" =>
        \A f \in Files(release) :
            \A s \in Statements(release, f) : Done(f, s) \/ BehindAdd(f, s)

(* What stands there is missing only if Migrate was stopped once: starts   *)
(* that run to their end, or fail at a unique index, leave nothing out,    *)
(* over whatever releases and rows.                                        *)
CompleteUnlessStopped ==
    phase = "serving" /\ stops = 0 =>
        \A f \in Files(release) : \A s \in Statements(release, f) : Done(f, s)

(* The installed release has a unique index to create that the rows of     *)
(* the database violate.                                                   *)
Obstructed ==
    \E f \in Files(release) : \E s \in Statements(release, f) :
        Refused(Releases[release][f][s])

(* "migrations failed on restart": a start over any schema that stops and  *)
(* upgrades left behind ends in a process that serves, unless rows stored  *)
(* under an older release violate a unique index of this one.              *)
ServesAgain == []<>(phase = "serving" \/ Obstructed)

-----------------------------------------------------------------------------
(* What the theorem about CompleteUnlessStopped needs of the files.        *)

(* What a statement needs is created before it in its release.             *)
FilesOrdered ==
    \A r \in DOMAIN Releases : \A f \in Files(r) : \A s \in Statements(r, f) :
        \A o \in Releases[r][f][s].needs :
            \E g \in Files(r) : \E u \in Statements(r, g) :
                /\ g < f \/ (g = f /\ u < s)
                /\ Releases[r][g][u].does # "drop"
                /\ Releases[r][g][u].object = o

Makes(statement, o) ==
    /\ statement.does # "drop"
    /\ statement.object = o \/ o \in statement.columns

(* Statement s of file f stands behind the addition t.                     *)
Behind(r, f, t, s) ==
    /\ Releases[r][f][t].does = "add"
    /\ t < s

(* A column with statements behind its addition comes from that addition   *)
(* alone, in a file that is the same in every release that makes the       *)
(* column; no release drops what stands behind it, and no rows keep it     *)
(* from being created.                                                     *)
AddsTogether ==
    \A r \in DOMAIN Releases : \A f \in Files(r) :
        \A t, s \in Statements(r, f) : Behind(r, f, t, s) =>
            /\ Releases[r][f][s].does # "drop"
            /\ Releases[r][f][s].object \notin UniqueIndexes
            /\ \A q \in DOMAIN Releases : \A g \in Files(q) :
                   \A u \in Statements(q, g) :
                       /\ Makes(Releases[q][g][u], Releases[r][f][t].object)
                          => g = f /\ u = t /\ Releases[q][f] = Releases[r][f]
                       /\ Releases[q][g][u].does = "drop" =>
                              Releases[q][g][u].object
                                  # Releases[r][f][s].object
=============================================================================
