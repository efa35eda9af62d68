---------------------------- MODULE MCMigrations ----------------------------
(***************************************************************************)
(* The files of this release, and three releases that had the first n of   *)
(* them.  An older release made its tables without the columns that a      *)
(* later file adds, and had the index that a later file drops.             *)
(***************************************************************************)
EXTENDS Migrations, MigrationFiles

(* The objects of the given kinds of statement in files n and later.       *)
ObjectsFrom(n, kinds) ==
    UNION {{SortedFiles[f][s].object :
               s \in {t \in DOMAIN SortedFiles[f] :
                          SortedFiles[f][t].does \in kinds}} :
           f \in n..Len(SortedFiles)}

AllObjects == ObjectsFrom(1, {"create", "add", "drop"})

OldIndex == Index("common_area_reservations", "unique_active_date")

(* The unique indexes that this release creates over older tables.         *)
NewUniqueIndexes ==
    {<<"index", "access_logs", "external_id">>,
     <<"index", "common_area_reservations", "unique_active_area_date">>,
     <<"index", "common_area_reservations", "unique_active_unit_date">>}

FileAsOf(n, statements) ==
    LET old == [s \in DOMAIN statements |->
                   [statements[s] EXCEPT
                       !.columns = @ \ ObjectsFrom(n + 1, {"add"})]]
    IN  IF /\ statements = CommonAreaReservations
           /\ OldIndex.object \in ObjectsFrom(n + 1, {"drop"})
        THEN Append(old, OldIndex)
        ELSE old

FilesOfReleases == <<3, 9, 12, Len(SortedFiles)>>

SomeReleases ==
    [r \in DOMAIN FilesOfReleases |->
        [f \in 1..FilesOfReleases[r] |->
            FileAsOf(FilesOfReleases[r], SortedFiles[f])]]

(* The hypotheses of CompleteStarts hold of these releases.                *)
ASSUME FilesAssumption == FilesOrdered /\ AddsTogether
=============================================================================
