---------------------------- MODULE MCMigrations ----------------------------
(* Two programs on the files of the repository, one of them a release older. *)
EXTENDS Migrations, MigrationFiles

MCPrograms == {"api", "worker"}
MCShipped == [p \in MCPrograms |-> IF p = "api" THEN 6 ELSE 5]
=============================================================================
