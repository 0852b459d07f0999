------------------------------- MODULE MCShutdown -------------------------------
(* The programs of the repository, ended by a signal at any moment. *)
EXTENDS Shutdown, Services, TLC

MCBinaries == DOMAIN AllPrograms
================================================================================
