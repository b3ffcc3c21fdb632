----------------------------- MODULE MCArchive ------------------------------
(* Two rows of two days, cron's run and an operator's.                     *)
EXTENDS Archive

MCDays == {1, 2}
=============================================================================
