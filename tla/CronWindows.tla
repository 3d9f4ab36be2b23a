---------------------------- MODULE CronWindows -----------------------------
(* The cron tools over the Windows backend: jobs become scheduled tasks. *)
EXTENDS Cron, Schedule

\* A schedule that cron_create and cron_update accept on Windows makes Task
\* Scheduler run the job exactly when cron would ("*/n" as often as cron would, if
\* n divides 60: TranslationExact).
AcceptedRunsAsWritten == platform = "windows" => TranslationExact
=============================================================================
