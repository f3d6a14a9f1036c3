------------------------------- MODULE Backups ------------------------------
(***************************************************************************)
(* Backups of the configuration (src/src/core/config/backup.py): files     *)
(* named by the second of their making, written beside and then renamed,   *)
(* and the policy that deletes them: all of the last days, then the most   *)
(* recent of each month.  The process may die between any two steps and a  *)
(* deletion may fail.  Time passes in ticks, one a day.                    *)
(***************************************************************************)
EXTENDS Integers, FiniteSets, FiniteSetsExt

CONSTANTS MonthTicks,   \* days of a month (the calendar's and the policy's)
          KeepDays,     \* daily_retention_days
          KeepMonths,   \* monthly_retention_months
          MaxMishaps,   \* bound: deaths and failed deletions
          LastSecond    \* bound: ticks

VARIABLES
    second,     \* ticks so far
    job,        \* what create_backup is at: "none", "writing", "written", "pruning"
    version,    \* the configuration, as the number of its last change
    dir,        \* the backups in the directory: the version each file holds
    temps,      \* temporary files left behind
    doomed,     \* the files the policy has still to delete
    mishaps,    \* deaths and failed deletions so far
    made,       \* history: when backups were completed, and of what
    kept        \* history: the deletions of the last run of the policy succeeded
backVars == <<second, job, version, dir, temps, doomed, mishaps, made, kept>>

ASSUME BackupsAssumption ==
    /\ MonthTicks \in Nat \ {0}
    /\ KeepDays \in Nat /\ KeepMonths \in Nat

BackInit ==
    /\ second = 0 /\ job = "none" /\ version = 0
    /\ dir = [s \in {} |-> 0] /\ temps = {} /\ doomed = {} /\ mishaps = 0
    /\ made = [s \in {} |-> 0] /\ kept = TRUE

Put(files, s) == [t \in DOMAIN files \cup {s} |-> IF t = s THEN version ELSE files[t]]

(***************************************************************************)
(* create_backup.                                                          *)
(***************************************************************************)
StartBackup ==
    /\ job = "none"
    /\ job' = "writing" /\ temps' = temps \cup {second}
    /\ UNCHANGED <<second, version, dir, doomed, mishaps, made, kept>>

(* What cannot be written is removed and the error goes to the caller.     *)
WriteFails ==
    /\ job = "writing"
    /\ job' = "none" /\ temps' = temps \ {second}
    /\ UNCHANGED <<second, version, dir, doomed, mishaps, made, kept>>

(* The rename completes the backup.                                        *)
Replace ==
    /\ job = "writing"
    /\ job' = "written" /\ temps' = temps \ {second}
    /\ dir' = Put(dir, second) /\ made' = Put(made, second)
    /\ UNCHANGED <<second, version, doomed, mishaps, kept>>

(* _apply_retention_policy.                                                *)
Month(s) == s \div MonthTicks
OfMonth(files, s) == {t \in files : Month(t) = Month(s)}

(* A bug of MonthlyKept: the list is gone through from the oldest, so that *)
(* a month is represented by its first backup.                             *)
MonthlyKeptOldest(files) == {s \in files : s = Min(OfMonth(files, s))}

MonthlyKept(files) == {s \in files : s = Max(OfMonth(files, s))}

WithinDays(s) == s >= second - KeepDays
WithinMonths(s) == s >= second - KeepMonths * MonthTicks
Retained(files) ==
    {s \in files : WithinDays(s) \/ (s \in MonthlyKept(files) /\ WithinMonths(s))}

ApplyRetentionPolicy ==
    /\ job = "written"
    /\ job' = "pruning" /\ doomed' = DOMAIN dir \ Retained(DOMAIN dir) /\ kept' = TRUE
    /\ UNCHANGED <<second, version, dir, temps, mishaps, made>>

Deleted(s) == [t \in DOMAIN dir \ {s} |-> dir[t]]

(* One file after the other; one that cannot be deleted is passed over.    *)
Unlinked(succeeds) ==
    /\ job = "pruning" /\ doomed # {}
    /\ LET s == Max(doomed) IN
       /\ doomed' = doomed \ {s}
       /\ dir' = IF succeeds THEN Deleted(s) ELSE dir
    /\ succeeds \/ mishaps < MaxMishaps
    /\ mishaps' = IF succeeds THEN mishaps ELSE mishaps + 1
    /\ kept' = (kept /\ succeeds)
    /\ UNCHANGED <<second, job, version, temps, made>>

EndBackup ==
    /\ job = "pruning" /\ doomed = {}
    /\ job' = "none"
    /\ UNCHANGED <<second, version, dir, temps, doomed, mishaps, made, kept>>

(* restore_backup of a listed file, list_backups, get_latest_backup.       *)
ListBackups == DOMAIN dir
LatestBackup == IF ListBackups = {} THEN -1 ELSE Max(ListBackups)
RestoreBackup(s) == dir[s]

(***************************************************************************)
(* Around it.                                                              *)
(***************************************************************************)
ProcessDies ==
    /\ job # "none" /\ mishaps < MaxMishaps
    /\ job' = "none" /\ doomed' = {} /\ mishaps' = mishaps + 1
    /\ UNCHANGED <<second, version, dir, temps, made, kept>>

ConfigChanges ==
    /\ job = "none" /\ version < 1
    /\ version' = version + 1
    /\ UNCHANGED <<second, job, dir, temps, doomed, mishaps, made, kept>>

SecondPasses ==
    /\ job = "none" /\ second < LastSecond
    /\ second' = second + 1
    /\ UNCHANGED <<job, version, dir, temps, doomed, mishaps, made, kept>>

BackNext ==
    \/ StartBackup \/ WriteFails \/ Replace
    \/ ApplyRetentionPolicy \/ (\E succeeds \in BOOLEAN : Unlinked(succeeds)) \/ EndBackup
    \/ ProcessDies \/ ConfigChanges \/ SecondPasses

(***************************************************************************)
(* Properties.                                                             *)
(***************************************************************************)
LastOfMonth(s) == s = Max(OfMonth(DOMAIN made, s))

\* Whatever fails and wherever the process dies, a backup that has been
\* completed can be restored as it was made for as long as it is one of the
\* last days' or the last of a month that is still kept; the latest backup is
\* the last one made; and a run of the policy that could delete what it meant
\* to leaves at most those.
BackupsSurvive ==
    /\ \A s \in DOMAIN made :
          WithinDays(s) \/ (LastOfMonth(s) /\ WithinMonths(s)) =>
              s \in ListBackups /\ RestoreBackup(s) = made[s]
    /\ DOMAIN made # {} /\ WithinDays(Max(DOMAIN made)) => LatestBackup = Max(DOMAIN made)
    /\ kept /\ job = "pruning" /\ doomed = {} =>
          Cardinality(ListBackups) <= KeepDays + 1 + KeepMonths + 1
=============================================================================
