----------------------------- MODULE ConfigFile -----------------------------
(* config.dat and its backup while a process starts (main.go newApplication,  *)
(* config.go loadConfig): an older configuration is upgraded, one of version 5 *)
(* after its file has been copied to config.dat.v5.bak.  A file is the version *)
(* it has, and whether it lists accounts or is the two-channel form that       *)
(* loadConfig itself migrates.  A save replaces the file by a rename, so it is *)
(* whole at every moment; the backup is written in place.  Saves of a          *)
(* running process are those of AccountRouting.                                *)
EXTENDS Naturals

CONSTANT None

VARIABLES
    file,       \* config.dat
    backup,     \* config.dat.v5.bak: None, "part", "v5"
    step        \* of newApplication

configVars == <<file, backup, step>>

configVersion == 6

Current == [version |-> configVersion, accounts |-> TRUE]

\* What a release of the program, older or newer, may have left.
Files == {None} \union [version : 4..5, accounts : BOOLEAN]
             \union [version : configVersion..configVersion + 1, accounts : {TRUE}]

Init ==
    /\ file \in Files
    /\ backup = None
    /\ step = "idle"

Found == file # None

\* loadConfig migrates it, before newApplication loads the statistics.
TwoChannels == Found /\ file.version < configVersion /\ ~file.accounts

Upgrade == IF Found /\ file.version = 5 THEN "backup" ELSE "save"

\* loadConfig: a newer file is refused, and one that does not validate.
Load ==
    /\ step = "idle"
    /\ \/ Found /\ file.version # configVersion /\ step' = "refused"
       \/ /\ Found => file.version <= configVersion
          /\ step' = IF TwoChannels THEN Upgrade ELSE "stats"
    /\ UNCHANGED <<file, backup>>

\* loadRequestStats fails on a file it cannot read.
LoadStats ==
    /\ step = "stats"
    /\ step' \in {"refused", IF file = Current THEN "loaded" ELSE Upgrade}
    /\ UNCHANGED <<file, backup>>

\* Faulty: whatever is at the backup's path will do.
BackupUnread ==
    /\ step = "backup"
    /\ IF backup = None THEN backup' = "part" /\ step' = "copy"
                        ELSE backup' = backup /\ step' = "save"
    /\ UNCHANGED file

\* backupConfigVersion: O_CREATE|O_EXCL, and a backup that exists must be one
\* of version 5.
Backup ==
    /\ step = "backup"
    /\ \/ backup = None /\ backup' = "part" /\ step' = "copy"
       \/ backup = "v5" /\ backup' = backup /\ step' = "save"
       \/ backup = "part" /\ backup' = backup /\ step' = "refused"
    /\ UNCHANGED file

\* It is written; on an error it is removed, if that works.
Copy ==
    /\ step = "copy"
    /\ \/ backup' = "v5" /\ step' = "save"
       \/ backup' \in {None, "part"} /\ step' = "refused"
    /\ UNCHANGED file

\* saveProtectedJSON: it may fail before the rename, or after it (Chmod).
Save ==
    /\ step = "save"
    /\ \/ file' = Current /\ step' = IF TwoChannels THEN "stats" ELSE "loaded"
       \/ file' \in {file, Current} /\ step' = "refused"
    /\ UNCHANGED backup

\* The user goes back to the version before (README.md:212), no process running.
Restore ==
    /\ backup = "v5"
    /\ file' = [version |-> 5, accounts |-> TRUE]
    /\ file # file'
    /\ UNCHANGED <<backup, step>>

Start == Load \/ LoadStats \/ Backup \/ Copy \/ Save

-----------------------------------------------------------------------------
(* Properties.                                                               *)

ConfigTypeOK ==
    /\ file \in Files
    /\ backup \in {None, "part", "v5"}
    /\ step \in {"idle", "stats", "backup", "copy", "save", "loaded", "refused"}

\* A configuration of version 5 is replaced only when a whole copy of it, or of
\* an earlier one, is at config.dat.v5.bak, and a whole copy stays for good,
\* through crashes, failing writes and returns to the old program
\* (README.md:212, config.go:293).
OldIsKept ==
    [][/\ Found /\ file.version = 5 /\ file' # file => backup' = "v5"
       /\ backup = "v5" => backup' = "v5"]_configVars
=============================================================================
