------------------------------- MODULE UpdateRow -------------------------------
(***************************************************************************)
(* The software update of the settings window.                             *)
(*                                                                         *)
(*   src/settings/UpdateSettings.tsx  the row and its one button           *)
(*   src-tauri/src/updater.rs         check_for_update, install_update,    *)
(*                                    and the watch in the background      *)
(*                                                                         *)
(* The row shows the last thing that it heard: the answer of a check, what *)
(* the watch found, the progress of a download, or its failure.  A toast   *)
(* may check again whatever the row shows, and the watch may offer the     *)
(* button of a download that runs, so that a second one starts.  Signing   *)
(* out takes the row away and signing in brings another one; a download    *)
(* goes on, but what it answers goes to the row that began it.  Events     *)
(* and answers reach the window in the order in which they were sent.      *)
(***************************************************************************)
EXTENDS Naturals

CONSTANTS MaxCalls   \* bound on the checks, and on the downloads, under way

ASSUME CallsAssumption == MaxCalls \in Nat

VARIABLES
    shown,     \* somebody is signed in, so there is a row
    state,     \* state.kind of that row
    checks,    \* its checks under way
    installs,  \* its install_update under way
    strays,    \* those of the rows before it
    unheard,   \* one of these failed, which this row was not told
    newer,     \* a newer version is published
    retry      \* a toast of this row offers to check again

rowVars    == <<state, checks, installs, unheard, retry>>
updateVars == <<shown, rowVars, strays, newer>>

UpdateInit ==
    /\ shown \in BOOLEAN /\ newer \in BOOLEAN
    /\ state = "idle" /\ checks = 0 /\ installs = 0 /\ strays = 0
    /\ unheard = FALSE /\ retry = FALSE

Busy == state \in {"checking", "installing"}

-----------------------------------------------------------------------------
(* Slips this code could have had, for the mutation runs.                   *)

FailsInSilence(kind) == state' = state

-----------------------------------------------------------------------------
\* What is told of a call that failed.
Fails(kind) == state' = kind

Checks ==
    /\ checks < MaxCalls /\ checks' = checks + 1
    /\ state' = "checking"
    /\ UNCHANGED <<shown, installs, strays, unheard, newer>>

\* "Check", which the row of a version that is ready does not show.
CheckNow == shown /\ ~Busy /\ state # "available" /\ Checks /\ UNCHANGED retry

Retry == retry /\ retry' = FALSE /\ Checks

CheckArrives ==
    /\ checks > 0 /\ checks' = checks - 1
    /\ \/ state' = (IF newer THEN "available" ELSE "current") /\ UNCHANGED retry
       \/ Fails("error") /\ retry' = TRUE
    /\ UNCHANGED <<shown, installs, strays, unheard, newer>>

\* updater:available
WatchFinds ==
    /\ shown /\ newer /\ state' = "available"
    /\ UNCHANGED <<shown, checks, installs, strays, unheard, newer, retry>>

\* "Update & restart"
Install ==
    /\ shown /\ state = "available"
    /\ installs + strays < MaxCalls /\ installs' = installs + 1
    /\ state' = "installing"
    /\ UNCHANGED <<shown, checks, strays, unheard, newer, retry>>

\* updater:progress, which every row hears, whoever began the download.
Progress ==
    /\ shown /\ installs + strays > 0 /\ state' = "installing"
    /\ UNCHANGED <<shown, checks, installs, strays, unheard, newer, retry>>

\* There is nothing to install any more, or the download fails.
InstallFails ==
    /\ installs > 0 /\ installs' = installs - 1
    /\ Fails("error")
    /\ UNCHANGED <<shown, checks, strays, unheard, newer, retry>>

\* The catch of a row that is gone sets what nobody shows.
StrayFails ==
    /\ strays > 0 /\ strays' = strays - 1
    /\ unheard' = (unheard \/ shown)
    /\ UNCHANGED <<shown, state, checks, installs, newer, retry>>

\* What useState will hold in the next row, if there is one.
NewRow == state' = "idle" /\ checks' = 0 /\ installs' = 0 /\ unheard' = FALSE /\ retry' = FALSE

\* The settings of a user who is not signed in have no rows, and what is answered to
\* the calls of this one changes nothing any more.
SignsOut ==
    /\ shown /\ shown' = FALSE
    /\ NewRow /\ strays' = strays + installs
    /\ UNCHANGED newer

SignsIn == ~shown /\ shown' = TRUE /\ UNCHANGED <<rowVars, strays, newer>>

\* The app restarts into the new version.
Restart ==
    /\ installs + strays > 0
    /\ shown' \in BOOLEAN /\ NewRow /\ strays' = 0 /\ newer' = FALSE

\* A version is published, or withdrawn.
Publish == newer' = ~newer /\ UNCHANGED <<shown, rowVars, strays>>

-----------------------------------------------------------------------------
UpdateNext ==
    \/ CheckNow \/ Retry \/ CheckArrives
    \/ Install \/ Progress \/ InstallFails \/ StrayFails \/ Restart
    \/ SignsOut \/ SignsIn
    \/ WatchFinds \/ Publish

UpdateSpec == UpdateInit /\ [][UpdateNext]_updateVars

-----------------------------------------------------------------------------
(* Properties.                                                              *)

UpdateTypeOK ==
    /\ state \in {"idle", "checking", "current", "available", "installing", "error"}
    /\ {checks, installs, strays, installs + strays} \subseteq 0..MaxCalls
    /\ {shown, unheard, newer, retry} \subseteq BOOLEAN

\* The row has one button and disables it while it waits: whatever overlaps and fails, it
\* does not wait for a call that is over (UpdateSettings.tsx:24-76), unless a download
\* that a row before it began failed under it: that row's catch was told, not this one.
RowHasItsCall ==
    /\ state = "checking" => checks > 0
    /\ state = "installing" => installs + strays > 0 \/ unheard
===============================================================================
