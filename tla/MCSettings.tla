------------------------------ MODULE MCSettings ------------------------------
(* The sections of the settings window on small instances.  They share no  *)
(* state, so a behaviour follows one of them and leaves the others alone.  *)
(* The account section opens signed in: the users are alike, and logging   *)
(* out is one of the moves.                                                *)
EXTENDS VoiceSettings, AccountPage, UpdateRow

VARIABLE section

settingsVars == <<vars, accountVars, updateVars, section>>

SettingsInit ==
    /\ Init /\ AccountInit /\ UpdateInit
    /\ section \in {"account", "voice", "update"}
    /\ session = IF section = "account" THEN CHOOSE u \in Users : TRUE ELSE Nobody
    /\ section # "update" => ~newer /\ ~shown

SettingsNext ==
    /\ UNCHANGED section
    /\ \/ section = "account" /\ AccountNext /\ UNCHANGED <<vars, updateVars>>
       \/ section = "voice" /\ Next /\ UNCHANGED <<accountVars, updateVars>>
       \/ section = "update" /\ UpdateNext /\ UNCHANGED <<vars, accountVars>>

SettingsSpec == SettingsInit /\ [][SettingsNext]_settingsVars /\ Fairness /\ AccountFairness
===============================================================================
