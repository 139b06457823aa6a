------------------------------ MODULE Platform ------------------------------
(***************************************************************************)
(* The parts of the deployment that share no state with the job system:    *)
(* refresh tokens, the dashboard's session, the schema and the bot's       *)
(* quota.  A behaviour is a behaviour of one of them; the others stay      *)
(* where they start.                                                       *)
(***************************************************************************)
EXTENDS RefreshTokens, Dashboard, Migrations, BotQuota

VARIABLE part          \* the part that moves

Parts == {"tokens", "dashboard", "schema", "quota"}

platformVars == <<part, vars, dashboardVars, migrationVars, quotaVars>>

\* Types of the parts (the row and record types named there).
PlatformTypeOK ==
    part \in Parts /\ TypeOK /\ DashboardTypeOK /\ MigrationsTypeOK /\ QuotaTypeOK

\* Only the part that moves starts in all of its initial states.
PlatformInit ==
    /\ part \in Parts
    /\ Init /\ DashboardInit /\ MigrationsInit /\ QuotaInit
    /\ part # "schema" => revision = 0

PlatformNext ==
    /\ UNCHANGED part
    /\ \/ part = "tokens" /\ Next /\ UNCHANGED <<dashboardVars, migrationVars, quotaVars>>
       \/ part = "dashboard" /\ DashboardNext /\ UNCHANGED <<vars, migrationVars, quotaVars>>
       \/ part = "schema" /\ MigrationsNext /\ UNCHANGED <<vars, dashboardVars, quotaVars>>
       \/ part = "quota" /\ QuotaNext /\ UNCHANGED <<vars, dashboardVars, migrationVars>>

PlatformSpec == PlatformInit /\ [][PlatformNext]_platformVars
=============================================================================
