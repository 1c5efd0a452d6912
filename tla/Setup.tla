-------------------------------- MODULE Setup --------------------------------
(***************************************************************************)
(* First run and configuration: the wizard of src/app/setupwizard.py and    *)
(* its handlers in src/app/main.py, the connection of src/app/db.py that is *)
(* made when a database is known, config.yaml as src/app/configfile.py      *)
(* writes it, the settings page, and the process that is stopped and        *)
(* started with only the file and the databases surviving.                  *)
(*                                                                          *)
(* The wizard's draft, the connection and the running settings are memory.  *)
(* Two settings stand for all: the timezone, which every form that takes it *)
(* also applies, and an optional feature that is on unless switched off.    *)
(* A handler whose gate and effect have an await between them (connecting,  *)
(* hashing, reading the form before there is a session) is two steps.       *)
(*                                                                          *)
(* The specification is named for the module, which DatabaseProofs extends  *)
(* together with WriteLock and Importer.                                    *)
(***************************************************************************)
EXTENDS Naturals, FiniteSets, Sequences

CONSTANTS Tabs,         \* the pages open on the wizard at once
          DBs,          \* databases that could be chosen
          Zones,        \* timezones; the default is one
          Default       \* the timezone of an empty file

Unset == "none"

ASSUME SetupAssumption == Unset \notin DBs /\ Default \in Zones /\ Unset \notin Zones

VARIABLES env,          \* the database of APP_DATABASE__*, or Unset
          writable,     \* whether config.yaml can be created and replaced
          file,         \* config.yaml: whether it is there, and what it names
          accounts,     \* database -> how many accounts it holds
          up,           \* the process runs
          connected,    \* db._factory
          draft,        \* setupwizard._draft
          zone,         \* settings.timezone
          off,          \* the optional feature is off in settings.features
          stopping,     \* lifecycle.request_stop was called
          tab,          \* what each page's request is in the middle of
          session       \* the database the browser's session row is in

settings == <<zone, off>>
disk == <<env, writable, file>>
SetupVars == <<disk, accounts, up, connected, draft, settings, stopping, tab, session>>

Later == {"recovery", "2fa", "portfolio", "features", "environment", "finish"}
Early == {"welcome", "database", "account"}
STEPS == <<"recovery", "2fa", "portfolio", "features", "environment", "finish">>

NoDraft == [on |-> FALSE, database |-> Unset, done |-> {}, want_2fa |-> FALSE,
            timezone |-> Unset, off |-> FALSE]
Idle == [pc |-> "idle", db |-> Unset]

\* What a restart would find: the environment before the file.
Source == IF env # Unset THEN env ELSE file.db
Loaded == IF file.zone # Unset THEN file.zone ELSE Default
is_ready == connected # Unset
_accounts_exist == is_ready /\ accounts[connected] > 0
SignedIn == is_ready /\ session = connected
in_progress == draft.on

\* A fresh deployment, with or without a database of its own making, with or
\* without a file somebody wrote, over databases with or without accounts.
SetupInit ==
    /\ env \in DBs \cup {Unset} /\ writable \in BOOLEAN
    /\ file \in [there: BOOLEAN, db: {Unset}, zone: {Unset, Default}, off: {FALSE}]
    /\ file.zone # Unset => file.there
    /\ accounts \in [DBs -> 0..1]
    /\ up = TRUE /\ connected = Source /\ draft = NoDraft /\ zone = Loaded /\ off = file.off
    /\ stopping = FALSE
    /\ tab = [t \in Tabs |-> Idle] /\ session = Unset

-----------------------------------------------------------------------------
(* Which page answers.                                                      *)

skipped == IF draft.want_2fa THEN {} ELSE {"2fa"}

\* The first step that still has something to do.
next_step(configured, exists) ==
    IF "welcome" \notin draft.done THEN "welcome"
    ELSE IF ~configured THEN "database"
    ELSE IF ~exists THEN "account"
    ELSE LET open == {n \in 1..Len(STEPS) : STEPS[n] \notin skipped \cup draft.done}
         IN IF open = {} THEN "finish"
            ELSE STEPS[CHOOSE n \in open : \A m \in open : n <= m]

_wizard_url == next_step(Source # Unset, _accounts_exist)

\* Where GET of a page sends the browser, or "page" when it answers itself.
\* The steps are named without their /setup/, "home" is any page of the app.
\* A form's gate is the condition that its page answers.
require_login == IF ~is_ready THEN "welcome"
                 ELSE IF ~SignedIn THEN IF _accounts_exist THEN "login" ELSE "welcome"
                 ELSE IF in_progress THEN _wizard_url ELSE "page"

login_form == IF SignedIn THEN "home" ELSE IF _accounts_exist THEN "page" ELSE "welcome"

\* A bug the runs plant: the gate forgets that the first steps ever shut.
StepUnshut(step) ==
    IF step \in Early THEN IF step = "account" /\ ~is_ready THEN "welcome" ELSE "page"
    ELSE IF ~in_progress THEN IF _accounts_exist THEN "home" ELSE "welcome"
    ELSE IF step \in skipped THEN _wizard_url
    ELSE IF SignedIn THEN "page" ELSE "login"

_wizard_step(step) ==
    IF step \in Early
    THEN IF _accounts_exist THEN "login"
         ELSE IF step = "account" /\ ~is_ready THEN "welcome" ELSE "page"
    ELSE IF ~in_progress THEN IF _accounts_exist THEN "home" ELSE "welcome"
    ELSE IF step \in skipped THEN _wizard_url
    ELSE IF SignedIn THEN "page" ELSE "login"

\* Only the database's page has somewhere else to send an open step.
Answer(url) ==
    CASE url = "home" -> require_login
      [] url = "login" -> login_form
      [] OTHER -> IF url = "database" /\ _wizard_step(url) = "page" /\ Source # Unset /\ is_ready
                  THEN "account" ELSE _wizard_step(url)

URLs == {"home", "login"} \cup Early \cup Later

\* Following redirects from a page for as long as no page repeats.
Settles(url) ==
    LET at[n \in 0..Cardinality(URLs)] ==
            IF n = 0 THEN url
            ELSE IF at[n - 1] = "page" THEN "page" ELSE Answer(at[n - 1])
    IN at[Cardinality(URLs)] = "page"

-----------------------------------------------------------------------------
(* The steps before there is an account.                                    *)

Drafted(d) == [d EXCEPT !.on = TRUE]
completed(step) == [Drafted(draft) EXCEPT !.done = @ \cup {step}]

\* Drawing any wizard page makes the draft, by asking which steps to skip.
_wizard_page(step) ==
    /\ up /\ Answer(step) = "page"
    /\ draft' = Drafted(draft)
    /\ UNCHANGED <<disk, accounts, up, connected, settings, stopping, tab, session>>

\* A form sent and through its gate; what it does comes after an await.
Enter(t, step, db) == /\ up /\ tab[t] = Idle /\ _wizard_step(step) = "page"
                      /\ tab' = [tab EXCEPT ![t] = [pc |-> step, db |-> db]]

\* The database form is drawn only where nothing names a database (Answer), but
\* what it sends is let through by its step alone, whatever has a name by then.
Press(t) == /\ \/ Enter(t, "welcome", Unset) \/ Enter(t, "account", connected)
               \/ \E db \in DBs : Enter(t, "database", db)
            /\ UNCHANGED <<disk, accounts, up, connected, draft, settings, stopping, session>>

\* The end of a form: the page is idle, the draft is `d`.
Ends(t, d) == /\ tab' = [tab EXCEPT ![t] = Idle]
              /\ draft' = d
              /\ UNCHANGED <<disk, up, connected, settings, stopping>>

setup_welcome_next(t) ==
    /\ tab[t].pc = "welcome"
    /\ Ends(t, completed("welcome"))
    /\ UNCHANGED <<accounts, session>>

\* The test button, and a save whose probe or migration failed: the form again.
setup_database_test(t) ==
    /\ tab[t].pc = "database"
    /\ Ends(t, Drafted(draft))
    /\ UNCHANGED <<accounts, session>>

\* The chosen database answered: it is migrated, and served from now on.
connect(t) ==
    /\ tab[t].pc = "database"
    /\ connected' = tab[t].db
    /\ tab' = [tab EXCEPT ![t].pc = "connected"]
    /\ UNCHANGED <<disk, accounts, up, draft, settings, stopping, session>>

setup_database_save(t) ==
    /\ tab[t].pc = "connected"
    /\ Ends(t, [completed("database") EXCEPT !.database = tab[t].db])
    /\ UNCHANGED <<accounts, session>>

\* The password is hashed; the account and its session go into the database
\* the request's session was opened on.  When something typed will not do, the
\* form again with the tick box remembered.
setup_account_create(t) ==
    /\ tab[t].pc = "account"
    /\ \E want \in BOOLEAN :
          \/ /\ accounts' = [accounts EXCEPT ![tab[t].db] = @ + 1]
             /\ session' = tab[t].db
             /\ Ends(t, [completed("account") EXCEPT !.want_2fa = want])
          \/ /\ Ends(t, [Drafted(draft) EXCEPT !.want_2fa = want])
             /\ UNCHANGED <<accounts, session>>

-----------------------------------------------------------------------------
(* The steps that need the session; one that fails leaves all as it was.    *)

Fills(step, d) == /\ up /\ _wizard_step(step) = "page"
                  /\ draft' = d
                  /\ UNCHANGED <<disk, accounts, up, connected, tab, session>>

\* Looking at the recovery codes completes their step.
setup_recovery == Fills("recovery", completed("recovery")) /\ UNCHANGED <<settings, stopping>>

setup_twofactor_enable == Fills("2fa", completed("2fa")) /\ UNCHANGED <<settings, stopping>>

setup_twofactor_skip == /\ Fills("2fa", [draft EXCEPT !.want_2fa = FALSE])
                        /\ UNCHANGED <<settings, stopping>>

\* The timezone applies now, not at the restart.
setup_portfolio_save(z) ==
    /\ Fills("portfolio", [completed("portfolio") EXCEPT !.timezone = z])
    /\ zone' = z
    /\ UNCHANGED <<off, stopping>>

setup_features_save(o) == /\ Fills("features", [completed("features") EXCEPT !.off = o])
                          /\ UNCHANGED <<settings, stopping>>

setup_environment_save == /\ Fills("environment", completed("environment"))
                          /\ UNCHANGED <<settings, stopping>>

\* A new file starts from the shipped one, which names the default timezone.
\* It names a database as well, but is written only where one is served: the
\* wizard's own choice replaces it, the environment's outranks it.
Base == IF file.there THEN file
        ELSE [there |-> TRUE, db |-> Unset, zone |-> Default, off |-> FALSE]

\* Only what was chosen is written; a feature only when it was switched off.
config_values(d) == [db |-> d.database, zone |-> d.timezone, off |-> d.off]

\* A bug the runs plant: a database the file does not name yet is left out.
write_known(v) ==
    [Base EXCEPT !.db = IF @ # Unset /\ v.db # Unset THEN v.db ELSE @,
                 !.zone = IF v.zone # Unset THEN v.zone ELSE @,
                 !.off = v.off \/ @]

write_tree(v) == [Base EXCEPT !.db = IF v.db # Unset THEN v.db ELSE @,
                              !.zone = IF v.zone # Unset THEN v.zone ELSE @,
                              !.off = v.off \/ @]

creatable == writable
writability == writable /\ file.there

\* The database is named so that the restart proves it was written down.  The
\* feed, the proxies and secure cookies, which are too, are not modelled.
needs_restart(d) == d.database # Unset

\* The file is written whole, or the write fails and the step stays.  Where it
\* cannot be, the page has shown what would have been.
setup_finish_save ==
    /\ up /\ _wizard_step("finish") = "page"
    /\ file' = IF creatable THEN write_tree(config_values(draft)) ELSE file
    /\ draft' = NoDraft
    /\ stopping' = (stopping \/ needs_restart(draft))
    /\ UNCHANGED <<env, writable, accounts, up, connected, settings, tab, session>>

-----------------------------------------------------------------------------
(* Outside the wizard, and the process.                                     *)

apply_live(z, o) == zone' = z /\ off' = o

\* configfile.save: the settings named are replaced, the rest of the file stays.
save(z, o) == file' = [file EXCEPT !.zone = z, !.off = o]

\* The settings page: the file first, then the running settings, then perhaps
\* a restart.  The form posts every setting, the unchanged ones with the rest.
settings_save(z, o, restart) ==
    /\ up /\ require_login = "page" /\ writability
    /\ save(z, o)
    /\ apply_live(z, o)
    /\ stopping' = (stopping \/ restart)
    /\ UNCHANGED <<env, writable, accounts, up, connected, draft, tab, session>>

login_submit == /\ up /\ login_form = "page"
                /\ session' = connected
                /\ UNCHANGED <<disk, accounts, up, connected, draft, settings, stopping, tab>>

\* Open in the middle of the wizard too: abandoning it is legitimate.
logout == /\ up /\ SignedIn
          /\ session' = Unset
          /\ UNCHANGED <<disk, accounts, up, connected, draft, settings, stopping, tab>>

\* Stopped by the finish, the settings page, the platform or a crash.
Stops == /\ up
         /\ up' = FALSE /\ connected' = Unset /\ draft' = NoDraft /\ stopping' = FALSE
         /\ tab' = [t \in Tabs |-> Idle]
         /\ UNCHANGED <<disk, accounts, settings, session>>

start == /\ ~up
         /\ up' = TRUE /\ connected' = Source /\ zone' = Loaded /\ off' = file.off
         /\ UNCHANGED <<disk, accounts, draft, stopping, tab, session>>

-----------------------------------------------------------------------------

TabStep(t) == \/ Press(t) \/ setup_welcome_next(t) \/ setup_database_test(t) \/ connect(t)
              \/ setup_database_save(t) \/ setup_account_create(t)

SetupNext ==
    \/ \E t \in Tabs : TabStep(t)
    \/ \E step \in Early \cup Later : _wizard_page(step)
    \/ setup_recovery \/ setup_twofactor_enable \/ setup_twofactor_skip
    \/ setup_environment_save \/ setup_finish_save
    \/ \E z \in Zones : setup_portfolio_save(z)
    \/ \E o \in BOOLEAN : setup_features_save(o)
    \/ \E z \in Zones, o, restart \in BOOLEAN : settings_save(z, o, restart)
    \/ login_submit \/ logout \/ Stops \/ start

SetupSpec == SetupInit /\ [][SetupNext]_SetupVars

-----------------------------------------------------------------------------
(* Properties.                                                              *)

Quiet == up /\ \A t \in Tabs : tab[t] = Idle

\* The variables have their types, and nothing is remembered or served by a
\* process that is not there.
SetupTypeOK ==
    /\ env \in DBs \cup {Unset} /\ writable \in BOOLEAN /\ up \in BOOLEAN
    /\ file \in [there: BOOLEAN, db: DBs \cup {Unset}, zone: Zones \cup {Unset},
                 off: BOOLEAN]
    /\ DOMAIN accounts = DBs /\ \A d \in DBs : accounts[d] \in Nat
    /\ connected \in DBs \cup {Unset} /\ session \in DBs \cup {Unset}
    /\ zone \in Zones /\ off \in BOOLEAN /\ stopping \in BOOLEAN
    /\ draft.database \in DBs \cup {Unset} /\ draft.done \subseteq Early \cup Later
    /\ draft.timezone \in Zones \cup {Unset} /\ {draft.on, draft.want_2fa} \subseteq BOOLEAN
    /\ \A t \in Tabs : /\ tab[t].pc \in {"idle", "connected"} \cup Early
                       /\ tab[t].pc = "account" => tab[t].db \in DBs
    /\ ~up => connected = Unset /\ ~in_progress /\ ~stopping

\* With an account in the database it serves, the app is never pointed at
\* another and gains no second first account, and with no wizard under way and
\* no form half answered none begins: the first steps are open to anybody, so
\* each must shut the moment there is an account in the database then served.
SetupOnce ==
    [][ _accounts_exist /\ up' =>
             /\ connected' = connected
             /\ accounts'[connected] = accounts[connected]
             /\ Quiet /\ ~in_progress => ~draft'.on ]_SetupVars

\* With no wizard under way and a file that can be written, a restart finds the
\* timezone the app ran with, and the database it served: the environment's, or
\* else the one the file names.  One chosen over the environment's is in the file
\* as well, but the restart then goes by the environment (EnvironmentStands).
RestartFindsTheSame ==
    Quiet /\ ~in_progress /\ is_ready /\ writable =>
        /\ env = Unset => Source = connected
        /\ env # Unset => connected \in {env, file.db}
        /\ Loaded = zone

\* "The wizard offers a database step only when nothing else has chosen one":
\* where the environment names the database, that is the one the app serves.
EnvironmentStands == is_ready /\ env # Unset => connected = env

\* "Every way into the wizard terminates": a browser sent from page to page
\* reaches one that answers.
NoWizardPathLoops == up => \A url \in URLs : Settles(url)

\* "Always, when there is something a restart is needed to pick up": with the
\* wizard over and no restart asked for, the app runs what the file says.
FinishTakesEffect ==
    Quiet /\ ~in_progress /\ ~stopping /\ is_ready /\ writable => off = file.off

=============================================================================
