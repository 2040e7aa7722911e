-------------------------------- MODULE Setup --------------------------------
(***************************************************************************)
(* The configuration directory of an instance (donkeyspace-cli): command   *)
(* lines and the tasks of a terminal open instance.json, work on their     *)
(* copy of it, and save it under `.instance.lock` unless it changed in the *)
(* meantime.  Starting and applying hold that lock while they write the    *)
(* environment and the effective policy and run the API and the worker     *)
(* from them; stopping, `compose config` and the files of a plugin take no *)
(* lock.                                                                   *)
(*                                                                         *)
(* A setting (a port, the polling interval, a plugin, the facade) is a     *)
(* number that every edit raises, so that two saved configurations differ. *)
(* Docker, GitHub and `codex login` are external.                          *)
(***************************************************************************)
EXTENDS Integers, FiniteSets

CONSTANTS Sessions,       \* command lines and tasks of a terminal, a command each
          Tasks,          \* the sessions that report to the terminal
          Repositories,   \* repositories a connection may select
          People,         \* people who may be trusted
          Nobody,         \* no session
          NoConfig,       \* instance.json does not exist
          MaxCommands,    \* bound: commands
          MaxFaults       \* bound: failed calls of Docker, failed logins, crashes

(* Starters and approvers are edited in the same way: one list stands for  *)
(* both.  awaits: repositories_pending_apply; legacy: an earlier schema    *)
(* version, which opening saves anew.                                      *)
Grants == [repository : Repositories, person : People]
Configs ==
    [repositories : SUBSET Repositories, access : SUBSET Grants, awaits : BOOLEAN,
     settings : Nat, codex : Nat, legacy : BOOLEAN]

ASSUME ConstantsAssumption ==
    /\ Tasks \subseteq Sessions /\ Nobody \notin Sessions
    /\ NoConfig \notin Configs
    /\ {MaxCommands, MaxFaults} \subseteq Nat

VARIABLES saved,      \* instance.json
          told,       \* history: what the accepted edits, one after another, asked for
          lock,       \* the session that holds .instance.lock
          files,      \* selection and access in the environment and policy files
          service,    \* what the API and the worker run
          stray,      \* history: what the services may run other than saved, and nobody guards
          login,      \* auth.json: number of the login
          session,    \* what each session does
          budget      \* commands given and faults so far

configuration == <<saved, told>>
deployment == <<files, service, stray>>
setupVars == <<configuration, lock, deployment, login, session, budget>>

Consumers == {"api", "worker"}

NotRunning == [up |-> FALSE, repositories |-> {}, access |-> {}]
Running(c) == service[c].up

Fresh == [repositories |-> {}, access |-> {}, awaits |-> FALSE, settings |-> 0, codex |-> 0,
          legacy |-> FALSE]

-----------------------------------------------------------------------------
(* Editing a configuration *)

Of(access, repositories) == {g \in access : g.repository \in repositories}

(* reconcile_github_access: the entries of other repositories go, and a    *)
(* new repository has none.                                                *)
\* Mutant of Selecting: the entries of a removed repository stay.
SelectingOnly(config, repositories) == [config EXCEPT !.repositories = repositories]
Selecting(config, repositories) ==
    [config EXCEPT !.repositories = repositories, !.access = Of(@, repositories)]

Migrated(config) == [config EXCEPT !.legacy = FALSE]

Trusting(access, request) ==
    IF request.kind = "grant" THEN access \cup {request.grant} ELSE access \ {request.grant}

-----------------------------------------------------------------------------
(* Sessions *)

Plain == [kind |-> "none", repositories |-> {}, grant |-> Nobody, original |-> {},
          confirmed |-> {}]
IdleSession == [pc |-> "idle", mine |-> NoConfig, request |-> Plain, ok |-> TRUE]

At(s, pc) == session[s].pc = pc
Mine(s) == session[s].mine
Request(s) == session[s].request
Is(s, kinds) == Request(s).kind \in kinds
Access == {"grant", "revoke"}

Goes(s, pc) == session' = [session EXCEPT ![s].pc = pc]
Report(request, ok) ==
    [IdleSession EXCEPT !.pc = "done", !.request.kind = request.kind, !.ok = ok]
Outcome(s, ok) == IF s \in Tasks THEN Report(Request(s), ok) ELSE IdleSession
Ends(s, ok) == session' = [session EXCEPT ![s] = Outcome(s, ok)]
Release(s) == lock' = IF lock = s THEN Nobody ELSE lock

Faulty == budget.faults < MaxFaults /\ budget' = [budget EXCEPT !.faults = @ + 1]

(* Services are about to be started from the files as they are. *)
Starting == lock # Nobody /\ session[lock].pc \in Consumers

-----------------------------------------------------------------------------
(* Opening *)

(* What a command line may ask for, given the configuration it opened.  A  *)
(* removal is confirmed by naming the repository.                          *)
Asking(config, kind) == [Plain EXCEPT !.original = config.repositories, !.kind = kind]
Selection(config, chosen, confirmed) ==
    [Asking(config, "repositories") EXCEPT !.repositories = chosen, !.confirmed = confirmed]
Requests(config) ==
    {Asking(config, kind) : kind \in {"settings", "facade", "config", "start", "down", "codex"}}
    \cup {[Asking(config, "connect") EXCEPT !.repositories = chosen] :
              chosen \in (SUBSET Repositories) \ {{}}}
    \cup {[Asking(config, "grant") EXCEPT !.grant = g] : g \in Of(Grants, config.repositories)}
    \cup {[Asking(config, "revoke") EXCEPT !.grant = g] : g \in Of(Grants, config.repositories)}
    \cup {Selection(config, config.repositories \ {r}, {r}) : r \in config.repositories}
    \cup (IF config.repositories = {} THEN {}                              \* not connected
          ELSE {Asking(config, "apply")}
               \cup {Selection(config, config.repositories \cup {r}, {}) :
                         r \in Repositories \ config.repositories})

(* Instance::open, and the test of Manage repositories that its selection  *)
(* was made from what is saved now.                                        *)
MadeFrom(request, config) ==
    request.kind = "repositories" => request.original = config.repositories

Open(s, request) ==
    /\ saved # NoConfig /\ (saved.legacy => lock = Nobody)
    /\ saved' = Migrated(saved) /\ told' = Migrated(told)
    /\ session' = [session EXCEPT ![s] =
           IF MadeFrom(request, saved)
           THEN [pc |-> "opened", mine |-> saved', request |-> request, ok |-> TRUE]
           ELSE Report(request, FALSE)]
    /\ UNCHANGED <<lock, deployment, login>>

Command == budget.commands < MaxCommands /\ budget' = [budget EXCEPT !.commands = @ + 1]

CommandLine(s) ==
    /\ s \notin Tasks /\ At(s, "idle") /\ saved # NoConfig /\ Command
    /\ \E request \in Requests(saved) : Open(s, request)

OpenNothing(s) ==
    /\ s \notin Tasks /\ At(s, "idle") /\ saved = NoConfig /\ Command
    /\ session' = [session EXCEPT ![s] = [IdleSession EXCEPT
           !.pc = "opened", !.request = [Plain EXCEPT !.kind = "init"]]]
    /\ UNCHANGED <<configuration, lock, deployment, login>>

(* The command does not get to save or to act: a value is refused, GitHub  *)
(* or the person says no, another session has the lock or saved first.     *)
GiveUp(s) ==
    /\ At(s, "opened") /\ Ends(s, FALSE)
    /\ UNCHANGED <<configuration, lock, deployment, login, budget>>

-----------------------------------------------------------------------------
(* Saving *)

(* save_unlocked: the bytes on disk are those that were read; a session    *)
(* that found no file compares nothing.                                    *)
\* Mutant of Unchanged: the last writer wins.
UncheckedSave(s) == TRUE
Unchanged(s) == Mine(s) \in {NoConfig, saved}

Asks(s, kinds) == At(s, "opened") /\ Is(s, kinds)
Saves(s, new) == lock = Nobody /\ Unchanged(s) /\ saved' = new
Continues(s, new, pc) == session' = [session EXCEPT ![s].mine = new, ![s].pc = pc]

Initialize(s) ==
    /\ Asks(s, {"init"}) /\ Saves(s, Fresh) /\ Ends(s, TRUE)
    /\ told' = Fresh /\ stray' = stray \cup {"selection", "access"}
    /\ UNCHANGED <<lock, files, service, login, budget>>

SaveSetting(s) ==
    LET new == [Mine(s) EXCEPT !.settings = @ + 1]
    IN  /\ Asks(s, {"settings", "facade"}) /\ Saves(s, new)
        /\ told' = [told EXCEPT !.settings = @ + 1]
        /\ IF Is(s, {"settings"}) THEN Ends(s, TRUE) ELSE Continues(s, new, "write")
        /\ UNCHANGED <<lock, deployment, login, budget>>

(* connect_plugin with a flow: the plugin is saved, then its activation is *)
(* an edit of its own, which another session may come before.              *)
SavePlugin(s) ==
    LET new == [Mine(s) EXCEPT !.settings = @ + 1]
    IN  /\ Asks(s, {"settings"}) /\ Saves(s, new)
        /\ told' = [told EXCEPT !.settings = @ + 1]
        /\ session' = [session EXCEPT ![s].mine = new, ![s].request.kind = "facade"]
        /\ UNCHANGED <<lock, deployment, login, budget>>

(* Connecting writes the keys and replaces the selection; it does not ask  *)
(* for a controlled restart.                                               *)
SaveConnection(s) ==
    /\ Asks(s, {"connect"}) /\ Saves(s, Selecting(Mine(s), Request(s).repositories)) /\ Ends(s, TRUE)
    /\ told' = [told EXCEPT !.repositories = Request(s).repositories,
                            !.access = Of(@, Request(s).repositories)]
    /\ stray' = stray \cup {"selection", "access"}
    /\ UNCHANGED <<lock, files, service, login, budget>>

(* save_repository_selection: the last repository stays, and whoever does  *)
(* not name what goes removes nothing (Manage repositories and remove pass *)
(* the confirmation).                                                      *)
\* Mutant of Pending: a selection applies by itself.
AppliesItself(config) == config
Pending(config) == [config EXCEPT !.awaits = TRUE]

SaveRepositories(s) ==
    LET chosen == Request(s).repositories
    IN  /\ Asks(s, {"repositories"}) /\ chosen \notin {{}, Mine(s).repositories}
        /\ Saves(s, Pending(Selecting(Mine(s), chosen))) /\ Ends(s, TRUE)
        /\ told' = [told EXCEPT !.repositories = chosen, !.access = Of(@, chosen), !.awaits = TRUE]
        /\ UNCHANGED <<lock, deployment, login, budget>>

(* save_and_apply_github_access: while repositories await their restart    *)
(* access is saved only; otherwise the lock is kept and the API restarts.  *)
RestartsApi(config) == ~config.awaits /\ Running("api")

SaveAccess(s) ==
    LET new == [Mine(s) EXCEPT !.access = Trusting(@, Request(s))]
    IN  /\ Asks(s, Access) /\ Request(s).grant.repository \in Mine(s).repositories
        /\ new # Mine(s) /\ Saves(s, new)
        /\ told' = [told EXCEPT !.access = Trusting(@, Request(s))]
        /\ IF RestartsApi(new) THEN lock' = s /\ Continues(s, new, "write")
           ELSE Ends(s, TRUE) /\ UNCHANGED lock
        /\ UNCHANGED <<deployment, login, budget>>

(* Docker does not answer: the API counts as stopped. *)
SaveAccessUnseen(s) ==
    LET new == [Mine(s) EXCEPT !.access = Trusting(@, Request(s))]
    IN  /\ Asks(s, Access) /\ Request(s).grant.repository \in Mine(s).repositories
        /\ new # Mine(s) /\ RestartsApi(new) /\ Saves(s, new)
        /\ told' = [told EXCEPT !.access = Trusting(@, Request(s))]
        /\ Ends(s, TRUE) /\ stray' = stray \cup {"access"} /\ Faulty
        /\ UNCHANGED <<lock, files, service, login>>

-----------------------------------------------------------------------------
(* Starting and applying: the lock is held from here to the last save *)

Untouched(s) == saved = Mine(s)

(* ensure_repositories_can_start *)
\* Mutant of CanStart: pending repositories do not matter.
StartsAnyway(config) == TRUE
CanStart(config) == config.awaits => \A c \in Consumers : ~Running(c)

Start(s) ==
    /\ Asks(s, {"start"}) /\ lock = Nobody /\ Untouched(s)
    /\ CanStart(Mine(s))
    /\ lock' = s /\ Goes(s, "write")
    /\ UNCHANGED <<configuration, deployment, login, budget>>

Apply(s) ==
    /\ Asks(s, {"apply"}) /\ Saves(s, [Mine(s) EXCEPT !.awaits = TRUE])
    /\ told' = [told EXCEPT !.awaits = TRUE]
    /\ lock' = s /\ Continues(s, saved', "stop")
    /\ UNCHANGED <<deployment, login, budget>>

Stopped == [c \in Consumers |-> NotRunning]

StopConsumers(s) ==
    /\ At(s, "stop") /\ service' = Stopped /\ stray' = {}
    /\ Goes(s, "write") /\ UNCHANGED <<configuration, lock, files, login, budget>>

(* compose_command: the environment and the effective policy are those of  *)
(* the configuration in hand, whether it is still the saved one or not.    *)
Derived(config) == [repositories |-> config.repositories, access |-> config.access]

WriteFiles(s) ==
    /\ At(s, "write") \/ Asks(s, {"config"})
    /\ files' = Derived(Mine(s))
    /\ stray' = IF Starting /\ files' # Derived(saved) THEN {"selection", "access"} ELSE stray
    /\ IF Is(s, {"config", "facade"}) THEN Ends(s, TRUE) ELSE Goes(s, "api")
    /\ UNCHANGED <<configuration, lock, service, login, budget>>

(* docker compose up: `--force-recreate`, and without it a service that    *)
(* does not run or whose environment changed.                              *)
Recreates(s, c) ==
    \/ Is(s, Access \cup {"apply"})
    \/ ~Running(c) \/ service[c].repositories # files.repositories
Up(s, c) ==
    service' = IF ~Recreates(s, c) THEN service
               ELSE [service EXCEPT ![c] = [up |-> TRUE, repositories |-> files.repositories,
                                            access |-> files.access]]

UpApi(s) ==
    /\ At(s, "api") /\ Up(s, "api")
    /\ IF Is(s, Access) THEN Ends(s, TRUE) /\ Release(s)
       ELSE Goes(s, "worker") /\ UNCHANGED lock
    /\ UNCHANGED <<configuration, files, stray, login, budget>>

UpWorker(s) ==
    /\ At(s, "worker") /\ Up(s, "worker") /\ Goes(s, "mark")
    /\ UNCHANGED <<configuration, lock, files, stray, login, budget>>

(* mark_repositories_applied, and the last save of an application *)
MarkApplied(s) ==
    /\ At(s, "mark") /\ Unchanged(s) /\ saved' = [Mine(s) EXCEPT !.awaits = FALSE]
    /\ told' = [told EXCEPT !.awaits = FALSE]
    /\ Release(s) /\ Ends(s, TRUE)
    /\ UNCHANGED <<deployment, login, budget>>

(* A call of Docker fails.  An application then stops both consumers, a    *)
(* start leaves what runs, and an access edit asks for a restart.          *)
DockerFails(s) ==
    /\ session[s].pc \in {"stop"} \cup Consumers /\ Faulty
    /\ IF Is(s, {"apply"}) /\ ~At(s, "stop") THEN Goes(s, "cleanup") /\ UNCHANGED lock
       ELSE Ends(s, FALSE) /\ Release(s)
    /\ stray' = IF Is(s, Access) THEN stray \cup {"access"} ELSE stray
    /\ UNCHANGED <<configuration, files, service, login>>

CleanUp(s) ==
    /\ At(s, "cleanup") /\ Ends(s, FALSE) /\ Release(s)
    /\ \/ service' = Stopped /\ UNCHANGED budget
       \/ Faulty /\ UNCHANGED service
    /\ UNCHANGED <<configuration, files, stray, login>>

(* down, stop, reset: no lock *)
StopStack(s) ==
    /\ Asks(s, {"down"}) /\ Ends(s, TRUE)
    /\ service' = Stopped /\ stray' = IF Starting THEN stray ELSE {}
    /\ UNCHANGED <<configuration, lock, files, login, budget>>

(* A command line ends where it is; the system frees its locks. *)
Dies(s) ==
    /\ session' = [session EXCEPT ![s] = IdleSession] /\ Release(s)
    /\ stray' = IF Is(s, Access) /\ session[s].pc \in {"write", "api"} THEN stray \cup {"access"}
                ELSE stray

Crash(s) ==
    /\ s \notin Tasks /\ ~At(s, "idle") /\ Faulty /\ Dies(s)
    /\ UNCHANGED <<configuration, files, service, login>>

-----------------------------------------------------------------------------
(* The credential of Codex *)

(* connect_codex_with: the configuration lock is held during the login; an *)
(* agent that uses auth.json makes it give up.                             *)
BeginLogin(s) ==
    /\ Asks(s, {"codex"}) /\ lock = Nobody /\ Untouched(s)
    /\ lock' = s /\ Goes(s, "login")
    /\ UNCHANGED <<configuration, deployment, login, budget>>

Login(s) ==
    /\ At(s, "login") /\ login' = login + 1 /\ Goes(s, "logged_in")
    /\ UNCHANGED <<configuration, lock, deployment, budget>>

LoginFails(s) ==
    /\ session[s].pc \in {"login", "logged_in"} /\ Faulty
    /\ Release(s) /\ Ends(s, FALSE)
    /\ UNCHANGED <<configuration, deployment, login>>

SaveLogin(s) ==
    /\ At(s, "logged_in") /\ Unchanged(s) /\ saved' = [Mine(s) EXCEPT !.codex = login]
    /\ told' = [told EXCEPT !.codex = login]
    /\ Release(s) /\ Ends(s, TRUE)
    /\ UNCHANGED <<deployment, login, budget>>

-----------------------------------------------------------------------------
(* An instance that does not exist, or one of a repository in which all    *)
(* people are trusted: it runs or is stopped with what is saved, or it     *)
(* runs and was saved by an earlier version.                               *)
Starts(config, running) ==
    LET run == [up |-> TRUE, repositories |-> config.repositories, access |-> config.access]
    IN  /\ saved = config /\ told = config
        /\ service = IF running THEN [c \in Consumers |-> run] ELSE Stopped
        /\ files = Derived(config)

Setting ==
    /\ lock = Nobody /\ stray = {} /\ login = 0
    /\ session = [s \in Sessions |-> IdleSession]
    /\ budget = [commands |-> 0, faults |-> 0]

SetupInit ==
    /\ Setting
    /\ \/ /\ saved = NoConfig /\ told = NoConfig
          /\ service = Stopped /\ files = Derived(Fresh)
       \/ \E repository \in Repositories, running, legacy \in BOOLEAN :
            /\ legacy => running
            /\ Starts([Fresh EXCEPT !.repositories = {repository}, !.legacy = legacy,
                                    !.access = Of(Grants, {repository})], running)

SessionStep(s) ==
    \/ CommandLine(s) \/ OpenNothing(s) \/ GiveUp(s)
    \/ Initialize(s) \/ SaveSetting(s) \/ SavePlugin(s) \/ SaveConnection(s) \/ SaveRepositories(s)
    \/ SaveAccess(s) \/ SaveAccessUnseen(s)
    \/ Start(s) \/ Apply(s) \/ StopConsumers(s) \/ WriteFiles(s) \/ UpApi(s) \/ UpWorker(s)
    \/ MarkApplied(s) \/ DockerFails(s) \/ CleanUp(s) \/ StopStack(s) \/ Crash(s)
    \/ BeginLogin(s) \/ Login(s) \/ LoginFails(s) \/ SaveLogin(s)
SetupNext == \E s \in Sessions : SessionStep(s)

=============================================================================
