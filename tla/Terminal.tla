------------------------------- MODULE Terminal -------------------------------
(***************************************************************************)
(* The terminal interface (tui.rs) over the commands of Setup: keys start  *)
(* tasks, which open the configuration on their own and report by a        *)
(* channel, in any order; Manage repositories edits a selection that was   *)
(* loaded some time ago.                                                   *)
(***************************************************************************)
EXTENDS Setup

VARIABLES screen,         \* "home" or "manage": the selection of repositories
          busy,           \* a foreground operation is shown; keys are ignored
          selection       \* what was saved when it was loaded, what is chosen, asked to confirm

display == <<screen, busy, selection>>
terminalVars == <<setupVars, display>>

NoSelection == [original |-> {}, chosen |-> {}, confirm |-> FALSE]
Removed == selection.original \ selection.chosen

-----------------------------------------------------------------------------
(* Keys *)

Spawn(task, request) ==
    /\ At(task, "idle")
    /\ session' = [session EXCEPT ![task] = [IdleSession EXCEPT !.pc = "spawned", !.request = request]]
    /\ UNCHANGED <<configuration, lock, deployment, login>>

Key(on) == ~busy /\ screen = on /\ saved # NoConfig

(* The home screen, and the screens that ask for one operation each. *)
HomeKeys == {"start", "down"}
SettingKeys == {"settings"}
PluginKeys == {"settings", "facade"}
AccessKeys == Access
ConnectKeys == {"connect"}
CodexKeys == {"codex"}

PressOperation(task) ==
    /\ Key("home") /\ Command /\ busy' = TRUE
    /\ \E request \in Requests(saved) :
         /\ request.kind \in HomeKeys \cup SettingKeys \cup PluginKeys \cup AccessKeys
                            \cup ConnectKeys \cup CodexKeys
         /\ Spawn(task, request)
    /\ UNCHANGED <<screen, selection>>

PressManage(task) ==
    /\ Key("home") /\ busy' = TRUE
    /\ Spawn(task, [Plain EXCEPT !.kind = "load"])
    /\ UNCHANGED <<screen, selection, budget>>

(* The status refreshed in the background of the home screen reports like  *)
(* a task, and ends whatever operation is shown.                           *)
ReceiveStatus ==
    /\ busy /\ busy' = FALSE
    /\ UNCHANGED <<setupVars, screen, selection>>

Toggle(repository) ==
    /\ Key("manage")
    /\ selection' = [selection EXCEPT !.confirm = FALSE,
           !.chosen = IF repository \in @ THEN @ \ {repository} ELSE @ \cup {repository}]
    /\ UNCHANGED <<setupVars, screen, busy>>

(* Enter asks before it removes; only `y` after the question saves. *)
\* Mutant of AsksFirst: a second Enter is as good as `y`.
AsksOnce == Removed # {} /\ ~selection.confirm
AsksFirst == Removed # {}

SavesSelection(task, confirmed) ==
    /\ selection.chosen # {} /\ Command /\ busy' = TRUE
    /\ Spawn(task, [Plain EXCEPT !.kind = "repositories", !.repositories = selection.chosen,
                        !.original = selection.original, !.confirmed = confirmed])
    /\ UNCHANGED <<screen, selection>>

PressEnter(task) ==
    /\ Key("manage") /\ selection.chosen # {}
    /\ IF AsksFirst
       THEN /\ selection' = [selection EXCEPT !.confirm = TRUE]
            /\ UNCHANGED <<setupVars, screen, busy>>
       ELSE SavesSelection(task, {})

PressYes(task) == Key("manage") /\ selection.confirm /\ SavesSelection(task, Removed)

PressEscape ==
    /\ Key("manage") /\ screen' = "home" /\ selection' = NoSelection
    /\ UNCHANGED <<setupVars, busy>>

-----------------------------------------------------------------------------
(* Tasks and their results *)

TaskOpens(task) ==
    /\ At(task, "spawned") /\ Open(task, Request(task))
    /\ UNCHANGED <<budget, display>>

TaskReads(task) ==
    /\ At(task, "opened") /\ Is(task, {"load"}) /\ Ends(task, TRUE)
    /\ UNCHANGED <<configuration, lock, deployment, login, budget, display>>

Reloaded == [original |-> saved.repositories, chosen |-> saved.repositories, confirm |-> FALSE]

(* apply_task_result *)
Receive(task) ==
    LET done == session[task]
        loaded == done.ok /\ Is(task, {"load"})
    IN  /\ At(task, "done") /\ session' = [session EXCEPT ![task] = IdleSession]
        /\ busy' = FALSE
        /\ screen' = IF loaded THEN "manage"
                     ELSE IF done.ok /\ ~Is(task, {"start", "down"}) THEN "home" ELSE screen
        /\ selection' = IF loaded THEN Reloaded
                        ELSE IF screen' = "home" THEN NoSelection ELSE selection
        /\ UNCHANGED <<configuration, lock, deployment, login, budget>>

-----------------------------------------------------------------------------
(* Leaving the terminal ends its tasks where they are; a new one starts.   *)
Quit ==
    /\ Faulty
    /\ session' = [s \in Sessions |-> IF s \in Tasks THEN IdleSession ELSE session[s]]
    /\ lock' = IF lock \in Tasks THEN Nobody ELSE lock
    /\ stray' = IF \E task \in Tasks : Is(task, Access) /\ session[task].pc \in {"write", "api"}
                THEN stray \cup {"access"} ELSE stray
    /\ screen' = "home" /\ busy' = FALSE /\ selection' = NoSelection
    /\ UNCHANGED <<configuration, files, service, login>>

Commands(s) == SessionStep(s) /\ UNCHANGED <<display>>
Keys(task) ==
    PressOperation(task) \/ PressManage(task) \/ PressEnter(task) \/ PressYes(task)

Init ==
    /\ SetupInit /\ screen = "home" /\ busy = FALSE /\ selection = NoSelection

Next ==
    \/ \E s \in Sessions : Commands(s)
    \/ \E task \in Tasks : Keys(task) \/ TaskOpens(task) \/ TaskReads(task) \/ Receive(task)
    \/ \E repository \in Repositories : Toggle(repository)
    \/ PressEscape \/ ReceiveStatus \/ Quit

Spec == Init /\ [][Next]_terminalVars

-----------------------------------------------------------------------------
(* Properties *)

Runs == [up : BOOLEAN, repositories : SUBSET Repositories, access : SUBSET Grants]

(* Every variable has its type, the lock is held only by a session in the  *)
(* middle of a command, and access is only of selected repositories.       *)
TypeOK ==
    /\ saved \in Configs \cup {NoConfig} /\ told \in Configs \cup {NoConfig}
    /\ saved # NoConfig => Of(saved.access, saved.repositories) = saved.access
    /\ lock \in Sessions \cup {Nobody} /\ stray \subseteq {"selection", "access"}
    /\ files.repositories \subseteq Repositories /\ files.access \subseteq Grants
    /\ service \in [Consumers -> Runs]
    /\ login \in Nat
    /\ lock # Nobody => session[lock].pc \notin {"idle", "spawned", "opened", "done"}
    /\ screen \in {"home", "manage"} /\ busy \in BOOLEAN
    /\ selection.original \subseteq Repositories /\ selection.chosen \subseteq Repositories
    /\ DOMAIN session = Sessions

(* The saved configuration is the outcome of all accepted edits, one after *)
(* another: of two people or terminals that edit at once, neither takes    *)
(* back what the other was told is saved, and a repository that returns    *)
(* has nobody it trusts.  (`init` of a directory that was empty when it    *)
(* started is an edit that asks for a fresh configuration.)                *)
NothingLost == saved = told

(* Unless repositories await their restart, what runs has the saved        *)
(* selection, and the API the saved access, outside the restart of an      *)
(* access edit.  Not guarded: a new connection, an upgrade, a failed or    *)
(* unseen restart, and files an unlocked command wrote at the last moment. *)
RunsWhatIsSaved ==
    saved # NoConfig /\ ~saved.awaits =>
        /\ "selection" \notin stray =>
             \A c \in Consumers : Running(c) => service[c].repositories = saved.repositories
        /\ "access" \notin stray /\ ~(lock # Nobody /\ Is(lock, Access)) =>
             (Running("api") => service["api"].access = saved.access)

(* The API and the worker never run different selections, not even while   *)
(* one of them was started and the other is about to be.                   *)
ConsumersAgree ==
    "selection" \notin stray /\ (\A c \in Consumers : Running(c)) =>
        service["api"].repositories = service["worker"].repositories

(* A repository leaves the selection only when a person was asked about    *)
(* this very repository and said yes, or connected anew.                   *)
RemovesConfirmed ==
    saved # NoConfig /\ saved' # NoConfig =>
        \A r \in saved.repositories \ saved'.repositories :
            \E s \in Sessions :
                /\ session'[s] # session[s]
                /\ (Is(s, {"connect", "init"}) \/ r \in Request(s).confirmed)
RemovalConfirmed == [][RemovesConfirmed]_terminalVars

=============================================================================
