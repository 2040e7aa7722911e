---------------------------- MODULE Terminal_proofs ----------------------------
(***************************************************************************)
(* What holds of Terminal, and of the commands of Setup it drives, for     *)
(* every number of command lines, tasks, repositories and people.  The     *)
(* inductive invariant IInv says who holds the lock and that nobody else   *)
(* saves meanwhile (LockOK), what a session may have in hand (Fits), and   *)
(* how far the holder got in bringing the services to the saved            *)
(* configuration (HolderOK).                                               *)
(***************************************************************************)
EXTENDS Terminal, TLAPS

Operations == {"settings", "facade", "config", "start", "down", "codex", "connect", "apply"}
Kinds == Operations \cup Access \cup {"none", "init", "load", "repositories"}
RequestRecords ==
    [kind : Kinds, repositories : SUBSET Repositories, grant : Grants \cup {Nobody},
     original : SUBSET Repositories, confirmed : SUBSET Repositories]
Places == {"idle", "spawned", "opened", "done", "stop", "write", "api", "worker", "mark",
           "cleanup", "login", "logged_in"}
SessionRecords ==
    [pc : Places, mine : Configs \cup {NoConfig}, request : RequestRecords, ok : BOOLEAN]

\* What a person may ask for, before and after the configuration was opened.
Asked(request) ==
    /\ request \in RequestRecords /\ request.kind \notin {"none", "init"}
    /\ request.kind = "repositories" => request.original \ request.repositories \subseteq request.confirmed
    /\ request.kind \in Access => request.grant \in Grants

\* Where each kind of command can be.
Place(pc, kind) ==
    /\ pc \in {"stop", "cleanup"} => kind = "apply"
    /\ pc = "write" => kind \in {"facade", "start", "apply"} \cup Access
    /\ pc = "api" => kind \in {"start", "apply"} \cup Access
    /\ pc \in {"worker", "mark"} => kind \in {"start", "apply"}
    /\ pc \in {"login", "logged_in"} => kind = "codex"
Fits(x) ==
    /\ x \in SessionRecords /\ Place(x.pc, x.request.kind)
    /\ \/ x.pc \in {"idle", "done"} /\ x.mine = NoConfig
       \/ x.pc = "spawned" /\ Asked(x.request) /\ x.mine = NoConfig
       \/ x.pc = "opened" /\ x.request.kind = "init" /\ x.mine = NoConfig
       \/ x.pc \notin {"idle", "done", "spawned"} /\ Asked(x.request) /\ x.mine \in Configs
    /\ x.pc = "opened" /\ x.request.kind = "repositories" => x.request.original = x.mine.repositories
SessionsOK == session \in [Sessions -> SessionRecords] /\ \A s \in Sessions : Fits(session[s])

ConfigOK ==
    /\ saved \in Configs \cup {NoConfig} /\ told = saved /\ login \in Nat
    /\ saved # NoConfig => Of(saved.access, saved.repositories) = saved.access
    /\ saved = NoConfig => \A s \in Sessions : session[s].pc = "idle" \/ Is(s, {"init"})
    /\ \A s \in Sessions : Is(s, {"init"}) => s \notin Tasks /\ session[s].pc = "opened"

\* A session in the middle of a command holds the lock, and nobody saves meanwhile.
Holding(x) == x.pc \in {"stop", "api", "worker", "mark", "cleanup", "login", "logged_in"}
              \/ (x.pc = "write" /\ x.request.kind # "facade")
LockOK ==
    /\ lock \in Sessions \cup {Nobody}
    /\ \A s \in Sessions : Holding(session[s]) <=> lock = s
    /\ lock # Nobody => saved \in Configs /\ session[lock].mine = saved

\* The environment, the policy and the services.
DeploymentOK ==
    /\ files \in [repositories : SUBSET Repositories, access : SUBSET Grants]
    /\ service \in [Consumers -> Runs]
    /\ stray \subseteq {"selection", "access"} /\ ("selection" \in stray => "access" \in stray)

\* An application, or a start with a new selection: nothing runs that it did not start.
Cold == Is(lock, {"apply"}) \/ (Is(lock, {"start"}) /\ saved.awaits)
SameSelection(c) == "selection" \notin stray /\ Running(c) => service[c].repositories = saved.repositories
SameAccess == "access" \notin stray /\ Running("api") => service["api"].access = saved.access
HolderOK ==
    lock # Nobody =>
        /\ session[lock].pc \in Consumers /\ "selection" \notin stray => files = Derived(saved)
        /\ Cold /\ session[lock].pc \in {"write", "api"} => \A c \in Consumers : ~Running(c)
        /\ Cold /\ session[lock].pc = "worker" => ~Running("worker")
        /\ session[lock].pc \in {"worker", "mark"} => SameSelection("api") /\ SameAccess
        /\ session[lock].pc = "mark" => SameSelection("worker")
        /\ Is(lock, Access) => ~saved.awaits

DisplayOK ==
    /\ screen \in {"home", "manage"} /\ busy \in BOOLEAN
    /\ selection \in [original : SUBSET Repositories, chosen : SUBSET Repositories, confirm : BOOLEAN]

IInv ==
    /\ SessionsOK /\ ConfigOK /\ LockOK /\ DeploymentOK /\ HolderOK /\ DisplayOK
    /\ RunsWhatIsSaved /\ ConsumersAgree

-----------------------------------------------------------------------------
(* Sessions *)

\* A step of one session, as the lock sees it.
LockStep(s, q) ==
    \/ ~Holding(session[s]) /\ ~Holding(q) /\ lock' = lock /\ (lock = Nobody \/ saved' = saved)
    \/ lock = Nobody /\ lock' = s /\ Holding(q) /\ q.mine = saved' /\ saved' \in Configs
    \/ lock = s /\ lock' = s /\ Holding(q) /\ q.mine = session[s].mine /\ saved' = saved
    \/ lock = s /\ lock' = Nobody /\ ~Holding(q)
Moves(s, q) ==
    /\ session' = [session EXCEPT ![s] = q] /\ Fits(q)
    /\ q.request.kind = "init" => s \notin Tasks /\ q.pc = "opened"
    /\ LockStep(s, q)

LEMMA PlainFits ==
  /\ Fits(IdleSession) /\ ~Holding(IdleSession) /\ IdleSession.pc = "idle"
  /\ IdleSession.request.kind = "none" /\ IdleSession \in SessionRecords
  /\ Plain \in RequestRecords
<1>1. Plain \in RequestRecords /\ Plain.kind = "none"
  BY DEF Plain, RequestRecords, Kinds
<1>2. IdleSession \in SessionRecords
  BY <1>1 DEF IdleSession, SessionRecords, Places
<1> QED
  BY <1>1, <1>2 DEF Fits, Holding, IdleSession, Place

(* A session that ends is idle, or reports to the terminal. *)
LEMMA EndFits ==
  ASSUME NEW request \in RequestRecords, NEW ok \in BOOLEAN, NEW q,
         q = IdleSession \/ (q = Report(request, ok) /\ request.kind # "init")
  PROVE  Fits(q) /\ ~Holding(q) /\ q.pc \in {"idle", "done"} /\ q.request.kind # "init"
<1>1. CASE q = IdleSession
  BY <1>1, PlainFits
<1>2. CASE q # IdleSession
  <2> PICK kind : kind = request.kind
    OBVIOUS
  <2>1. kind \in Kinds /\ kind # "init"
    BY <1>2 DEF RequestRecords
  <2> DEFINE r == [Plain EXCEPT !.kind = kind]
  <2>2. r \in RequestRecords /\ r.kind = kind
    BY <2>1, PlainFits DEF RequestRecords
  <2>3. q = [pc |-> "done", mine |-> NoConfig, request |-> r, ok |-> ok]
    BY <1>2 DEF Report, IdleSession
  <2> HIDE DEF r
  <2> QED
    BY <2>1, <2>2, <2>3 DEF Fits, Holding, SessionRecords, Places, Place
<1> QED
  BY <1>1, <1>2

LEMMA RequestsAsked ==
  ASSUME NEW config \in Configs, NEW request \in Requests(config)
  PROVE  /\ Asked(request) /\ request.original = config.repositories /\ request.kind # "load"
         /\ MadeFrom(request, config)
<1>1. config.repositories \in SUBSET Repositories
  BY DEF Configs
<1>2. ASSUME NEW kind \in Kinds
      PROVE  /\ Asking(config, kind) \in RequestRecords /\ Asking(config, kind).kind = kind
             /\ Asking(config, kind).original = config.repositories
  BY <1>1, PlainFits DEF RequestRecords, Asking
<1>3. ASSUME NEW kind \in Operations, request = Asking(config, kind)
             \/ \E chosen \in SUBSET Repositories :
                   request = [Asking(config, kind) EXCEPT !.repositories = chosen]
      PROVE  Asked(request) /\ request.original = config.repositories /\ request.kind = kind
  BY <1>2, <1>3 DEF Asked, RequestRecords, Kinds, Operations, Access
<1>4. ASSUME NEW kind \in Access, NEW g \in Of(Grants, config.repositories),
             request = [Asking(config, kind) EXCEPT !.grant = g]
      PROVE  Asked(request) /\ request.original = config.repositories /\ request.kind = kind
  BY <1>2, <1>4 DEF Asked, RequestRecords, Kinds, Of, Access
<1>5. ASSUME NEW chosen \in SUBSET Repositories, NEW confirmed \in SUBSET Repositories,
             config.repositories \ chosen \subseteq confirmed,
             request = Selection(config, chosen, confirmed)
      PROVE  Asked(request) /\ request.original = config.repositories /\ request.kind = "repositories"
  <2> PICK x : x = Asking(config, "repositories")
    OBVIOUS
  <2>1. x \in RequestRecords /\ x.kind = "repositories" /\ x.original = config.repositories
    BY <1>2 DEF Kinds
  <2>2. request = [x EXCEPT !.repositories = chosen, !.confirmed = confirmed]
    BY <1>5 DEF Selection
  <2>3. /\ request \in RequestRecords /\ request.kind = "repositories"
        /\ request.original = config.repositories /\ request.repositories = chosen
        /\ request.confirmed = confirmed
    BY <1>5, <2>1, <2>2 DEF RequestRecords
  <2> QED
    BY <1>5, <2>3 DEF Asked, Access
<1>6. \/ \E kind \in {"settings", "facade", "config", "start", "down", "codex"} :
            request = Asking(config, kind)
      \/ \E chosen \in (SUBSET Repositories) \ {{}} :
            request = [Asking(config, "connect") EXCEPT !.repositories = chosen]
      \/ \E g \in Of(Grants, config.repositories) : request = [Asking(config, "grant") EXCEPT !.grant = g]
      \/ \E g \in Of(Grants, config.repositories) : request = [Asking(config, "revoke") EXCEPT !.grant = g]
      \/ \E r \in config.repositories : request = Selection(config, config.repositories \ {r}, {r})
      \/ request = Asking(config, "apply")
      \/ \E r \in Repositories \ config.repositories :
            request = Selection(config, config.repositories \cup {r}, {})
  BY DEF Requests
<1>7. CASE \/ \E kind \in {"settings", "facade", "config", "start", "down", "codex"} :
                request = Asking(config, kind)
           \/ \E chosen \in (SUBSET Repositories) \ {{}} :
                request = [Asking(config, "connect") EXCEPT !.repositories = chosen]
           \/ request = Asking(config, "apply")
  BY <1>3, <1>7 DEF Operations, MadeFrom
<1>8. CASE \E g \in Of(Grants, config.repositories) :
              \/ request = [Asking(config, "grant") EXCEPT !.grant = g]
              \/ request = [Asking(config, "revoke") EXCEPT !.grant = g]
  BY <1>4, <1>8 DEF Access, MadeFrom
<1>9. CASE \E r \in config.repositories : request = Selection(config, config.repositories \ {r}, {r})
  BY <1>1, <1>5, <1>9 DEF MadeFrom
<1>10. CASE \E r \in Repositories \ config.repositories :
              request = Selection(config, config.repositories \cup {r}, {})
  BY <1>1, <1>5, <1>10 DEF MadeFrom
<1> QED
  BY <1>6, <1>7, <1>8, <1>9, <1>10

LEMMA SessionIs ==
  ASSUME IInv, NEW s \in Sessions
  PROVE  /\ Fits(session[s]) /\ session[s] \in SessionRecords /\ Request(s) \in RequestRecords
         /\ session \in [Sessions -> SessionRecords] /\ s # Nobody
         /\ (Is(s, {"init"}) => s \notin Tasks) /\ (Holding(session[s]) <=> lock = s)
BY ConstantsAssumption DEF IInv, SessionsOK, ConfigOK, LockOK, Fits, SessionRecords, Request

LEMMA EndMoves ==
  ASSUME IInv, NEW s \in Sessions, NEW ok \in BOOLEAN, Ends(s, ok),
         \/ lock = s /\ Release(s)
         \/ ~Holding(session[s]) /\ lock' = lock /\ (lock = Nobody \/ saved' = saved)
  PROVE  \E q : Moves(s, q) /\ q.pc \in {"idle", "done"}
<1> PICK q : q = Outcome(s, ok)
  OBVIOUS
<1>1. q = IdleSession \/ (q = Report(Request(s), ok) /\ Request(s).kind # "init")
  BY SessionIs DEF Outcome, Is
<1>2. Fits(q) /\ ~Holding(q) /\ q.pc \in {"idle", "done"} /\ q.request.kind # "init"
  BY <1>1, SessionIs, EndFits
<1>3. LockStep(s, q)
  BY <1>2, SessionIs DEF LockStep, Release
<1> QED
  BY <1>2, <1>3 DEF Moves, Ends

LEMMA MigratedIs ==
  ASSUME NEW config \in Configs
  PROVE  /\ Migrated(config) \in Configs /\ (~config.legacy => Migrated(config) = config)
         /\ Migrated(config).repositories = config.repositories
         /\ Migrated(config).access = config.access /\ Migrated(config).awaits = config.awaits
BY DEF Migrated, Configs

LEMMA OpenMoves ==
  ASSUME IInv, NEW s \in Sessions, NEW request, Asked(request), Open(s, request),
         session[s].pc \in {"idle", "spawned"}
  PROVE  \E q : Moves(s, q) /\ q.pc \in {"opened", "done"}
<1>1. /\ saved \in Configs /\ saved' = Migrated(saved) /\ lock' = lock
      /\ saved.legacy => lock = Nobody
  BY DEF Open, IInv, ConfigOK
<1>2. /\ saved' \in Configs /\ (lock = Nobody \/ saved' = saved)
      /\ saved'.repositories = saved.repositories
  BY <1>1, MigratedIs
<1>3. ~Holding(session[s])
  BY DEF Holding
<1>4. request \in RequestRecords /\ request.kind # "init"
  BY DEF Asked
<1> PICK mine : mine = saved'
  OBVIOUS
<1>5. CASE MadeFrom(request, saved)
  <2> PICK q : q = [pc |-> "opened", mine |-> mine, request |-> request, ok |-> TRUE]
    OBVIOUS
  <2>1. Fits(q)
    <3>1. q \in SessionRecords
      BY <1>2, <1>4 DEF SessionRecords, Places
    <3> QED
      BY <1>2, <1>4, <1>5, <3>1 DEF Fits, MadeFrom, Place
  <2>2. /\ ~Holding(q) /\ session' = [session EXCEPT ![s] = q]
        /\ q.pc = "opened" /\ q.request = request
    BY <1>5 DEF Holding, Open
  <2> QED
    BY <1>1, <1>2, <1>3, <1>4, <2>1, <2>2 DEF Moves, LockStep
<1>6. CASE ~MadeFrom(request, saved)
  <2> PICK q : q = Report(request, FALSE)
    OBVIOUS
  <2>1. Fits(q) /\ ~Holding(q) /\ q.pc \in {"idle", "done"} /\ q.request.kind # "init"
    BY <1>4, EndFits
  <2>2. session' = [session EXCEPT ![s] = q] /\ q.pc = "done"
    BY <1>6, PlainFits DEF Open, Report, SessionRecords
  <2> QED
    BY <1>1, <1>2, <1>3, <2>1, <2>2 DEF Moves, LockStep
<1> QED
  BY <1>5, <1>6

(* A session that goes on keeps the lock, takes it, or needs none. *)
LEMMA ContinueMoves ==
  ASSUME IInv, NEW s \in Sessions, NEW pc \in Places \ {"idle", "done", "spawned", "opened"},
         session[s].pc \notin {"idle", "done", "spawned"}, ~Is(s, {"init"}),
         Place(pc, Request(s).kind), NEW new \in Configs, Continues(s, new, pc),
         \/ /\ ~(pc = "write" /\ Is(s, {"facade"})) /\ lock' = s
            /\ \/ lock = s /\ saved' = saved /\ new = Mine(s)
               \/ lock = Nobody /\ saved' = new
         \/ pc = "write" /\ Is(s, {"facade"}) /\ lock = Nobody /\ lock' = lock
  PROVE  \E q : Moves(s, q) /\ q.pc = pc /\ q.request = Request(s)
<1> PICK x : x = session[s]
  OBVIOUS
<1> PICK q : q = [x EXCEPT !.mine = new, !.pc = pc]
  OBVIOUS
<1>1. Fits(x) /\ x \in SessionRecords /\ session \in [Sessions -> SessionRecords] /\ s # Nobody
      /\ (Holding(x) <=> lock = s)
  BY SessionIs
<1>2. x.pc \notin {"idle", "done", "spawned"} /\ x.request.kind # "init" /\ Place(pc, x.request.kind)
  BY DEF Request, Is
<1>3. Fits(q) /\ q.pc = pc /\ q.request = x.request /\ q.mine = new
  <2>1. Asked(x.request)
    BY <1>1, <1>2 DEF Fits
  <2>2. q \in SessionRecords /\ q.pc = pc /\ q.request = x.request /\ q.mine = new
    BY <1>1 DEF SessionRecords
  <2> QED
    BY <1>2, <2>1, <2>2 DEF Fits
<1>4. session' = [session EXCEPT ![s] = q]
  BY <1>1 DEF Continues, SessionRecords
<1>5. Holding(q) <=> ~(pc = "write" /\ Is(s, {"facade"}))
  BY <1>3 DEF Holding, Request, Places, Is
<1>6. LockStep(s, q)
  BY <1>1, <1>3, <1>5 DEF LockStep, Mine
<1> QED
  BY <1>2, <1>3, <1>4, <1>6 DEF Moves, Request

LEMMA GoMoves ==
  ASSUME IInv, NEW s \in Sessions, NEW pc \in Places \ {"idle", "done", "spawned", "opened"},
         session[s].pc \notin {"idle", "done", "spawned"}, ~Is(s, {"init"}),
         Place(pc, Request(s).kind), Goes(s, pc), saved' = saved, lock' = s,
         lock = s \/ (lock = Nobody /\ Mine(s) = saved), ~(pc = "write" /\ Is(s, {"facade"}))
  PROVE  \E q : Moves(s, q) /\ q.pc = pc /\ q.request = Request(s)
<1>1. /\ session \in [Sessions -> SessionRecords] /\ session[s] \in SessionRecords
      /\ Fits(session[s])
  BY SessionIs
<1>2. Mine(s) \in Configs
  BY <1>1 DEF Fits, Mine, Is, Request
<1>3. Continues(s, Mine(s), pc)
  BY <1>1 DEF Continues, Goes, Mine, SessionRecords
<1> QED
  BY <1>2, <1>3, ContinueMoves

-----------------------------------------------------------------------------
(* Configurations *)

Sound(config) == config \in Configs /\ Of(config.access, config.repositories) = config.access
ConfigStep(q) ==
    /\ told' = saved' /\ login' \in Nat
    /\ Sound(saved') \/ (saved = NoConfig /\ saved' = NoConfig /\ (q.pc = "idle" \/ q.request.kind = "init"))

LEMMA HasConfig ==
  ASSUME IInv, NEW s \in Sessions, ~At(s, "idle"), ~Is(s, {"init"})
  PROVE  Sound(saved) /\ saved # NoConfig /\ told = saved /\ login \in Nat
BY ConstantsAssumption DEF IInv, ConfigOK, At, Sound

LEMMA InHand ==
  ASSUME IInv, NEW s \in Sessions, session[s].pc \notin {"idle", "done", "spawned"}, ~Is(s, {"init"})
  PROVE  /\ Mine(s) \in Configs /\ Asked(Request(s)) /\ Place(session[s].pc, Request(s).kind)
         /\ Sound(saved) /\ saved # NoConfig /\ told = saved /\ login \in Nat
         /\ Unchanged(s) => Mine(s) = saved
         /\ lock = s => Mine(s) = saved
<1>1. Fits(session[s]) /\ s # Nobody
  BY SessionIs
<1>2. Mine(s) \in Configs /\ Asked(Request(s)) /\ Place(session[s].pc, Request(s).kind)
  BY <1>1 DEF Fits, Mine, Request, Is
<1>3. Sound(saved) /\ saved # NoConfig /\ told = saved /\ login \in Nat
  BY HasConfig DEF At
<1> QED
  BY <1>1, <1>2, <1>3, ConstantsAssumption DEF Unchanged, IInv, LockOK, Mine

LEMMA Edits ==
  ASSUME NEW config, Sound(config)
  PROVE  /\ Sound([config EXCEPT !.settings = @ + 1])
         /\ \A awaits \in BOOLEAN : Sound([config EXCEPT !.awaits = awaits])
         /\ \A codex \in Nat : Sound([config EXCEPT !.codex = codex])
         /\ Sound(Migrated(config))
<1>1. [config EXCEPT !.settings = @ + 1] \in Configs
  BY DEF Sound, Configs
<1>2. ASSUME NEW awaits \in BOOLEAN
      PROVE  [config EXCEPT !.awaits = awaits] \in Configs
  BY DEF Sound, Configs
<1>3. ASSUME NEW codex \in Nat
      PROVE  [config EXCEPT !.codex = codex] \in Configs
  BY DEF Sound, Configs
<1>4. Sound(Migrated(config))
  BY MigratedIs DEF Sound
<1> QED
  BY <1>1, <1>2, <1>3, <1>4 DEF Sound, Configs

LEMMA SelectingIs ==
  ASSUME NEW config, Sound(config), NEW chosen \in SUBSET Repositories
  PROVE  /\ Sound(Selecting(config, chosen)) /\ Selecting(config, chosen).repositories = chosen
         /\ Selecting(config, chosen) = [config EXCEPT !.repositories = chosen, !.access = Of(@, chosen)]
<1> PICK access : access = Of(config.access, chosen)
  OBVIOUS
<1>1. config \in Configs /\ access \in SUBSET Grants /\ Of(access, chosen) = access
  BY DEF Sound, Configs, Of
<1> PICK new : new = [config EXCEPT !.repositories = chosen, !.access = access]
  OBVIOUS
<1>2. new \in Configs /\ new.repositories = chosen /\ new.access = access
  BY <1>1 DEF Configs
<1>3. Selecting(config, chosen) = new
  BY DEF Selecting
<1> QED
  BY <1>1, <1>2, <1>3 DEF Sound, Selecting

LEMMA TrustingIs ==
  ASSUME NEW config, Sound(config), NEW request, request.grant \in Grants,
         request.grant.repository \in config.repositories
  PROVE  Sound([config EXCEPT !.access = Trusting(@, request)])
<1> PICK access : access = Trusting(config.access, request)
  OBVIOUS
<1>1. config \in Configs /\ access \in SUBSET Grants /\ Of(access, config.repositories) = access
  BY DEF Sound, Configs, Of, Trusting
<1> PICK new : new = [config EXCEPT !.access = access]
  OBVIOUS
<1>2. new \in Configs /\ new.repositories = config.repositories /\ new.access = access
  BY <1>1 DEF Configs
<1> QED
  BY <1>1, <1>2 DEF Sound

LEMMA FreshIs == Sound(Fresh) /\ Fresh.repositories = {} /\ Fresh.access = {}
BY DEF Fresh, Sound, Configs, Of

-----------------------------------------------------------------------------
(* Every step of a session is a move, and leaves a configuration that is   *)
(* what was asked for.                                                     *)

Stepped(s) == \E q : Moves(s, q) /\ ConfigStep(q)

LEMMA KeptConfig ==
  ASSUME IInv, NEW s \in Sessions, UNCHANGED configuration, login' \in Nat,
         \/ ~At(s, "idle") /\ ~Is(s, {"init"}) /\ \E q : Moves(s, q)
         \/ \E q : Moves(s, q) /\ (q.pc = "idle" \/ q.request.kind = "init")
  PROVE  Stepped(s)
BY HasConfig DEF Stepped, ConfigStep, configuration, IInv, ConfigOK, Sound

LEMMA Opening ==
  ASSUME IInv, NEW s \in Sessions, CommandLine(s) \/ OpenNothing(s)
  PROVE  Stepped(s)
<1>1. CASE CommandLine(s)
  <2>1. PICK request \in Requests(saved) : Open(s, request)
    BY <1>1 DEF CommandLine
  <2>2. Sound(saved) /\ session[s].pc = "idle" /\ told = saved /\ login \in Nat
    BY <1>1 DEF CommandLine, At, IInv, ConfigOK, Sound
  <2>3. Asked(request)
    BY <2>2, RequestsAsked DEF Sound
  <2>4. PICK q : Moves(s, q)
    BY <2>1, <2>2, <2>3, OpenMoves
  <2>5. saved' = Migrated(saved) /\ told' = saved' /\ login' = login
    BY <2>1, <2>2 DEF Open
  <2> QED
    BY <2>2, <2>4, <2>5, Edits DEF Stepped, ConfigStep
<1>2. CASE OpenNothing(s)
  <2> PICK r : r = [Plain EXCEPT !.kind = "init"]
    OBVIOUS
  <2>1. r \in RequestRecords /\ r.kind = "init"
    BY PlainFits DEF RequestRecords, Kinds
  <2> PICK q : q = [IdleSession EXCEPT !.pc = "opened", !.request = r]
    OBVIOUS
  <2>2. Fits(q) /\ ~Holding(q) /\ q.pc = "opened" /\ q.request.kind = "init"
    <3>1. IdleSession \in SessionRecords /\ IdleSession.mine = NoConfig
      BY PlainFits DEF IdleSession
    <3>2. q \in SessionRecords /\ q.pc = "opened" /\ q.request = r /\ q.mine = NoConfig
      BY <2>1, <3>1 DEF SessionRecords, Places
    <3> QED
      BY <2>1, <3>2 DEF Fits, Place, Holding
  <2>3. session' = [session EXCEPT ![s] = q] /\ s \notin Tasks /\ lock' = lock /\ saved' = saved
    BY <1>2 DEF OpenNothing, configuration
  <2>4. ~Holding(session[s])
    BY <1>2 DEF OpenNothing, At, Holding
  <2>5. Moves(s, q)
    BY <2>2, <2>3, <2>4 DEF Moves, LockStep
  <2>6. UNCHANGED <<configuration, login>> /\ login \in Nat
    BY <1>2 DEF OpenNothing, IInv, ConfigOK
  <2> QED
    BY <2>2, <2>5, <2>6, KeptConfig
<1> QED
  BY <1>1, <1>2

LEMMA GivingUp ==
  ASSUME IInv, NEW s \in Sessions, GiveUp(s)
  PROVE  Stepped(s)
<1>1. ~Holding(session[s]) /\ lock' = lock /\ saved' = saved /\ ~At(s, "idle")
  BY DEF GiveUp, At, Holding, configuration
<1>2. PICK q : Moves(s, q) /\ q.pc \in {"idle", "done"}
  BY <1>1, EndMoves DEF GiveUp
<1>3. Is(s, {"init"}) => q.pc = "idle"
  <2> HAVE Is(s, {"init"})
  <2>1. session'[s] = IdleSession /\ session'[s] = q
    BY <1>2, SessionIs DEF GiveUp, Ends, Outcome, Moves
  <2> QED
    BY <2>1, PlainFits
<1>4. UNCHANGED configuration /\ login' \in Nat
  BY DEF GiveUp, IInv, ConfigOK
<1> QED
  BY <1>1, <1>2, <1>3, <1>4, KeptConfig

(* A session that has the saved configuration in hand saves an edit of it. *)
LEMMA Saving ==
  ASSUME IInv, NEW s \in Sessions, ~Is(s, {"init"}),
         SaveSetting(s) \/ SaveConnection(s) \/ SaveRepositories(s) \/ SaveAccess(s)
         \/ SaveAccessUnseen(s) \/ Apply(s) \/ SavePlugin(s)
  PROVE  /\ At(s, "opened") /\ Mine(s) = saved /\ Sound(saved) /\ told = saved /\ login \in Nat
         /\ Asked(Request(s)) /\ lock = Nobody /\ ~Holding(session[s])
<1>1. At(s, "opened") /\ lock = Nobody /\ Unchanged(s)
  BY DEF SaveSetting, SaveConnection, SaveRepositories, SaveAccess, SaveAccessUnseen, Apply,
         SavePlugin, Asks, Saves
<1> QED
  BY <1>1, InHand DEF At, Holding

LEMMA SettingSaved ==
  ASSUME IInv, NEW s \in Sessions, SaveSetting(s) \/ SavePlugin(s)
  PROVE  Stepped(s)
<1>1. ~Is(s, {"init"}) /\ Is(s, {"settings", "facade"})
  BY DEF SaveSetting, SavePlugin, Asks, Is
<1>2. /\ At(s, "opened") /\ Mine(s) = saved /\ Sound(saved) /\ told = saved /\ login \in Nat
      /\ Asked(Request(s)) /\ lock = Nobody /\ ~Holding(session[s])
  BY <1>1, Saving
<1> PICK new : new = [saved EXCEPT !.settings = @ + 1]
  OBVIOUS
<1>3. /\ Sound(new) /\ saved' = new /\ told' = new /\ login' = login /\ lock' = lock
      /\ new.repositories = saved.repositories
  BY <1>2, Edits DEF SaveSetting, SavePlugin, Saves, Sound, Configs
<1>4. CASE SaveSetting(s) /\ Ends(s, TRUE)
  BY <1>2, <1>3, <1>4, EndMoves DEF Stepped, ConfigStep
<1>5. CASE SaveSetting(s) /\ ~Ends(s, TRUE)
  <2>1. Continues(s, new, "write") /\ Is(s, {"facade"})
    BY <1>1, <1>2, <1>5 DEF SaveSetting, Is
  <2>2. \E q : Moves(s, q)
    <3>1. "write" \in Places \ {"idle", "done", "spawned", "opened"} /\ Place("write", Request(s).kind)
      BY <2>1 DEF Place, Places, Is
    <3> QED
      BY <1>1, <1>2, <1>3, <2>1, <3>1, ContinueMoves DEF At, Sound
  <2> QED
    BY <1>2, <1>3, <2>2 DEF Stepped, ConfigStep
<1>6. CASE SavePlugin(s)
  <2> PICK x : x = session[s]
    OBVIOUS
  <2> PICK r : r = [x.request EXCEPT !.kind = "facade"]
    OBVIOUS
  <2> PICK q : q = [x EXCEPT !.mine = new, !.request = r]
    OBVIOUS
  <2>1. x \in SessionRecords /\ Asked(x.request) /\ x.pc = "opened" /\ session \in [Sessions -> SessionRecords]
    BY <1>2, SessionIs DEF At, Request
  <2>2. Asked(r) /\ r.kind = "facade"
    BY <2>1 DEF Asked, RequestRecords, Kinds, Operations, Access
  <2>3. q \in SessionRecords /\ q.pc = "opened" /\ q.request = r /\ q.mine = new
    BY <1>3, <2>1, <2>2 DEF SessionRecords, Asked, Sound
  <2>4. Fits(q) /\ ~Holding(q)
    BY <1>3, <2>2, <2>3 DEF Fits, Holding, Place, Sound
  <2>5. session' = [session EXCEPT ![s] = q]
    BY <1>2, <1>6, <2>1 DEF SavePlugin, SessionRecords
  <2>6. Moves(s, q)
    BY <1>2, <1>3, <2>2, <2>3, <2>4, <2>5 DEF Moves, LockStep
  <2> QED
    BY <1>2, <1>3, <2>6 DEF Stepped, ConfigStep
<1> QED
  BY <1>4, <1>5, <1>6

LEMMA SelectionSaved ==
  ASSUME IInv, NEW s \in Sessions, SaveConnection(s) \/ SaveRepositories(s)
  PROVE  Stepped(s)
<1>1. ~Is(s, {"init"})
  BY DEF SaveConnection, SaveRepositories, Asks, Is
<1>2. /\ Mine(s) = saved /\ Sound(saved) /\ told = saved /\ login \in Nat
      /\ Asked(Request(s)) /\ lock = Nobody /\ ~Holding(session[s])
  BY <1>1, Saving
<1> PICK chosen : chosen = Request(s).repositories
  OBVIOUS
<1>3. chosen \in SUBSET Repositories
  BY <1>2 DEF Asked, RequestRecords
<1> PICK new : new = Selecting(saved, chosen)
  OBVIOUS
<1>4. Sound(new) /\ new = [saved EXCEPT !.repositories = chosen, !.access = Of(@, chosen)]
  BY <1>2, <1>3, SelectingIs
<1>5. /\ lock' = lock /\ login' = login /\ Ends(s, TRUE)
      /\ \/ saved' = new /\ told' = new
         \/ saved' = [new EXCEPT !.awaits = TRUE] /\ told' = saved'
  <2>1. CASE SaveConnection(s)
    BY <1>2, <1>4, <2>1 DEF SaveConnection, Saves
  <2>2. CASE SaveRepositories(s)
    <3>1. saved' = [new EXCEPT !.awaits = TRUE]
      BY <1>2, <2>2 DEF SaveRepositories, Saves, Pending
    <3>2. told' = [saved EXCEPT !.repositories = chosen, !.access = Of(@, chosen), !.awaits = TRUE]
      BY <1>2, <2>2 DEF SaveRepositories
    <3>3. told' = saved'
      BY <1>2, <1>4, <3>1, <3>2 DEF Sound, Configs
    <3> QED
      BY <2>2, <3>1, <3>3 DEF SaveRepositories
  <2> QED
    BY <2>1, <2>2
<1>6. Sound(saved') /\ told' = saved'
  BY <1>4, <1>5, Edits
<1>7. \E q : Moves(s, q)
  BY <1>2, <1>5, EndMoves
<1> QED
  BY <1>2, <1>5, <1>6, <1>7 DEF Stepped, ConfigStep

LEMMA AccessSaved ==
  ASSUME IInv, NEW s \in Sessions, SaveAccess(s) \/ SaveAccessUnseen(s)
  PROVE  Stepped(s)
<1>1. ~Is(s, {"init"}) /\ Is(s, Access)
  BY DEF SaveAccess, SaveAccessUnseen, Asks, Is, Access
<1>2. /\ At(s, "opened") /\ Mine(s) = saved /\ Sound(saved) /\ told = saved /\ login \in Nat
      /\ Asked(Request(s)) /\ lock = Nobody /\ ~Holding(session[s])
  BY <1>1, Saving
<1> PICK new : new = [saved EXCEPT !.access = Trusting(@, Request(s))]
  OBVIOUS
<1>3. Sound(new)
  BY <1>1, <1>2, TrustingIs DEF SaveAccess, SaveAccessUnseen, Asked, Is
<1>4. saved' = new /\ told' = new /\ login' = login
  BY <1>2 DEF SaveAccess, SaveAccessUnseen, Saves
<1>5. CASE Ends(s, TRUE) /\ lock' = lock
  BY <1>2, <1>3, <1>4, <1>5, EndMoves DEF Stepped, ConfigStep
<1>6. CASE ~(Ends(s, TRUE) /\ lock' = lock)
  <2>1. Continues(s, new, "write") /\ lock' = s
    BY <1>2, <1>6 DEF SaveAccess, SaveAccessUnseen
  <2>2. /\ "write" \in Places \ {"idle", "done", "spawned", "opened"} /\ Place("write", Request(s).kind)
        /\ ~Is(s, {"facade"})
    BY <1>1 DEF Place, Places, Is, Access
  <2>3. \E q : Moves(s, q)
    BY <1>1, <1>2, <1>3, <1>4, <2>1, <2>2, ContinueMoves DEF At, Sound
  <2> QED
    BY <1>2, <1>3, <1>4, <2>3 DEF Stepped, ConfigStep
<1> QED
  BY <1>5, <1>6

LEMMA Initializing ==
  ASSUME IInv, NEW s \in Sessions, Initialize(s)
  PROVE  Stepped(s)
<1>1. ~Holding(session[s]) /\ lock = Nobody /\ lock' = lock /\ Ends(s, TRUE)
  BY DEF Initialize, Asks, At, Holding, Saves
<1>2. \E q : Moves(s, q)
  BY <1>1, EndMoves
<1>3. saved' = Fresh /\ told' = Fresh /\ login' = login /\ login \in Nat
  BY DEF Initialize, Saves, IInv, ConfigOK
<1> QED
  BY <1>2, <1>3, FreshIs DEF Stepped, ConfigStep

(* Where the holder of the lock is, its kind of command fits. *)
LEMMA Holder ==
  ASSUME IInv, NEW s \in Sessions,
         session[s].pc \in {"stop", "api", "worker", "mark", "cleanup", "login", "logged_in"}
         \/ (At(s, "write") /\ ~Is(s, {"facade"}))
  PROVE  /\ lock = s /\ ~Is(s, {"init"}) /\ ~At(s, "idle") /\ Mine(s) = saved /\ Sound(saved)
         /\ told = saved /\ login \in Nat /\ Place(session[s].pc, Request(s).kind)
         /\ s # Nobody
<1>1. lock = s /\ ~Is(s, {"init"}) /\ s # Nobody
  <2>1. Holding(session[s])
    BY DEF Holding, At, Is, Request
  <2> QED
    BY <2>1, SessionIs DEF IInv, ConfigOK, At
<1> QED
  BY <1>1, InHand DEF At

LEMMA Taking ==
  ASSUME IInv, NEW s \in Sessions, Start(s) \/ Apply(s) \/ BeginLogin(s)
  PROVE  Stepped(s)
<1>1. At(s, "opened") /\ Is(s, {"start", "apply", "codex"}) /\ ~Is(s, {"init"}) /\ lock = Nobody
  BY DEF Start, Apply, BeginLogin, Asks, Saves, Is
<1>2. /\ Mine(s) \in Configs /\ Sound(saved) /\ told = saved /\ login \in Nat
      /\ Unchanged(s) => Mine(s) = saved
  BY <1>1, InHand DEF At
<1>3. /\ {"write", "stop", "login"} \subseteq Places \ {"idle", "done", "spawned", "opened"}
      /\ Is(s, {"start"}) => Place("write", Request(s).kind)
      /\ Is(s, {"apply"}) => Place("stop", Request(s).kind)
      /\ Is(s, {"codex"}) => Place("login", Request(s).kind)
      /\ Is(s, {"start"}) => ~Is(s, {"facade"})
  BY DEF Place, Places, Is
<1>4. CASE Start(s)
  <2>1. \E q : Moves(s, q)
    BY <1>1, <1>3, <1>4, GoMoves DEF Start, At, Asks, Untouched, configuration
  <2> QED
    BY <1>1, <1>2, <1>4, <2>1, KeptConfig DEF Start, At
<1>5. CASE BeginLogin(s)
  <2>1. \E q : Moves(s, q)
    BY <1>1, <1>3, <1>5, GoMoves DEF BeginLogin, At, Asks, Untouched, configuration
  <2> QED
    BY <1>1, <1>2, <1>5, <2>1, KeptConfig DEF BeginLogin, At
<1>6. CASE Apply(s)
  <2> PICK new : new = [saved EXCEPT !.awaits = TRUE]
    OBVIOUS
  <2>1. Sound(new) /\ saved' = new /\ told' = new /\ login' = login /\ lock' = s
        /\ Continues(s, new, "stop")
    BY <1>2, <1>6, Edits DEF Apply, Saves
  <2>2. \E q : Moves(s, q)
    BY <1>1, <1>3, <1>6, <2>1, ContinueMoves DEF Apply, Asks, At, Sound
  <2> QED
    BY <1>2, <2>1, <2>2 DEF Stepped, ConfigStep
<1> QED
  BY <1>4, <1>5, <1>6

LEMMA Proceeding ==
  ASSUME IInv, NEW s \in Sessions,
         StopConsumers(s) \/ UpApi(s) \/ UpWorker(s) \/ DockerFails(s) \/ CleanUp(s) \/ Login(s)
         \/ LoginFails(s)
  PROVE  Stepped(s)
<1>1. session[s].pc \in {"stop", "api", "worker", "cleanup", "login", "logged_in"}
  BY DEF StopConsumers, UpApi, UpWorker, DockerFails, CleanUp, Login, LoginFails, At, Consumers
<1>2. /\ lock = s /\ ~Is(s, {"init"}) /\ ~At(s, "idle") /\ Mine(s) = saved /\ Sound(saved)
      /\ told = saved /\ login \in Nat /\ Place(session[s].pc, Request(s).kind) /\ s # Nobody
  BY <1>1, Holder
<1>3. UNCHANGED configuration /\ login' \in Nat
  <2>1. CASE Login(s)
    BY <1>2, <2>1 DEF Login
  <2>2. CASE StopConsumers(s) \/ UpApi(s) \/ UpWorker(s)
    BY <1>2, <2>2 DEF StopConsumers, UpApi, UpWorker
  <2>3. CASE DockerFails(s) \/ CleanUp(s) \/ LoginFails(s)
    BY <1>2, <2>3 DEF DockerFails, CleanUp, LoginFails
  <2> QED
    BY <2>1, <2>2, <2>3
<1>4. CASE \E ok \in BOOLEAN : Ends(s, ok) /\ Release(s)
  BY <1>2, <1>3, <1>4, EndMoves, KeptConfig
<1>5. ASSUME NEW pc \in {"write", "worker", "mark", "cleanup", "logged_in"}, Goes(s, pc), lock' = lock,
             Place(pc, Request(s).kind), ~(pc = "write" /\ Is(s, {"facade"}))
      PROVE  Stepped(s)
  <2>1. pc \in Places \ {"idle", "done", "spawned", "opened"}
    BY DEF Places
  <2>2. \E q : Moves(s, q)
    BY <1>1, <1>2, <1>3, <1>5, <2>1, GoMoves DEF configuration
  <2> QED
    BY <1>2, <1>3, <2>2, KeptConfig
<1>6. CASE StopConsumers(s)
  <2>1. Goes(s, "write") /\ lock' = lock /\ Place("write", Request(s).kind) /\ ~Is(s, {"facade"})
    BY <1>2, <1>6 DEF StopConsumers, Place, At, Is
  <2> QED
    BY <1>5, <2>1
<1>7. CASE UpApi(s)
  <2>1. CASE Is(s, Access)
    BY <1>4, <1>7, <2>1 DEF UpApi
  <2>2. CASE ~Is(s, Access)
    <3>1. Goes(s, "worker") /\ lock' = lock /\ Place("worker", Request(s).kind)
      BY <1>2, <1>7, <2>2 DEF UpApi, Place, At, Is
    <3> QED
      BY <1>5, <3>1
  <2> QED
    BY <2>1, <2>2
<1>8. CASE UpWorker(s)
  <2>1. Goes(s, "mark") /\ lock' = lock /\ Place("mark", Request(s).kind)
    BY <1>2, <1>8 DEF UpWorker, Place, At
  <2> QED
    BY <1>5, <2>1
<1>9. CASE DockerFails(s)
  <2>1. CASE Is(s, {"apply"}) /\ ~At(s, "stop")
    <3>1. Goes(s, "cleanup") /\ lock' = lock /\ Place("cleanup", Request(s).kind)
      BY <1>9, <2>1 DEF DockerFails, Place, Is
    <3> QED
      BY <1>5, <3>1
  <2> QED
    BY <1>4, <1>9, <2>1 DEF DockerFails
<1>10. CASE CleanUp(s)
  BY <1>4, <1>10 DEF CleanUp
<1>11. CASE Login(s)
  <2>1. Goes(s, "logged_in") /\ lock' = lock /\ Place("logged_in", Request(s).kind)
    BY <1>2, <1>11 DEF Login, Place, At
  <2> QED
    BY <1>5, <2>1
<1>12. CASE LoginFails(s)
  BY <1>4, <1>12 DEF LoginFails
<1> QED
  BY <1>6, <1>7, <1>8, <1>9, <1>10, <1>11, <1>12

LEMMA Marking ==
  ASSUME IInv, NEW s \in Sessions, MarkApplied(s) \/ SaveLogin(s)
  PROVE  Stepped(s)
<1>1. session[s].pc \in {"mark", "logged_in"}
  BY DEF MarkApplied, SaveLogin, At
<1>2. lock = s /\ Mine(s) = saved /\ Sound(saved) /\ told = saved /\ login \in Nat
  BY <1>1, Holder
<1>3. \E q : Moves(s, q)
  BY <1>2, EndMoves DEF MarkApplied, SaveLogin
<1>4. Sound(saved') /\ told' = saved' /\ login' = login
  <2>1. CASE MarkApplied(s)
    <3>1. /\ saved' = [saved EXCEPT !.awaits = FALSE] /\ told' = [saved EXCEPT !.awaits = FALSE]
          /\ login' = login
      BY <1>2, <2>1 DEF MarkApplied
    <3> QED
      BY <1>2, <3>1, Edits
  <2>2. CASE SaveLogin(s)
    <3>1. /\ saved' = [saved EXCEPT !.codex = login] /\ told' = [saved EXCEPT !.codex = login]
          /\ login' = login
      BY <1>2, <2>2 DEF SaveLogin
    <3> QED
      BY <1>2, <3>1, Edits
  <2> QED
    BY <2>1, <2>2
<1> QED
  BY <1>2, <1>3, <1>4 DEF Stepped, ConfigStep

LEMMA Writing ==
  ASSUME IInv, NEW s \in Sessions, WriteFiles(s) \/ StopStack(s)
  PROVE  Stepped(s)
<1>1. UNCHANGED <<configuration, lock, login>>
  BY DEF WriteFiles, StopStack
<1>2. session[s].pc \in {"write", "opened"} /\ ~Is(s, {"init"}) /\ ~At(s, "idle")
  <2>1. session[s].pc \in {"write", "opened"}
    BY DEF WriteFiles, StopStack, At, Asks
  <2>2. Is(s, {"init"}) => session[s].pc = "opened"
    BY DEF IInv, ConfigOK
  <2> QED
    BY <2>1, <2>2 DEF At, Asks, Is, WriteFiles, StopStack
<1>3. /\ Sound(saved) /\ login \in Nat /\ told = saved /\ Place(session[s].pc, Request(s).kind)
  BY <1>2, InHand
<1>4. CASE \E ok \in BOOLEAN : Ends(s, ok) /\ ~Holding(session[s])
  <2>1. \E q : Moves(s, q)
    BY <1>1, <1>4, EndMoves DEF configuration
  <2> QED
    BY <1>1, <1>2, <1>3, <2>1, KeptConfig
<1>5. CASE StopStack(s)
  BY <1>4, <1>5 DEF StopStack, Asks, At, Holding
<1>6. CASE WriteFiles(s) /\ Is(s, {"config", "facade"})
  <2>1. ~Holding(session[s])
    BY <1>2, <1>3, <1>6 DEF Holding, Is, Place, Request, Access
  <2> QED
    BY <1>4, <1>6, <2>1 DEF WriteFiles
<1>7. CASE WriteFiles(s) /\ ~Is(s, {"config", "facade"})
  <2>1. At(s, "write") /\ Goes(s, "api") /\ ~Is(s, {"facade"})
    BY <1>7 DEF WriteFiles, Asks, Is
  <2>2. lock = s
    BY <2>1, Holder
  <2>3. "api" \in Places \ {"idle", "done", "spawned", "opened"} /\ Place("api", Request(s).kind)
    BY <1>3, <2>1 DEF Places, Place, At, Is
  <2>4. \E q : Moves(s, q)
    BY <1>1, <1>2, <2>1, <2>2, <2>3, GoMoves DEF configuration
  <2> QED
    BY <1>1, <1>2, <1>3, <2>4, KeptConfig
<1> QED
  BY <1>5, <1>6, <1>7

LEMMA Crashing ==
  ASSUME IInv, NEW s \in Sessions, Crash(s)
  PROVE  Stepped(s)
<1>1. session' = [session EXCEPT ![s] = IdleSession] /\ Release(s) /\ UNCHANGED <<configuration, login>>
  BY DEF Crash, Dies
<1>2. LockStep(s, IdleSession)
  <2>1. Holding(session[s]) <=> lock = s
    BY SessionIs
  <2>2. lock # s => lock' = lock /\ saved' = saved
    BY <1>1 DEF Release, configuration
  <2>3. lock = s => lock' = Nobody
    BY <1>1 DEF Release
  <2> QED
    BY <2>1, <2>2, <2>3, PlainFits DEF LockStep
<1>3. Moves(s, IdleSession)
  BY <1>1, <1>2, PlainFits DEF Moves
<1> QED
  BY <1>1, <1>3, PlainFits, KeptConfig DEF IInv, ConfigOK

LEMMA SessionStepped ==
  ASSUME IInv, NEW s \in Sessions, SessionStep(s)
  PROVE  Stepped(s)
BY Opening, GivingUp, SettingSaved, SelectionSaved, AccessSaved, Initializing, Taking, Proceeding,
   Marking, Writing, Crashing DEF SessionStep

-----------------------------------------------------------------------------
(* What every step of a session preserves *)

LEMMA StepKeeps ==
  ASSUME IInv, NEW s \in Sessions, Stepped(s)
  PROVE  SessionsOK' /\ ConfigOK' /\ LockOK'
<1>1. PICK q : Moves(s, q) /\ ConfigStep(q)
  BY DEF Stepped
<1>2. /\ session \in [Sessions -> SessionRecords] /\ \A t \in Sessions : Fits(session[t])
      /\ q \in SessionRecords /\ session' = [session EXCEPT ![s] = q] /\ Fits(q)
      /\ q.request.kind = "init" => s \notin Tasks /\ q.pc = "opened"
      /\ LockStep(s, q) /\ s # Nobody
  BY <1>1, SessionIs DEF IInv, SessionsOK, Moves, Fits
<1>3. session' \in [Sessions -> SessionRecords] /\ \A t \in Sessions : session'[t] = IF t = s THEN q ELSE session[t]
  BY <1>2
<1>4. SessionsOK'
  BY <1>2, <1>3 DEF SessionsOK
<1>5. ConfigOK'
  <2>1. saved' \in Configs \cup {NoConfig} /\ told' = saved' /\ login' \in Nat
        /\ (saved' # NoConfig => Of(saved'.access, saved'.repositories) = saved'.access)
    BY <1>1 DEF ConfigStep, Sound
  <2>2. ASSUME saved' = NoConfig, NEW t \in Sessions
        PROVE  session'[t].pc = "idle" \/ session'[t].request.kind = "init"
    <3>1. saved = NoConfig /\ (q.pc = "idle" \/ q.request.kind = "init")
      BY <1>1, <2>2, ConstantsAssumption DEF ConfigStep, Sound
    <3>2. session[t].pc = "idle" \/ session[t].request.kind = "init"
      BY <3>1 DEF IInv, ConfigOK, Is, Request
    <3> QED
      BY <1>3, <3>1, <3>2
  <2>3. ASSUME NEW t \in Sessions, session'[t].request.kind = "init"
        PROVE  t \notin Tasks /\ session'[t].pc = "opened"
    BY <1>2, <1>3, <2>3 DEF IInv, ConfigOK, Is, Request
  <2> QED
    BY <2>1, <2>2, <2>3 DEF ConfigOK, Is, Request
<1>6. LockOK'
  <2>1. lock \in Sessions \cup {Nobody} /\ \A t \in Sessions : Holding(session[t]) <=> lock = t
    BY DEF IInv, LockOK
  <2>2. lock' \in Sessions \cup {Nobody}
    BY <1>2, <2>1 DEF LockStep
  <2>3. ASSUME NEW t \in Sessions
        PROVE  Holding(session'[t]) <=> lock' = t
    <3>1. CASE t = s
      BY <1>2, <1>3, <2>1, <3>1 DEF LockStep
    <3>2. CASE t # s
      BY <1>2, <1>3, <2>1, <3>2, SessionIs DEF LockStep
    <3> QED
      BY <3>1, <3>2
  <2>4. ASSUME lock' # Nobody
        PROVE  saved' \in Configs /\ session'[lock'].mine = saved'
    <3>1. lock # Nobody => saved \in Configs /\ session[lock].mine = saved
      BY DEF IInv, LockOK
    <3>2. CASE ~Holding(session[s]) /\ ~Holding(q) /\ lock' = lock /\ (lock = Nobody \/ saved' = saved)
      BY <1>3, <2>1, <2>4, <3>1, <3>2
    <3>3. CASE lock' = s
      BY <1>2, <1>3, <2>1, <3>1, <3>3 DEF LockStep
    <3> QED
      BY <1>2, <2>4, <3>2, <3>3 DEF LockStep
  <2>5. \A t \in Sessions : Holding(session[t])' <=> lock' = t
    BY <2>3 DEF Holding
  <2> QED
    BY <2>2, <2>4, <2>5 DEF LockOK
<1> QED
  BY <1>4, <1>5, <1>6

(* A holder of the lock that is not the session that steps stays as it is. *)
LEMMA OtherHolder ==
  ASSUME IInv, NEW s \in Sessions, NEW q, Moves(s, q), lock' # s, lock' # Nobody
  PROVE  lock' = lock /\ session'[lock'] = session[lock] /\ saved' = saved
<1>1. lock' = lock /\ lock \in Sessions /\ saved' = saved
  BY DEF Moves, LockStep, IInv, LockOK
<1> QED
  BY <1>1, SessionIs DEF Moves

ServicesOK == DeploymentOK /\ HolderOK /\ RunsWhatIsSaved /\ ConsumersAgree

(* Commands that touch neither the services nor what they should run. *)
LEMMA ServicesKept ==
  ASSUME IInv, NEW s \in Sessions, NEW q, Moves(s, q), UNCHANGED deployment,
         \/ saved' = saved
         \/ /\ saved \in Configs /\ saved' \in Configs /\ saved'.repositories = saved.repositories
            /\ saved'.access = saved.access /\ saved'.awaits = saved.awaits,
         lock = s => ~Is(s, Access), lock' = s => q.pc \in {"login", "logged_in"}
  PROVE  ServicesOK'
<1>1. UNCHANGED <<files, service, stray>>
  BY DEF deployment
<1>2. DeploymentOK' /\ ConsumersAgree'
  BY <1>1 DEF IInv, DeploymentOK, ConsumersAgree, Running
<1>3. HolderOK'
  <2>1. CASE lock' = s
    <3>1. session'[s] = q /\ q.request.kind = "codex"
      BY <2>1, SessionIs DEF Moves, Fits, Place
    <3> QED
      BY <2>1, <3>1 DEF HolderOK, Is, Request, Consumers, Cold, Access
  <2>2. CASE lock' # s /\ lock' # Nobody
    <3>1. lock' = lock /\ session'[lock'] = session[lock] /\ saved' = saved
      BY <2>2, OtherHolder
    <3> QED
      BY <1>1, <2>2, <3>1 DEF IInv, HolderOK, Is, Request, Cold, SameSelection, SameAccess, Running
  <2> QED
    BY <2>1, <2>2 DEF HolderOK
<1>4. RunsWhatIsSaved'
  <2>1. ASSUME saved' # NoConfig, ~saved'.awaits
        PROVE  /\ saved # NoConfig /\ ~saved.awaits /\ saved'.repositories = saved.repositories
               /\ saved'.access = saved.access
    BY <2>1, ConstantsAssumption
  <2>2. ASSUME ~(lock' # Nobody /\ session'[lock'].request.kind \in Access)
        PROVE  ~(lock # Nobody /\ Is(lock, Access))
    <3>1. CASE lock = s \/ lock = Nobody
      BY <3>1
    <3>2. CASE lock # s /\ lock # Nobody
      <4>1. lock' = lock /\ session'[lock] = session[lock]
        BY <3>2, SessionIs DEF Moves, LockStep, IInv, LockOK
      <4> QED
        BY <2>2, <4>1 DEF Is, Request
    <3> QED
      BY <3>1, <3>2
  <2> QED
    BY <1>1, <2>1, <2>2 DEF IInv, RunsWhatIsSaved, Is, Request, Running
<1> QED
  BY <1>2, <1>3, <1>4 DEF ServicesOK

LEMMA GoesIs ==
  ASSUME IInv, NEW s \in Sessions, NEW pc, Goes(s, pc) \/ \E new : Continues(s, new, pc)
  PROVE  session'[s].pc = pc /\ session'[s].request = Request(s)
<1>1. session \in [Sessions -> SessionRecords]
  BY SessionIs
<1>2. CASE Goes(s, pc)
  BY <1>1, <1>2 DEF Goes, Request, SessionRecords
<1>3. CASE \E new : Continues(s, new, pc)
  <2>1. PICK new : Continues(s, new, pc)
    BY <1>3
  <2> PICK x : x = session[s]
    OBVIOUS
  <2>2. x = [pc |-> x.pc, mine |-> x.mine, request |-> x.request, ok |-> x.ok]
    BY <1>1 DEF SessionRecords
  <2>3. session'[s] = [pc |-> pc, mine |-> new, request |-> x.request, ok |-> x.ok]
    BY <1>1, <2>1, <2>2 DEF Continues
  <2> QED
    BY <2>3 DEF Request
<1> QED
  BY <1>2, <1>3

(* While nobody holds the lock nothing is promised of a holder. *)
LEMMA NoHolder ==
  ASSUME lock' = Nobody
  PROVE  HolderOK'
BY DEF HolderOK

LEMMA SavedServices ==
  ASSUME IInv, NEW s \in Sessions,
         Initialize(s) \/ SaveConnection(s) \/ SaveRepositories(s) \/ SaveAccessUnseen(s)
         \/ (SaveAccess(s) /\ lock' = lock)
  PROVE  ServicesOK'
<1>1. lock = Nobody /\ lock' = Nobody /\ UNCHANGED <<files, service>>
  BY DEF Initialize, SaveConnection, SaveRepositories, SaveAccessUnseen, SaveAccess, Saves, deployment
<1>2. HolderOK'
  BY <1>1, NoHolder
<1>3. stray \subseteq stray' /\ stray' \subseteq {"selection", "access"}
      /\ ("selection" \in stray' => "access" \in stray')
  BY DEF Initialize, SaveConnection, SaveRepositories, SaveAccessUnseen, SaveAccess, deployment,
         IInv, DeploymentOK
<1>4. DeploymentOK' /\ ConsumersAgree'
  BY <1>1, <1>3 DEF IInv, DeploymentOK, ConsumersAgree, Running
<1>5. CASE Initialize(s) \/ SaveConnection(s)
  <2>1. {"selection", "access"} \subseteq stray'
    BY <1>5 DEF Initialize, SaveConnection
  <2> QED
    BY <1>2, <1>4, <2>1 DEF ServicesOK, RunsWhatIsSaved
<1>6. CASE SaveRepositories(s)
  <2>1. saved'.awaits
    <3>1. PICK new : /\ new = Selecting(Mine(s), Request(s).repositories)
                     /\ saved' = [new EXCEPT !.awaits = TRUE]
      BY <1>6 DEF SaveRepositories, Saves, Pending
    <3>2. Mine(s) = saved /\ Sound(saved) /\ Request(s).repositories \in SUBSET Repositories
      BY <1>6, Saving DEF SaveRepositories, Asks, Is, Asked, RequestRecords
    <3>3. new \in Configs
      BY <3>1, <3>2, SelectingIs DEF Sound
    <3> QED
      BY <3>1, <3>3 DEF Configs
  <2> QED
    BY <1>2, <1>4, <2>1 DEF ServicesOK, RunsWhatIsSaved
<1>7. CASE SaveAccess(s) \/ SaveAccessUnseen(s)
  <2>1. Is(s, Access) /\ ~Is(s, {"init"})
    BY <1>7 DEF SaveAccess, SaveAccessUnseen, Asks, Is, Access
  <2>2. Mine(s) = saved /\ saved \in Configs /\ saved # NoConfig
    BY <1>7, <2>1, Saving, ConstantsAssumption DEF Sound
  <2> PICK new : new = [saved EXCEPT !.access = Trusting(@, Request(s))]
    OBVIOUS
  <2>3. new.repositories = saved.repositories /\ new.awaits = saved.awaits /\ saved' = new
    BY <1>7, <2>2 DEF SaveAccess, SaveAccessUnseen, Saves, Configs
  <2>4. "access" \in stray' \/ ~RestartsApi(new)
    <3>1. CASE SaveAccessUnseen(s)
      BY <3>1 DEF SaveAccessUnseen
    <3>2. CASE SaveAccess(s)
      <4>1. RestartsApi(new) => lock' = s
        BY <2>2, <3>2 DEF SaveAccess
      <4> QED
        BY <1>1, <4>1, SessionIs
    <3> QED
      BY <1>7, <3>1, <3>2
  <2>5. RunsWhatIsSaved'
    BY <1>1, <1>3, <2>2, <2>3, <2>4 DEF IInv, RunsWhatIsSaved, RestartsApi, Running
  <2> QED
    BY <1>2, <1>4, <2>5 DEF ServicesOK
<1> QED
  BY <1>5, <1>6, <1>7

(* A session takes the lock to restart the API, to start or to apply. *)
LEMMA TakenServices ==
  ASSUME IInv, NEW s \in Sessions, Start(s) \/ Apply(s) \/ (SaveAccess(s) /\ lock' # lock)
  PROVE  ServicesOK'
<1>1. lock = Nobody /\ lock' = s /\ UNCHANGED <<files, service, stray>>
  BY DEF Start, Apply, SaveAccess, Saves, deployment
<1>2. DeploymentOK' /\ ConsumersAgree'
  BY <1>1 DEF IInv, DeploymentOK, ConsumersAgree, Running
<1>3. At(s, "opened") /\ Is(s, {"start", "apply"} \cup Access) /\ ~Is(s, {"init"})
  BY DEF Start, Apply, SaveAccess, Asks, Is, Access
<1>4. saved \in Configs /\ saved # NoConfig /\ (Unchanged(s) => Mine(s) = saved)
  BY <1>3, InHand DEF At, Sound
<1>5. CASE Start(s)
  <2>1. /\ session'[s].pc = "write" /\ session'[s].request = Request(s) /\ saved' = saved
        /\ Request(s).kind = "start" /\ CanStart(saved)
    BY <1>5, GoesIs DEF Start, Asks, Is, Untouched, configuration
  <2>2. HolderOK'
    BY <1>1, <2>1 DEF HolderOK, Is, Request, Cold, Access, CanStart, Running, Consumers
  <2>3. RunsWhatIsSaved'
    BY <1>1, <1>4, <2>1 DEF IInv, RunsWhatIsSaved, Is, Request, Running, Access
  <2> QED
    BY <1>2, <2>2, <2>3 DEF ServicesOK
<1>6. CASE Apply(s)
  <2>1. saved' = [saved EXCEPT !.awaits = TRUE] /\ Request(s).kind = "apply"
    BY <1>4, <1>6 DEF Apply, Saves, Asks, Is
  <2>2. /\ session'[s].pc = "stop" /\ session'[s].request = Request(s) /\ saved'.awaits
    BY <1>4, <1>6, <2>1, GoesIs DEF Apply, Configs
  <2>3. HolderOK' /\ RunsWhatIsSaved'
    BY <1>1, <2>1, <2>2 DEF HolderOK, RunsWhatIsSaved, Is, Request, Access, Consumers
  <2> QED
    BY <1>2, <2>3 DEF ServicesOK
<1>7. CASE SaveAccess(s) /\ lock' # lock
  <2> PICK new : new = [saved EXCEPT !.access = Trusting(@, Request(s))]
    OBVIOUS
  <2>1. new.repositories = saved.repositories /\ new.awaits = saved.awaits /\ saved' = new
        /\ Mine(s) = saved
    BY <1>4, <1>7 DEF SaveAccess, Saves, Configs
  <2>2. RestartsApi(new) /\ session'[s].pc = "write" /\ session'[s].request = Request(s)
        /\ Request(s).kind \in Access
    BY <1>7, <2>1, GoesIs DEF SaveAccess, Asks, Is
  <2>3. HolderOK'
    BY <1>1, <2>1, <2>2 DEF HolderOK, Is, Request, Access, Consumers, Cold, RestartsApi
  <2>4. RunsWhatIsSaved'
    BY <1>1, <1>4, <2>1, <2>2, SessionIs DEF IInv, RunsWhatIsSaved, Is, Request, Running
  <2> QED
    BY <1>2, <2>3, <2>4 DEF ServicesOK
<1> QED
  BY <1>5, <1>6, <1>7

LEMMA HolderIs ==
  ASSUME IInv, NEW s \in Sessions, lock = s
  PROVE  /\ s # Nobody /\ DeploymentOK /\ saved \in Configs
         /\ files.repositories \subseteq Repositories /\ files.access \subseteq Grants
         /\ session[s].pc \in Consumers /\ "selection" \notin stray => files = Derived(saved)
         /\ (Is(s, {"apply"}) \/ (Is(s, {"start"}) /\ saved.awaits)) =>
              /\ session[s].pc \in {"write", "api"} => \A c \in Consumers : ~Running(c)
              /\ session[s].pc = "worker" => ~Running("worker")
         /\ session[s].pc \in {"worker", "mark"} => SameSelection("api") /\ SameAccess
         /\ session[s].pc = "mark" => SameSelection("worker")
         /\ Is(s, Access) => ~saved.awaits
BY SessionIs DEF IInv, HolderOK, LockOK, Cold, DeploymentOK

LEMMA StopConsumersServices ==
  ASSUME IInv, NEW s \in Sessions, StopConsumers(s)
  PROVE  ServicesOK'
<1>1. lock = s /\ lock' = s /\ UNCHANGED <<files, saved>> /\ stray' = {}
      /\ Request(s).kind = "apply"
  BY Holder DEF StopConsumers, At, configuration, Place
<1>2. \A c \in Consumers : service'[c] = NotRunning
  BY DEF StopConsumers, Stopped
<1>3. session'[s].pc = "write" /\ session'[s].request = Request(s)
  BY GoesIs DEF StopConsumers
<1>4. DeploymentOK'
  <2>1. service' \in [Consumers -> Runs]
    BY DEF StopConsumers, Stopped, NotRunning, Runs
  <2> QED
    BY <1>1, <2>1 DEF IInv, DeploymentOK
<1>5. \A c \in Consumers : ~service'[c].up
  BY <1>2 DEF NotRunning
<1> QED
  BY <1>1, <1>3, <1>4, <1>5 DEF ServicesOK, HolderOK, RunsWhatIsSaved, ConsumersAgree, Running, Consumers,
     Is, Request, Access

LEMMA UpIs ==
  ASSUME IInv, NEW s \in Sessions, NEW c \in Consumers, Up(s, c)
  PROVE  /\ service' \in [Consumers -> Runs]
         /\ \A d \in Consumers \ {c} : service'[d] = service[d]
         /\ service'[c].repositories = files.repositories
         /\ \/ service'[c].access = files.access
            \/ service'[c] = service[c] /\ ~Is(s, Access \cup {"apply"}) /\ Running(c)
<1>1. service \in [Consumers -> Runs] /\ files.repositories \in SUBSET Repositories
      /\ files.access \in SUBSET Grants
  BY DEF IInv, DeploymentOK
<1>2. CASE Recreates(s, c)
  <2> PICK run : run = [up |-> TRUE, repositories |-> files.repositories, access |-> files.access]
    OBVIOUS
  <2>1. run \in Runs
    BY <1>1 DEF Runs
  <2>2. service' = [service EXCEPT ![c] = run]
    BY <1>2 DEF Up
  <2> QED
    BY <1>1, <2>1, <2>2
<1>3. CASE ~Recreates(s, c)
  BY <1>1, <1>3 DEF Up, Recreates
<1> QED
  BY <1>2, <1>3

LEMMA UpApiServices ==
  ASSUME IInv, NEW s \in Sessions, UpApi(s)
  PROVE  ServicesOK'
<1>1. lock = s /\ UNCHANGED <<files, saved, stray>> /\ Request(s).kind \in {"start", "apply"} \cup Access
      /\ session[s].pc = "api" /\ s # Nobody
  BY Holder DEF UpApi, At, configuration, Place
<1>2. /\ service' \in [Consumers -> Runs] /\ service'["worker"] = service["worker"]
      /\ service'["api"].repositories = files.repositories
      /\ \/ service'["api"].access = files.access
         \/ service'["api"] = service["api"] /\ Request(s).kind = "start" /\ Running("api")
  BY <1>1, UpIs DEF UpApi, Consumers, Is
<1>3. saved \in Configs /\ saved # NoConfig /\ DeploymentOK
  BY <1>1, HolderIs, ConstantsAssumption
<1>4. DeploymentOK'
  BY <1>1, <1>2, <1>3 DEF DeploymentOK
<1>5. ASSUME "selection" \notin stray
      PROVE  /\ service'["api"].repositories = saved.repositories
             /\ "access" \notin stray => service'["api"].access = saved.access
             /\ service["worker"].up => service["worker"].repositories = saved.repositories
             /\ Request(s).kind = "apply" \/ (Request(s).kind = "start" /\ saved.awaits)
                  => ~service["worker"].up
  <2>1. files = Derived(saved)
    BY <1>1, <1>5, HolderIs DEF Consumers
  <2>2. files.repositories = saved.repositories /\ files.access = saved.access
    BY <2>1 DEF Derived
  <2>3. CASE Request(s).kind = "apply" \/ (Request(s).kind = "start" /\ saved.awaits)
    <3>1. ~service["worker"].up /\ ~service["api"].up
      BY <1>1, <2>3, HolderIs DEF Is, Running, Consumers
    <3> QED
      BY <1>2, <2>2, <3>1 DEF Running
  <2>4. CASE ~(Request(s).kind = "apply" \/ (Request(s).kind = "start" /\ saved.awaits))
    <3>1. ~saved.awaits
      BY <1>1, <2>4, HolderIs DEF Is
    <3>2. /\ service["worker"].up => service["worker"].repositories = saved.repositories
          /\ Request(s).kind = "start" /\ "access" \notin stray /\ service["api"].up =>
               service["api"].access = saved.access
      BY <1>1, <1>3, <1>5, <3>1 DEF IInv, RunsWhatIsSaved, Running, Is, Access, Consumers
    <3> QED
      BY <1>2, <2>2, <2>4, <3>2 DEF Running
  <2> QED
    BY <2>3, <2>4
<1>6. ConsumersAgree' /\ RunsWhatIsSaved'
  BY <1>1, <1>2, <1>3, <1>5 DEF ConsumersAgree, RunsWhatIsSaved, Running, Consumers, DeploymentOK
<1>7. HolderOK'
  <2>1. CASE Is(s, Access)
    BY <1>1, <2>1, NoHolder DEF UpApi, Release
  <2>2. CASE ~Is(s, Access)
    <3>1. lock' = s /\ session'[s].pc = "worker" /\ session'[s].request = Request(s)
      BY <1>1, <2>2, GoesIs DEF UpApi
    <3> HIDE DEF Access
    <3>2. SameSelection("api")' /\ SameAccess'
      BY <1>1, <1>2, <1>3, <1>5 DEF SameSelection, SameAccess, Running, DeploymentOK
    <3>3. Cold' => ~Running("worker")'
      <4>1. CASE "selection" \notin stray
        BY <1>1, <1>2, <1>5, <3>1, <4>1 DEF Cold, Is, Request, Running
      <4>2. Cold' => Cold
        BY <1>1, <3>1 DEF Cold, Is, Request
      <4>3. Cold => ~Running("worker")
        BY <1>1, HolderIs DEF Cold, Consumers
      <4> QED
        BY <1>2, <4>2, <4>3 DEF Running
    <3>4. ~Is(lock, Access)'
      BY <2>2, <3>1 DEF Is, Request
    <3> QED
      BY <1>1, <1>5, <3>1, <3>2, <3>3, <3>4, HolderIs DEF HolderOK, Consumers
  <2> QED
    BY <2>1, <2>2
<1> QED
  BY <1>4, <1>6, <1>7 DEF ServicesOK

LEMMA UpWorkerServices ==
  ASSUME IInv, NEW s \in Sessions, UpWorker(s)
  PROVE  ServicesOK'
<1>1. lock = s /\ lock' = s /\ UNCHANGED <<files, saved, stray>> /\ Request(s).kind \in {"start", "apply"}
      /\ session[s].pc = "worker" /\ s # Nobody
  BY Holder DEF UpWorker, At, configuration, Place
<1>2. /\ service' \in [Consumers -> Runs] /\ service'["api"] = service["api"]
      /\ service'["worker"].repositories = files.repositories
  BY <1>1, UpIs DEF UpWorker, Consumers, Is
<1>3. saved \in Configs /\ saved # NoConfig /\ DeploymentOK /\ SameSelection("api") /\ SameAccess
  BY <1>1, HolderIs, ConstantsAssumption
<1>4. DeploymentOK'
  BY <1>1, <1>2, <1>3 DEF DeploymentOK
<1>5. SameSelection("api")' /\ SameAccess'
  BY <1>1, <1>2, <1>3 DEF SameSelection, SameAccess, Running
<1>6. SameSelection("worker")'
  <2>1. "selection" \notin stray => files.repositories = saved.repositories
    BY <1>1, HolderIs DEF Consumers, Derived
  <2> QED
    BY <1>1, <1>2, <2>1 DEF SameSelection
<1>7. ConsumersAgree' /\ RunsWhatIsSaved'
  BY <1>5, <1>6 DEF ConsumersAgree, RunsWhatIsSaved, Consumers, SameSelection, SameAccess
<1>8. session'[s].pc = "mark" /\ session'[s].request = Request(s)
  BY GoesIs DEF UpWorker
<1>9. HolderOK'
  BY <1>1, <1>5, <1>6, <1>8 DEF HolderOK, Consumers, Is, Request, Access
<1> QED
  BY <1>4, <1>7, <1>9 DEF ServicesOK

LEMMA MarkServices ==
  ASSUME IInv, NEW s \in Sessions, MarkApplied(s)
  PROVE  ServicesOK'
<1>1. lock = s /\ Mine(s) = saved /\ session[s].pc = "mark" /\ lock' = Nobody
      /\ UNCHANGED <<files, service, stray>>
  BY Holder DEF MarkApplied, At, Release, deployment
<1>2. saved \in Configs /\ DeploymentOK /\ SameSelection("api") /\ SameAccess /\ SameSelection("worker")
  BY <1>1, HolderIs
<1>3. saved'.repositories = saved.repositories /\ saved'.access = saved.access
  BY <1>1, <1>2 DEF MarkApplied, Configs
<1>4. DeploymentOK' /\ ConsumersAgree'
  BY <1>1 DEF IInv, DeploymentOK, ConsumersAgree, Running
<1>5. RunsWhatIsSaved'
  BY <1>1, <1>2, <1>3 DEF RunsWhatIsSaved, SameSelection, SameAccess, Running, Consumers
<1> QED
  BY <1>1, <1>4, <1>5, NoHolder DEF ServicesOK

(* A session lets go of the lock; what runs is as before, or nothing runs. *)
LEMMA FreedServices ==
  ASSUME IInv, NEW s \in Sessions, lock = s, lock' = Nobody, UNCHANGED <<saved, files>>,
         service' = service \/ service' = Stopped,
         stray \subseteq stray', stray' \subseteq stray \cup {"access"},
         Is(s, Access) => "access" \in stray'
  PROVE  ServicesOK'
<1>1. saved \in Configs /\ saved # NoConfig /\ s # Nobody /\ DeploymentOK
  BY HolderIs, ConstantsAssumption
<1>2. DeploymentOK'
  <2>1. Stopped \in [Consumers -> Runs]
    BY DEF Stopped, NotRunning, Runs
  <2> QED
    BY <1>1, <2>1 DEF DeploymentOK
<1>3. \A c \in Consumers : service'[c] = service[c] \/ ~service'[c].up
  BY DEF Stopped, NotRunning
<1>4. ConsumersAgree'
  BY <1>3 DEF IInv, ConsumersAgree, Running, Consumers
<1>5. RunsWhatIsSaved'
  BY <1>1, <1>3 DEF IInv, RunsWhatIsSaved, Running, Consumers
<1> QED
  BY <1>2, <1>4, <1>5, NoHolder DEF ServicesOK

LEMMA FailedServices ==
  ASSUME IInv, NEW s \in Sessions, DockerFails(s) \/ CleanUp(s)
  PROVE  ServicesOK'
<1>1. lock = s /\ s # Nobody /\ UNCHANGED <<saved, files>> /\ Place(session[s].pc, Request(s).kind)
  BY Holder DEF DockerFails, CleanUp, At, configuration, Consumers
<1>2. CASE CleanUp(s)
  <2>1. lock' = Nobody /\ stray' = stray /\ (service' = service \/ service' = Stopped)
    BY <1>1, <1>2 DEF CleanUp, Release
  <2>2. ~Is(s, Access)
    BY <1>1, <1>2 DEF CleanUp, At, Place, Is, Access
  <2> QED
    BY <1>1, <2>1, <2>2, FreedServices
<1>3. CASE DockerFails(s) /\ ~(Is(s, {"apply"}) /\ ~At(s, "stop"))
  <2>1. lock' = Nobody /\ service' = service
    BY <1>1, <1>3 DEF DockerFails, Release
  <2>2. stray' = IF Is(s, Access) THEN stray \cup {"access"} ELSE stray
    BY <1>3 DEF DockerFails
  <2> QED
    BY <1>1, <2>1, <2>2, FreedServices
<1>4. CASE DockerFails(s) /\ Is(s, {"apply"}) /\ ~At(s, "stop")
  <2>1. /\ lock' = s /\ service' = service /\ stray' = stray /\ Request(s).kind = "apply"
        /\ session'[s].pc = "cleanup" /\ session'[s].request = Request(s)
    BY <1>1, <1>4, GoesIs DEF DockerFails, Is, Access
  <2>2. HolderOK'
    BY <1>1, <2>1 DEF HolderOK, Consumers, Is, Request, Access
  <2>3. DeploymentOK' /\ ConsumersAgree' /\ RunsWhatIsSaved'
    BY <1>1, <2>1 DEF IInv, DeploymentOK, ConsumersAgree, RunsWhatIsSaved, Running, Is, Access, Request
  <2> QED
    BY <2>2, <2>3 DEF ServicesOK
<1> QED
  BY <1>2, <1>3, <1>4

LEMMA CrashServices ==
  ASSUME IInv, NEW s \in Sessions, NEW q, Moves(s, q), Crash(s)
  PROVE  ServicesOK'
<1>1. /\ UNCHANGED <<saved, files, service>>
      /\ stray' = IF Is(s, Access) /\ session[s].pc \in {"write", "api"} THEN stray \cup {"access"}
                  ELSE stray
  BY DEF Crash, Dies, configuration
<1>2. CASE lock = s
  <2>1. lock' = Nobody
    BY <1>2 DEF Crash, Dies, Release
  <2>2. Is(s, Access) => session[s].pc \in {"write", "api"}
    BY <1>2, SessionIs DEF Fits, Holding, Place, Is, Request, Access
  <2> QED
    BY <1>1, <1>2, <2>1, <2>2, FreedServices
<1>3. CASE lock # s
  <2>1. lock' = lock /\ ~Holding(session[s])
    BY <1>3, SessionIs DEF Crash, Dies, Release
  <2>2. stray' = stray
    BY <1>1, <2>1 DEF Holding, Is, Request, Access
  <2> QED
    BY <1>1, <1>3, <2>1, <2>2, ServicesKept, SessionIs DEF deployment, Moves, LockStep
<1> QED
  BY <1>2, <1>3

LEMMA WriteServices ==
  ASSUME IInv, NEW s \in Sessions, NEW q, Moves(s, q), WriteFiles(s)
  PROVE  ServicesOK'
<1>1. /\ UNCHANGED <<saved, lock, service>> /\ files' = Derived(Mine(s))
      /\ session[s].pc \in {"write", "opened"} /\ ~Is(s, {"init"})
  <2>1. Is(s, {"init"}) => session[s].pc = "opened"
    BY DEF IInv, ConfigOK
  <2> QED
    BY <2>1 DEF WriteFiles, configuration, At, Asks, Is
<1>2. Mine(s) \in Configs /\ saved # NoConfig /\ Place(session[s].pc, Request(s).kind)
  BY <1>1, InHand
<1>3. /\ stray' = stray \/ stray' = {"selection", "access"}
      /\ stray' = stray \/ files' # Derived(saved)
      /\ Starting /\ files' # Derived(saved) => stray' = {"selection", "access"}
  BY DEF WriteFiles
<1> DeploymentOK /\ stray \subseteq stray'
  BY <1>3 DEF IInv, DeploymentOK
<1>4. DeploymentOK'
  <2>1. files' \in [repositories : SUBSET Repositories, access : SUBSET Grants]
    BY <1>1, <1>2 DEF Derived, Configs
  <2> QED
    BY <1>1, <1>3, <2>1 DEF DeploymentOK
<1>5. ConsumersAgree'
  BY <1>1 DEF IInv, ConsumersAgree, Running
<1>6. CASE lock = s
  <2>1. Mine(s) = saved /\ session[s].pc = "write" /\ s # Nobody /\ ~Is(s, {"config", "facade"})
    BY <1>1, <1>2, <1>6, InHand, SessionIs DEF Holding, Place, Is, Request, Access
  <2>2. session'[s].pc = "api" /\ session'[s].request = Request(s)
    BY <2>1, GoesIs DEF WriteFiles
  <2>3. files' = Derived(saved) /\ stray' = stray
    BY <1>1, <1>3, <2>1
  <2>4. RunsWhatIsSaved'
    BY <1>1, <1>6, <2>2, <2>3 DEF IInv, RunsWhatIsSaved, Running, Is, Request
  <2>5. Cold' => Cold
    BY <1>1, <1>6, <2>2 DEF Cold, Is, Request
  <2>6. HolderOK'
    BY <1>1, <1>6, <2>1, <2>2, <2>3, <2>5 DEF IInv, HolderOK, Consumers, Is, Request, Running
  <2> QED
    BY <1>4, <1>5, <2>4, <2>6 DEF ServicesOK
<1>7. CASE lock # s
  <2>1. lock # Nobody => session'[lock] = session[lock]
    BY <1>1, <1>7, OtherHolder
  <2>2. RunsWhatIsSaved'
    BY <1>1, <1>3, <2>1 DEF IInv, RunsWhatIsSaved, Running, Is, Request
  <2>3. HolderOK'
    <3>1. CASE lock = Nobody
      BY <1>1, <3>1, NoHolder
    <3>2. CASE lock # Nobody
      <4>1. session'[lock] = session[lock]
        BY <2>1, <3>2
      <4>2. session'[lock].pc \in Consumers /\ "selection" \notin stray' => files' = Derived(saved)
        BY <1>1, <1>3, <3>2, <4>1 DEF Starting
      <4>3. /\ Cold' = Cold
            /\ \A c \in Consumers : SameSelection(c) => SameSelection(c)'
            /\ SameAccess => SameAccess'
        BY <1>1, <1>3, <4>1 DEF Cold, SameSelection, SameAccess, Running, Is, Request
      <4> QED
        BY <1>1, <3>2, <4>1, <4>2, <4>3 DEF IInv, HolderOK, Is, Request, Running, Consumers
    <3> QED
      BY <3>1, <3>2
  <2> QED
    BY <1>4, <1>5, <2>2, <2>3 DEF ServicesOK
<1> QED
  BY <1>6, <1>7

LEMMA StopServices ==
  ASSUME IInv, NEW s \in Sessions, NEW q, Moves(s, q), StopStack(s)
  PROVE  ServicesOK'
<1>1. UNCHANGED <<saved, lock, files>> /\ stray' = (IF Starting THEN stray ELSE {})
      /\ session[s].pc = "opened"
  BY DEF StopStack, configuration, Asks, At
<1>2. service' \in [Consumers -> Runs] /\ \A c \in Consumers : ~service'[c].up
  BY DEF StopStack, Stopped, NotRunning, Runs
<1>3. DeploymentOK'
  BY <1>1, <1>2 DEF IInv, DeploymentOK
<1>4. ConsumersAgree' /\ RunsWhatIsSaved'
  BY <1>2 DEF ConsumersAgree, RunsWhatIsSaved, Running, Consumers
<1>5. HolderOK'
  <2>1. lock # s
    BY <1>1, SessionIs DEF Holding
  <2>2. CASE lock = Nobody
    BY <1>1, <2>2, NoHolder
  <2>3. CASE lock # Nobody
    <3>1. session'[lock] = session[lock]
      BY <1>1, <2>1, <2>3, OtherHolder
    <3>2. session'[lock].pc \in Consumers /\ "selection" \notin stray' => files = Derived(saved)
      BY <1>1, <2>3, <3>1 DEF IInv, HolderOK, Starting
    <3>3. SameSelection("api")' /\ SameSelection("worker")' /\ SameAccess'
      BY <1>2 DEF SameSelection, SameAccess, Running, Consumers
    <3>4. Is(lock, Access) => ~saved.awaits
      BY <2>3 DEF IInv, HolderOK
    <3> QED
      BY <1>1, <1>2, <3>1, <3>2, <3>3, <3>4 DEF HolderOK, Is, Request, Running, Consumers
  <2> QED
    BY <2>2, <2>3
<1> QED
  BY <1>3, <1>4, <1>5 DEF ServicesOK

Core == SessionsOK /\ ConfigOK /\ LockOK /\ ServicesOK

(* Opening, giving up, the settings and the login leave the services alone. *)
LEMMA QuietServices ==
  ASSUME IInv, NEW s \in Sessions, NEW q, Moves(s, q),
         \/ CommandLine(s) \/ OpenNothing(s) \/ GiveUp(s) \/ SaveSetting(s) \/ SavePlugin(s)
         \/ BeginLogin(s) \/ Login(s) \/ LoginFails(s) \/ SaveLogin(s)
  PROVE  ServicesOK'
<1>1. UNCHANGED deployment
  BY DEF CommandLine, Open, OpenNothing, GiveUp, SaveSetting, SavePlugin, BeginLogin, Login,
         LoginFails, SaveLogin
<1>2. /\ lock = s => ~Is(s, Access)
      /\ lock' = s => q.pc \in {"login", "logged_in"}
  <2>1. CASE session[s].pc \in {"idle", "opened"} /\ lock' = lock
    BY <2>1, SessionIs DEF Holding
  <2>2. CASE session[s].pc \in {"login", "logged_in"}
    <3>1. Is(s, {"codex"})
      BY <2>2, SessionIs DEF Fits, Place, Is, Request
    <3>2. lock' = s => q.pc = "logged_in"
      <4>1. CASE Login(s)
        BY <4>1, GoesIs, SessionIs DEF Login, Moves
      <4>2. CASE LoginFails(s) \/ SaveLogin(s)
        BY <4>2, SessionIs DEF LoginFails, SaveLogin, Release
      <4> QED
        BY <2>2, <4>1, <4>2 DEF CommandLine, OpenNothing, GiveUp, SaveSetting, SavePlugin,
           BeginLogin, Asks, At
    <3> QED
      BY <3>1, <3>2 DEF Is, Access
  <2>3. CASE BeginLogin(s)
    BY <2>3, GoesIs, SessionIs DEF BeginLogin, Moves
  <2> QED
    BY <2>1, <2>2, <2>3 DEF CommandLine, Open, OpenNothing, GiveUp, SaveSetting, SavePlugin,
       Login, LoginFails, SaveLogin, Asks, At
<1>3. \/ saved' = saved
      \/ /\ saved \in Configs /\ saved' \in Configs /\ saved'.repositories = saved.repositories
         /\ saved'.access = saved.access /\ saved'.awaits = saved.awaits
  <2>1. CASE CommandLine(s)
    <3>1. saved \in Configs /\ saved' = Migrated(saved)
      BY <2>1 DEF CommandLine, Open, IInv, ConfigOK
    <3> QED
      BY <3>1, MigratedIs
  <2>2. CASE SaveSetting(s) \/ SavePlugin(s)
    <3>1. ~Is(s, {"init"})
      BY <2>2 DEF SaveSetting, SavePlugin, Asks, Is
    <3>2. saved' = [saved EXCEPT !.settings = @ + 1] /\ Sound(saved)
      BY <2>2, <3>1, Saving DEF SaveSetting, SavePlugin, Saves
    <3> QED
      BY <3>2 DEF Sound, Configs
  <2>3. CASE SaveLogin(s)
    <3>1. saved' = [saved EXCEPT !.codex = login] /\ Sound(saved) /\ login \in Nat
      BY <2>3, Holder DEF SaveLogin, At
    <3> QED
      BY <3>1 DEF Sound, Configs
  <2> QED
    BY <2>1, <2>2, <2>3 DEF OpenNothing, GiveUp, BeginLogin, Login, LoginFails, configuration
<1> QED
  BY <1>1, <1>2, <1>3, ServicesKept

LEMMA SessionKeeps ==
  ASSUME IInv, NEW s \in Sessions, SessionStep(s)
  PROVE  Core'
<1>1. PICK q : Moves(s, q) /\ ConfigStep(q)
  BY SessionStepped DEF Stepped
<1>2. SessionsOK' /\ ConfigOK' /\ LockOK'
  BY SessionStepped, StepKeeps
<1>3. ServicesOK'
  BY <1>1, QuietServices, SavedServices, TakenServices, StopConsumersServices, WriteServices,
     UpApiServices, UpWorkerServices, MarkServices, FailedServices, StopServices, CrashServices
     DEF SessionStep
<1> QED
  BY <1>2, <1>3 DEF Core

-----------------------------------------------------------------------------
(* The terminal *)

LEMMA TerminalSession ==
  ASSUME IInv, NEW s \in Sessions, NEW q, Moves(s, q), q.pc \in {"idle", "spawned", "opened", "done"},
         ConfigStep(q), UNCHANGED <<lock, deployment>>, ~Holding(session[s]),
         \/ saved' = saved
         \/ /\ saved \in Configs /\ saved' \in Configs /\ saved'.repositories = saved.repositories
            /\ saved'.access = saved.access /\ saved'.awaits = saved.awaits
  PROVE  Core'
<1>1. SessionsOK' /\ ConfigOK' /\ LockOK'
  BY StepKeeps DEF Stepped
<1>2. lock # s /\ lock' # s
  BY SessionIs
<1> QED
  BY <1>1, <1>2, ServicesKept DEF Core

LEMMA SpawnKeeps ==
  ASSUME IInv, NEW task \in Tasks, NEW request, Asked(request), Spawn(task, request),
         saved # NoConfig
  PROVE  Core'
<1>1. task \in Sessions /\ ~Holding(session[task])
  BY ConstantsAssumption DEF Spawn, At, Holding
<1> PICK q : q = [IdleSession EXCEPT !.pc = "spawned", !.request = request]
  OBVIOUS
<1>2. request \in RequestRecords /\ request.kind # "init"
  BY DEF Asked
<1>3. IdleSession \in SessionRecords /\ IdleSession.mine = NoConfig
  BY PlainFits DEF IdleSession
<1>4. q \in SessionRecords /\ q.pc = "spawned" /\ q.request = request /\ q.mine = NoConfig
  BY <1>2, <1>3 DEF SessionRecords, Places
<1>5. Fits(q) /\ ~Holding(q)
  BY <1>4 DEF Fits, Holding, Place
<1>6. session' = [session EXCEPT ![task] = q] /\ UNCHANGED <<configuration, lock, deployment, login>>
  BY DEF Spawn
<1>7. Moves(task, q)
  BY <1>1, <1>2, <1>4, <1>5, <1>6 DEF Moves, LockStep, configuration
<1>8. ConfigStep(q)
  BY <1>6 DEF ConfigStep, Sound, IInv, ConfigOK, configuration
<1> QED
  BY <1>1, <1>4, <1>6, <1>7, <1>8, TerminalSession DEF configuration

LEMMA TaskOpensKeeps ==
  ASSUME IInv, NEW task \in Tasks, TaskOpens(task)
  PROVE  Core'
<1>1. task \in Sessions /\ session[task].pc = "spawned" /\ Open(task, Request(task))
  BY ConstantsAssumption DEF TaskOpens, At
<1>2. Asked(Request(task)) /\ ~Holding(session[task])
  BY <1>1, SessionIs DEF Fits, Request, Holding
<1> PICK request : request = Request(task)
  OBVIOUS
<1>3. PICK q : Moves(task, q) /\ q.pc \in {"opened", "done"}
  BY <1>1, <1>2, OpenMoves
<1>4. saved' = Migrated(saved) /\ told' = saved' /\ Sound(saved) /\ login' = login /\ login \in Nat
      /\ UNCHANGED <<lock, deployment>>
  BY <1>1 DEF Open, IInv, ConfigOK, Sound
<1>5. /\ saved \in Configs /\ saved' \in Configs /\ saved'.repositories = saved.repositories
      /\ saved'.access = saved.access /\ saved'.awaits = saved.awaits /\ Sound(saved')
  BY <1>4, MigratedIs, Edits DEF Sound
<1> QED
  BY <1>1, <1>2, <1>3, <1>4, <1>5, TerminalSession DEF ConfigStep

LEMMA TaskReadsKeeps ==
  ASSUME IInv, NEW task \in Tasks, TaskReads(task)
  PROVE  Core'
<1>1. task \in Sessions /\ session[task].pc = "opened" /\ Is(task, {"load"}) /\ Ends(task, TRUE)
      /\ UNCHANGED <<configuration, lock, deployment, login>>
  BY ConstantsAssumption DEF TaskReads, At
<1>2. ~Holding(session[task])
  BY <1>1 DEF Holding
<1>3. PICK q : Moves(task, q) /\ q.pc \in {"idle", "done"}
  BY <1>1, <1>2, EndMoves DEF configuration
<1>4. ConfigStep(q)
  <2>1. Sound(saved) /\ told = saved /\ login \in Nat
    BY <1>1, HasConfig DEF At, Is
  <2> QED
    BY <1>1, <2>1 DEF ConfigStep, configuration
<1> QED
  BY <1>1, <1>2, <1>3, <1>4, TerminalSession DEF configuration

LEMMA ReceiveKeeps ==
  ASSUME IInv, NEW task \in Tasks, Receive(task)
  PROVE  Core'
<1>1. task \in Sessions /\ session[task].pc = "done" /\ session' = [session EXCEPT ![task] = IdleSession]
      /\ UNCHANGED <<configuration, lock, deployment, login>>
  BY ConstantsAssumption DEF Receive, At
<1>2. ~Holding(session[task])
  BY <1>1 DEF Holding
<1>3. Moves(task, IdleSession)
  BY <1>1, <1>2, PlainFits DEF Moves, LockStep, configuration
<1>4. ConfigStep(IdleSession)
  BY <1>1, PlainFits DEF ConfigStep, Sound, IInv, ConfigOK, configuration
<1> QED
  BY <1>1, <1>2, <1>3, <1>4, PlainFits, TerminalSession DEF configuration

LEMMA QuitKeeps ==
  ASSUME IInv, Quit
  PROVE  Core'
<1>1. /\ session' = [s \in Sessions |-> IF s \in Tasks THEN IdleSession ELSE session[s]]
      /\ lock' = IF lock \in Tasks THEN Nobody ELSE lock
      /\ UNCHANGED <<saved, told, files, service, login>>
  BY DEF Quit, configuration
<1>2. stray \subseteq stray' /\ stray' \subseteq stray \cup {"access"}
  BY DEF Quit
<1>3. /\ SessionsOK /\ ConfigOK /\ LockOK /\ DeploymentOK /\ HolderOK /\ RunsWhatIsSaved /\ ConsumersAgree
  BY DEF IInv
<1>4. SessionsOK'
  BY <1>1, <1>3, PlainFits DEF SessionsOK
<1>5. ConfigOK'
  BY <1>1, <1>3, PlainFits DEF ConfigOK, Is, Request
<1>6. LockOK'
  <2>1. ASSUME NEW t \in Sessions
        PROVE  Holding(session'[t]) <=> lock' = t
    BY <1>1, <1>3, PlainFits, ConstantsAssumption DEF LockOK
  <2>2. \A t \in Sessions : Holding(session[t])' <=> lock' = t
    BY <2>1 DEF Holding
  <2>3. lock' # Nobody => saved' \in Configs /\ session'[lock'].mine = saved'
    BY <1>1, <1>3 DEF LockOK
  <2> QED
    BY <1>1, <1>3, <2>2, <2>3 DEF LockOK
<1>7. ServicesOK'
  <2>1. CASE lock \in Tasks
    <3> PICK s \in Sessions : lock = s
      BY <2>1, ConstantsAssumption
    <3>1. lock' = Nobody
      BY <1>1, <2>1
    <3>2. Is(s, Access) => session[s].pc \in {"write", "api"}
      BY SessionIs DEF Fits, Holding, Place, Is, Request, Access
    <3>3. Is(s, Access) => "access" \in stray'
      BY <2>1, <3>2 DEF Quit
    <3> QED
      BY <1>1, <1>2, <3>1, <3>3, FreedServices
  <2>2. CASE lock \notin Tasks
    <3>1. lock' = lock /\ (lock # Nobody => session'[lock] = session[lock])
      BY <1>1, <1>3, <2>2 DEF LockOK
    <3>2. stray' = stray
      <4>1. ASSUME NEW task \in Tasks
            PROVE  ~(Is(task, Access) /\ session[task].pc \in {"write", "api"})
        BY <2>2, SessionIs, ConstantsAssumption DEF Holding, Is, Request, Access
      <4> QED
        BY <4>1 DEF Quit
    <3>3. DeploymentOK' /\ ConsumersAgree'
      BY <1>1, <1>3, <3>2 DEF DeploymentOK, ConsumersAgree, Running
    <3>4. RunsWhatIsSaved'
      BY <1>1, <1>3, <3>1, <3>2 DEF RunsWhatIsSaved, Running, Is, Request
    <3>5. HolderOK'
      BY <1>1, <1>3, <3>1, <3>2 DEF HolderOK, Cold, SameSelection, SameAccess, Running, Is, Request
    <3> QED
      BY <3>3, <3>4, <3>5 DEF ServicesOK
  <2> QED
    BY <2>1, <2>2
<1> QED
  BY <1>4, <1>5, <1>6, <1>7 DEF Core

LEMMA Unmoved ==
  ASSUME IInv, UNCHANGED setupVars
  PROVE  Core'
<1>1. UNCHANGED <<saved, told, lock, files, service, stray, login, session, budget>>
  BY DEF setupVars, configuration, deployment
<1>2. SessionsOK' /\ ConfigOK' /\ LockOK'
  BY <1>1 DEF IInv, SessionsOK, ConfigOK, LockOK, Is, Request, Holding
<1>3. DeploymentOK' /\ RunsWhatIsSaved' /\ ConsumersAgree'
  BY <1>1 DEF IInv, DeploymentOK, RunsWhatIsSaved, ConsumersAgree, Running, Is, Request
<1>4. HolderOK'
  BY <1>1 DEF IInv, HolderOK, Cold, SameSelection, SameAccess, Running, Is, Request
<1> QED
  BY <1>2, <1>3, <1>4 DEF Core, ServicesOK

(* The keys that start a task ask for what may be asked. *)
LEMMA KeysKeep ==
  ASSUME IInv, NEW task \in Tasks, Keys(task)
  PROVE  Core'
<1>1. CASE PressOperation(task)
  <2>1. PICK request \in Requests(saved) : Spawn(task, request)
    BY <1>1 DEF PressOperation
  <2>2. saved \in Configs /\ saved # NoConfig
    BY <1>1 DEF PressOperation, Key, IInv, ConfigOK
  <2> QED
    BY <2>1, <2>2, RequestsAsked, SpawnKeeps
<1>2. CASE PressManage(task)
  <2> PICK request : request = [Plain EXCEPT !.kind = "load"]
    OBVIOUS
  <2>1. request \in RequestRecords /\ request.kind = "load"
    BY PlainFits DEF RequestRecords, Kinds
  <2> QED
    BY <1>2, <2>1, SpawnKeeps DEF PressManage, Key, Asked, Access
<1>3. ASSUME NEW confirmed \in SUBSET Repositories, Removed \subseteq confirmed,
             SavesSelection(task, confirmed), saved # NoConfig
      PROVE  Core'
  <2> PICK chosen, original : chosen = selection.chosen /\ original = selection.original
    OBVIOUS
  <2>1. chosen \in SUBSET Repositories /\ original \in SUBSET Repositories
        /\ original \ chosen \subseteq confirmed
    BY <1>3 DEF IInv, DisplayOK, Removed
  <2> PICK request : request = [Plain EXCEPT !.kind = "repositories", !.repositories = chosen,
                                    !.original = original, !.confirmed = confirmed]
    OBVIOUS
  <2>2. /\ request \in RequestRecords /\ request.kind = "repositories"
        /\ request.repositories = chosen /\ request.original = original
        /\ request.confirmed = confirmed
    BY <2>1, PlainFits DEF RequestRecords, Kinds
  <2>3. Asked(request)
    BY <2>1, <2>2 DEF Asked, Access
  <2>4. Spawn(task, request)
    BY <1>3 DEF SavesSelection
  <2> QED
    BY <1>3, <2>3, <2>4, SpawnKeeps
<1>4. CASE PressEnter(task)
  <2>1. CASE AsksFirst
    BY <1>4, <2>1, Unmoved DEF PressEnter
  <2>2. CASE ~AsksFirst
    <3>1. Removed \subseteq {} /\ SavesSelection(task, {}) /\ saved # NoConfig
      BY <1>4, <2>2 DEF PressEnter, AsksFirst, Key
    <3> QED
      BY <1>3, <3>1
  <2> QED
    BY <2>1, <2>2
<1>5. CASE PressYes(task)
  <2>1. Removed \in SUBSET Repositories
    BY DEF IInv, DisplayOK, Removed
  <2> PICK confirmed : confirmed = Removed
    OBVIOUS
  <2>2. SavesSelection(task, confirmed) /\ saved # NoConfig
    BY <1>5 DEF PressYes, Key
  <2> QED
    BY <1>3, <2>1, <2>2
<1> QED
  BY <1>1, <1>2, <1>3, <1>4, <1>5 DEF Keys

LEMMA Displays ==
  ASSUME IInv, [Next]_terminalVars
  PROVE  DisplayOK'
<1>1. /\ screen \in {"home", "manage"} /\ busy \in BOOLEAN
      /\ selection \in [original : SUBSET Repositories, chosen : SUBSET Repositories, confirm : BOOLEAN]
  BY DEF IInv, DisplayOK
<1>2. NoSelection \in [original : SUBSET Repositories, chosen : SUBSET Repositories, confirm : BOOLEAN]
  BY DEF NoSelection
<1>3. CASE UNCHANGED display
  BY <1>1, <1>3 DEF display, DisplayOK
<1>4. ASSUME NEW task \in Tasks, Keys(task)
      PROVE  DisplayOK'
  <2>1. CASE PressOperation(task) \/ PressManage(task)
    BY <1>1, <2>1 DEF PressOperation, PressManage, DisplayOK
  <2>2. CASE PressEnter(task) /\ AsksFirst
    BY <1>1, <2>2 DEF PressEnter, DisplayOK
  <2>3. CASE (PressEnter(task) /\ ~AsksFirst) \/ PressYes(task)
    <3>1. screen' = screen /\ busy' = TRUE /\ selection' = selection
      BY <2>3 DEF PressEnter, PressYes, SavesSelection
    <3> QED
      BY <1>1, <3>1 DEF DisplayOK
  <2> QED
    BY <1>4, <2>1, <2>2, <2>3 DEF Keys
<1>5. ASSUME NEW task \in Tasks, Receive(task)
      PROVE  DisplayOK'
  <2>1. task \in Sessions
    BY ConstantsAssumption
  <2>2. screen' \in {"home", "manage"} /\ busy' = FALSE
    BY <1>1, <1>5 DEF Receive
  <2>3. CASE Is(task, {"load"})
    <3>1. saved \in Configs
      BY <1>5, <2>1, <2>3, HasConfig DEF Receive, At, Is, Sound
    <3>2. Reloaded \in [original : SUBSET Repositories, chosen : SUBSET Repositories, confirm : BOOLEAN]
      BY <3>1 DEF Reloaded, Configs
    <3>3. selection' = Reloaded \/ selection' = NoSelection \/ selection' = selection
      BY <1>5 DEF Receive
    <3> QED
      BY <1>1, <1>2, <2>2, <3>2, <3>3 DEF DisplayOK
  <2>4. CASE ~Is(task, {"load"})
    <3>1. selection' = NoSelection \/ selection' = selection
      BY <1>5, <2>4 DEF Receive
    <3> QED
      BY <1>1, <1>2, <2>2, <3>1 DEF DisplayOK
  <2> QED
    BY <2>3, <2>4
<1>6. ASSUME NEW repository \in Repositories, Toggle(repository)
      PROVE  DisplayOK'
  <2> PICK chosen : chosen = IF repository \in selection.chosen
                             THEN selection.chosen \ {repository} ELSE selection.chosen \cup {repository}
    OBVIOUS
  <2>1. chosen \in SUBSET Repositories
    BY <1>1
  <2>2. selection' = [selection EXCEPT !.confirm = FALSE, !.chosen = chosen] /\ UNCHANGED <<screen, busy>>
    BY <1>6 DEF Toggle
  <2> QED
    BY <1>1, <2>1, <2>2 DEF DisplayOK
<1>7. CASE PressEscape \/ ReceiveStatus \/ Quit
  BY <1>1, <1>2, <1>7 DEF PressEscape, ReceiveStatus, Quit, DisplayOK
<1> QED
  BY <1>3, <1>4, <1>5, <1>6, <1>7 DEF Next, Commands, TaskOpens, TaskReads, terminalVars

LEMMA NextKeeps ==
  ASSUME IInv, [Next]_terminalVars
  PROVE  IInv'
<1>1. ASSUME NEW s \in Sessions, Commands(s)
      PROVE  Core'
  BY <1>1, SessionKeeps DEF Commands
<1>2. ASSUME NEW task \in Tasks, Keys(task) \/ TaskOpens(task) \/ TaskReads(task) \/ Receive(task)
      PROVE  Core'
  BY <1>2, KeysKeep, TaskOpensKeeps, TaskReadsKeeps, ReceiveKeeps
<1>3. ASSUME (\E repository \in Repositories : Toggle(repository)) \/ PressEscape \/ ReceiveStatus
             \/ UNCHANGED terminalVars
      PROVE  Core'
  <2>1. UNCHANGED setupVars
    BY <1>3 DEF Toggle, PressEscape, ReceiveStatus, terminalVars
  <2> QED
    BY <2>1, Unmoved
<1>4. Quit => Core'
  BY QuitKeeps
<1>5. Core'
  BY <1>1, <1>2, <1>3, <1>4 DEF Next
<1> QED
  BY <1>5, Displays DEF IInv, Core, ServicesOK

LEMMA InitInv == Init => IInv
<1> SUFFICES ASSUME Init PROVE IInv
  OBVIOUS
<1>1. /\ lock = Nobody /\ stray = {} /\ login = 0 /\ session = [s \in Sessions |-> IdleSession]
      /\ screen = "home" /\ busy = FALSE /\ selection = NoSelection
  BY DEF Init, SetupInit, Setting
<1>2. SessionsOK
  BY <1>1, PlainFits DEF SessionsOK
<1>3. /\ saved = NoConfig \/ Sound(saved)
      /\ told = saved
      /\ files \in [repositories : SUBSET Repositories, access : SUBSET Grants]
      /\ service \in [Consumers -> Runs]
      /\ \/ \A c \in Consumers : ~service[c].up
         \/ \A c \in Consumers : /\ service[c].repositories = saved.repositories
                                 /\ service[c].access = saved.access
  <2>1. Stopped \in [Consumers -> Runs] /\ \A c \in Consumers : ~Stopped[c].up
    BY DEF Stopped, NotRunning, Runs
  <2>2. ASSUME NEW config \in Configs
        PROVE  Derived(config) \in [repositories : SUBSET Repositories, access : SUBSET Grants]
    BY DEF Derived, Configs
  <2>3. CASE saved = NoConfig /\ told = NoConfig /\ service = Stopped /\ files = Derived(Fresh)
    BY <2>1, <2>2, <2>3, FreshIs DEF Sound
  <2>4. ASSUME NEW repository \in Repositories, NEW running \in BOOLEAN, NEW legacy \in BOOLEAN,
               Starts([Fresh EXCEPT !.repositories = {repository}, !.legacy = legacy,
                                    !.access = Of(Grants, {repository})], running)
        PROVE  /\ saved = NoConfig \/ Sound(saved)
               /\ told = saved
               /\ files \in [repositories : SUBSET Repositories, access : SUBSET Grants]
               /\ service \in [Consumers -> Runs]
               /\ \/ \A c \in Consumers : ~service[c].up
                  \/ \A c \in Consumers : /\ service[c].repositories = saved.repositories
                                          /\ service[c].access = saved.access
    <3> PICK access : access = Of(Grants, {repository})
      OBVIOUS
    <3>1. access \in SUBSET Grants /\ Of(access, {repository}) = access
      BY DEF Of
    <3> PICK config : config = [Fresh EXCEPT !.repositories = {repository}, !.legacy = legacy,
                                             !.access = access]
      OBVIOUS
    <3>2. config \in Configs /\ config.repositories = {repository} /\ config.access = access
      BY <2>4, <3>1 DEF Fresh, Configs
    <3>3. Sound(config)
      BY <3>1, <3>2 DEF Sound
    <3> PICK run : run = [up |-> TRUE, repositories |-> config.repositories, access |-> config.access]
      OBVIOUS
    <3>4. run \in Runs /\ run.repositories = config.repositories /\ run.access = config.access
      BY <3>1, <3>2 DEF Runs
    <3>5. saved = config /\ told = config /\ files = Derived(config)
          /\ (service = [c \in Consumers |-> run] \/ service = Stopped)
      BY <2>4 DEF Starts
    <3> QED
      BY <2>1, <2>2, <3>2, <3>3, <3>4, <3>5
  <2> QED
    BY <2>3, <2>4 DEF Init, SetupInit
<1>4. ConfigOK
  BY <1>1, <1>3, PlainFits DEF ConfigOK, Sound, Is, Request
<1>5. LockOK /\ HolderOK
  BY <1>1, PlainFits, ConstantsAssumption DEF LockOK, HolderOK
<1>6. DeploymentOK /\ DisplayOK
  BY <1>1, <1>3 DEF DeploymentOK, DisplayOK, NoSelection
<1>7. RunsWhatIsSaved /\ ConsumersAgree
  BY <1>3 DEF RunsWhatIsSaved, ConsumersAgree, Running, Consumers
<1> QED
  BY <1>2, <1>4, <1>5, <1>6, <1>7 DEF IInv

-----------------------------------------------------------------------------
(* Results *)

(* IInv holds in every state: it is preserved by the commands, whoever     *)
(* gives them and in whatever order their steps come, by crashes, and by   *)
(* the terminal.                                                           *)
THEOREM Invariance == Spec => []IInv
BY InitInv, NextKeeps, PTL DEF Spec

(* Every variable has its type, the lock is held only by a session in the  *)
(* middle of a command, and access is only of selected repositories.       *)
THEOREM TypeCorrect == Spec => []TypeOK
<1>1. ASSUME IInv PROVE TypeOK
  <2>1. lock # Nobody => session[lock].pc \notin {"idle", "spawned", "opened", "done"}
    BY <1>1 DEF IInv, LockOK, Holding
  <2> QED
    BY <1>1, <2>1 DEF IInv, TypeOK, SessionsOK, ConfigOK, LockOK, DeploymentOK, DisplayOK
<1> QED
  BY <1>1, Invariance, PTL

(* instance.json is the outcome of all accepted edits: of two sessions     *)
(* that opened the same configuration, the second to save is refused       *)
(* (save_unlocked), and nobody saves while another holds the lock.         *)
THEOREM NothingIsLost == Spec => []NothingLost
<1>1. IInv => NothingLost
  BY DEF IInv, ConfigOK, NothingLost
<1> QED
  BY <1>1, Invariance, PTL

(* Outside the cases RunsWhatIsSaved names, the services run the saved     *)
(* selection and access: whoever changes them holds .instance.lock until   *)
(* the services follow, or stops them.                                     *)
THEOREM RunsSaved == Spec => []RunsWhatIsSaved
<1>1. IInv => RunsWhatIsSaved
  BY DEF IInv
<1> QED
  BY <1>1, Invariance, PTL

(* The API and the worker never run different selections. *)
THEOREM OneSelection == Spec => []ConsumersAgree
<1>1. IInv => ConsumersAgree
  BY DEF IInv
<1> QED
  BY <1>1, Invariance, PTL

LEMMA SelectionStays ==
  ASSUME IInv, NEW s \in Sessions, SessionStep(s), saved # NoConfig,
         ~Initialize(s), ~SaveConnection(s), ~SaveRepositories(s)
  PROVE  saved'.repositories = saved.repositories
<1>1. saved \in Configs
  BY DEF IInv, ConfigOK
<1>2. CASE CommandLine(s)
  BY <1>1, <1>2, MigratedIs DEF CommandLine, Open
<1>3. CASE SaveSetting(s) \/ SavePlugin(s) \/ SaveAccess(s) \/ SaveAccessUnseen(s) \/ Apply(s)
  <2>1. ~Is(s, {"init"})
    BY <1>3 DEF SaveSetting, SavePlugin, SaveAccess, SaveAccessUnseen, Apply, Asks, Is, Access
  <2>2. Mine(s) = saved
    BY <1>3, <2>1, Saving
  <2> QED
    BY <1>1, <1>3, <2>2 DEF SaveSetting, SavePlugin, SaveAccess, SaveAccessUnseen, Apply, Saves, Configs
<1>4. CASE MarkApplied(s) \/ SaveLogin(s)
  <2>1. Mine(s) = saved
    BY <1>4, Holder DEF MarkApplied, SaveLogin, At
  <2> QED
    BY <1>1, <1>4, <2>1 DEF MarkApplied, SaveLogin, Configs
<1> QED
  BY <1>2, <1>3, <1>4 DEF SessionStep, OpenNothing, GiveUp, Start, StopConsumers, WriteFiles, UpApi,
     UpWorker, DockerFails, CleanUp, StopStack, Crash, BeginLogin, Login, LoginFails, configuration

LEMMA RemovalAsked ==
  ASSUME IInv, NEW s \in Sessions, SessionStep(s)
  PROVE  RemovesConfirmed
<1> SUFFICES ASSUME saved # NoConfig, saved' # NoConfig, NEW r \in saved.repositories \ saved'.repositories
             PROVE  \E t \in Sessions : /\ session'[t] # session[t]
                                        /\ (Is(t, {"connect", "init"}) \/ r \in Request(t).confirmed)
  BY DEF RemovesConfirmed
<1>1. Initialize(s) \/ SaveConnection(s) \/ SaveRepositories(s)
  BY SelectionStays
<1>2. At(s, "opened") /\ Ends(s, TRUE)
  BY <1>1 DEF Initialize, SaveConnection, SaveRepositories, Asks
<1>3. session'[s] # session[s]
  <2>1. session'[s] = Outcome(s, TRUE)
    BY <1>2, SessionIs DEF Ends
  <2>2. Outcome(s, TRUE).pc \in {"idle", "done"}
    BY PlainFits DEF Outcome, Report, IdleSession
  <2> QED
    BY <1>2, <2>1, <2>2 DEF At
<1>4. CASE Initialize(s) \/ SaveConnection(s)
  BY <1>3, <1>4 DEF Initialize, SaveConnection, Asks, Is
<1>5. CASE SaveRepositories(s)
  <2>1. Is(s, {"repositories"}) /\ ~Is(s, {"init"})
    BY <1>5 DEF SaveRepositories, Asks, Is
  <2>2. Mine(s) = saved /\ Sound(saved) /\ Asked(Request(s))
    BY <1>5, <2>1, Saving
  <2>3. Request(s).original = saved.repositories
    BY <1>2, <2>1, <2>2, SessionIs DEF Fits, At, Is, Request, Mine
  <2>4. saved.repositories \ Request(s).repositories \subseteq Request(s).confirmed
    BY <2>1, <2>2, <2>3 DEF Asked, Is
  <2>5. saved'.repositories = Request(s).repositories
    <3> PICK chosen : chosen = Request(s).repositories
      OBVIOUS
    <3> PICK new : new = Selecting(saved, chosen)
      OBVIOUS
    <3>1. chosen \in SUBSET Repositories
      BY <2>2 DEF Asked, RequestRecords
    <3>2. Sound(Selecting(saved, chosen)) /\ Selecting(saved, chosen).repositories = chosen
      BY <2>2, <3>1, SelectingIs
    <3>3. saved' = [new EXCEPT !.awaits = TRUE]
      BY <1>5, <2>2 DEF SaveRepositories, Saves, Pending
    <3> QED
      BY <3>2, <3>3 DEF Sound, Configs
  <2> QED
    BY <1>3, <2>4, <2>5
<1> QED
  BY <1>1, <1>4, <1>5

(* A repository leaves the selection only when a person was asked about    *)
(* this very repository and said yes, or connected anew: what was asked    *)
(* was made from the configuration that the removal is saved over          *)
(* (MadeFrom), although other sessions saved between.                      *)
THEOREM RemovalsConfirmed == Spec => RemovalConfirmed
<1>1. ASSUME IInv, [Next]_terminalVars PROVE [RemovesConfirmed]_terminalVars
  <2>1. CASE \E s \in Sessions : Commands(s)
    BY <1>1, <2>1, RemovalAsked DEF Commands
  <2>2. CASE \E task \in Tasks : TaskOpens(task)
    <3>1. saved # NoConfig => saved \in Configs
      BY <1>1 DEF IInv, ConfigOK
    <3>2. saved # NoConfig => saved'.repositories = saved.repositories
      BY <2>2, <3>1, MigratedIs DEF TaskOpens, Open
    <3> QED
      BY <3>2 DEF RemovesConfirmed
  <2>3. CASE saved' = saved
    BY <2>3 DEF RemovesConfirmed
  <2> QED
    BY <1>1, <2>1, <2>2, <2>3 DEF Next, Keys, PressOperation, PressManage, PressEnter, PressYes,
       SavesSelection, Spawn, TaskReads, Receive, Toggle, PressEscape, ReceiveStatus, Quit,
       terminalVars, setupVars, configuration
<1> QED
  BY <1>1, Invariance, PTL DEF Spec, RemovalConfirmed
=============================================================================
