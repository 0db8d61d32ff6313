----------------------------- MODULE ClientSession -----------------------------
(***************************************************************************)
(* One client and the server an adopter built for it: the build, discovery *)
(* of the card, a request with credentials the card asks for, its handling *)
(* over one of the three bindings, and the answer; or a walk through all   *)
(* pages of a listing while other clients write.  What a turn does to a    *)
(* task in between is TaskTurn's matter: here a send or a cancel leaves    *)
(* the task in one of the states a turn can leave it in.                   *)
(***************************************************************************)
EXTENDS RequestPath

Paging == INSTANCE Listings

CONSTANTS
    Builders,       \* the ways an adopter fills in a builder
    Probes(_),      \* the requests tried on the server of a builder
    Databases,      \* the tables a walk may start from
    ProbeDatabase,  \* the tables a single request meets
    ConfigIds,      \* push config ids
    PageSizes,      \* page sizes a walk asks for
    MaxTime,        \* bound: the latest status timestamp
    MaxWrites       \* bound: other clients' writes during a walk

VARIABLES
    builder,    \* what the adopter asked for
    server,     \* what build() returned, None before and when it refused
    db,         \* task id -> its row, None when there is none
    now,        \* the clock that stamps status writes
    client,     \* the client's phase, plan, card, request, answer and error
    walk,       \* ids listed so far, and (history) rows untouched throughout
    scan,       \* DynamoDB: the ids a table scan has not reached, the rows read
    writes      \* other clients' writes so far

vars == <<builder, server, db, now, client, walk, scan, writes>>

TaskIds == DOMAIN ProbeDatabase

ASSUME BuildersAssumption ==
    \A b \in Builders :
        /\ IsStack(b.stack) /\ IsCard(b.card)
        /\ b.extended = None \/ IsCard(b.extended)

ASSUME ProbesAssumption ==
    \A b \in Builders : \A r \in Probes(b) :
        /\ IsRequest(r) /\ r.token = None
        /\ r.task \in TaskIds \cup {None} /\ r.config \in ConfigIds

\* A row of the task table, and a table of them.
IsRow(row) ==
    /\ row = [owner |-> row.owner, tenant |-> row.tenant, state |-> row.state,
              key   |-> row.key,   configs |-> row.configs]
    /\ row.key \in Nat /\ row.configs \subseteq ConfigIds
IsTable(database) ==
    /\ database = [t \in TaskIds |-> database[t]]
    /\ \A t \in TaskIds : database[t] = None \/ IsRow(database[t])

ASSUME TablesAssumption ==
    /\ TaskIds \cup ConfigIds \subseteq Nat
    /\ IsFiniteSet(TaskIds) /\ IsFiniteSet(ConfigIds) /\ TaskIds # {}
    /\ \A database \in Databases \cup {ProbeDatabase} : IsTable(database)

\* A page size is at least one, and no id or row is mistaken for the lack of one.
ASSUME PagesAssumption ==
    /\ PageSizes \subseteq Nat \ {0} /\ MaxTime \in Nat \ {0}
    /\ None \notin Nat /\ None \notin [id : Nat, key : Nat]

Outcomes == {"WORKING", "INPUT_REQUIRED", "COMPLETED"}

request == client.request

NoCredentials ==
    [key |-> "none", header |-> None, token |-> "none", scopes |-> {},
     subject |-> "ann", authorizer |-> None]

\* The rows a listing request is about.
TaskRows(database) ==
    {[id |-> t, key |-> database[t].key] :
        t \in {u \in TaskIds : /\ database[u] # None
                               /\ database[u].tenant = request.tenant
                               /\ database[u].owner = Owner(server, request)}}

ConfigRows(database) ==
    IF database[request.task] = None THEN {}
    ELSE {[id |-> c, key |-> 0] : c \in database[request.task].configs}

Listed(database) ==
    IF request.op = "ListTasks" THEN TaskRows(database) ELSE ConfigRows(database)

Kind(r) == IF r.op = "ListTasks" THEN "tasks" ELSE "configs"

-----------------------------------------------------------------------------

Init ==
    /\ builder \in Builders
    /\ server = None
    /\ now = MaxTime - 1
    /\ client \in [phase : {"unbuilt"}, plan : {"probe", "tasks", "configs"},
                   card : {None}, request : {None}, answer : {None}, heard : {None}]
    /\ db \in IF client.plan = "probe" THEN {ProbeDatabase} ELSE Databases
    /\ walk = [listed |-> <<>>, steady |-> {}]
    /\ scan = None
    /\ writes = 0

BuildServer ==
    /\ client.phase = "unbuilt"
    /\ IF BuildRefusal(builder) = "none"
       THEN /\ server' = Built(builder)
            /\ client' = [client EXCEPT !.phase = "ready"]
       ELSE /\ client' = [client EXCEPT !.phase = "unserved"]
            /\ UNCHANGED server
    /\ UNCHANGED <<builder, db, now, walk, scan, writes>>

\* A2aClient::discover: the well-known card needs neither credential nor version.
Discover ==
    /\ client.phase = "ready"
    /\ client' = [client EXCEPT !.phase = "discovered", !.card = AgentCard(server)]
    /\ UNCHANGED <<builder, server, db, now, walk, scan, writes>>

\* An API key goes into the header the discovered card names.
Credentialed(r) ==
    [r EXCEPT !.cred.header = IF "apiKey" \in DOMAIN client.card.schemes
                              THEN client.card.schemes["apiKey"] ELSE None]

SendProbe ==
    /\ client.phase = "discovered" /\ client.plan = "probe"
    /\ \E r \in Probes(builder) :
          client' = [client EXCEPT !.phase = "sent", !.request = Credentialed(r)]
    /\ UNCHANGED <<builder, server, db, now, walk, scan, writes>>

StartWalk(r) ==
    /\ client.phase = "discovered" /\ client.plan # "probe"
    /\ Kind(r) = client.plan
    /\ client' = [client EXCEPT !.phase = "sent", !.request = r]
    /\ UNCHANGED <<builder, server, db, now, scan, writes>>
    /\ walk' = [walk EXCEPT !.steady = Listed(db)']

-----------------------------------------------------------------------------
(* The server.                                                             *)

\* A notification that was authenticated is answered with no content.
Reply(refusal) ==
    LET silent == request.twist = "notification" /\ refusal \notin AuthKinds
    IN  Encode(request.binding, IF silent THEN "NO_CONTENT" ELSE refusal)

\* The answer goes out: which tasks it shows, and the next page's cursor.
Answer(refusal, shown, page) ==
    client' = [client EXCEPT !.phase = "answered",
                             !.answer = [refusal |-> refusal, wire |-> Reply(refusal),
                                         shown |-> shown, page |-> page]]

NoPage == [rows |-> <<>>, next |-> None]

\* A request has arrived and its path refuses it with this.
Reached(refusal) ==
    /\ client.phase = "sent"
    /\ Refusal(request.binding, db, server, request) = refusal

Refused ==
    /\ client.phase = "sent"
    /\ LET refusal == Refusal(request.binding, db, server, request)
       IN  refusal # "none" /\ Answer(refusal, {}, NoPage)
    /\ UNCHANGED <<builder, server, db, now, walk, scan, writes>>

Read ==
    /\ Reached("none")
    /\ request.op \in {"GetTask", "SubscribeToTask", "GetConfig", "GetExtendedAgentCard"}
    /\ Answer("none", {request.task} \ {None}, NoPage)
    /\ UNCHANGED <<builder, server, db, now, walk, scan, writes>>

\* The commit time of a status write: two writes may fall on one instant.
Stamped == now' \in now .. MaxTime

Turn ==
    /\ Reached("none")
    /\ request.op \in Sends
    /\ Stamped
    /\ \E t \in TaskIds, state \in Outcomes :
          /\ IF request.task = None THEN db[t] = None ELSE t = request.task
          /\ db' = [db EXCEPT ![t] =
                [tenant  |-> request.tenant,
                 owner   |-> Owner(server, request),
                 state   |-> state,
                 key     |-> now',
                 configs |-> (IF db[t] = None THEN {} ELSE db[t].configs)
                               \cup (IF request.twist = "inline"
                                     THEN {request.config} ELSE {})]]
          /\ Answer("none", {t}, NoPage)
    /\ UNCHANGED <<builder, server, walk, scan, writes>>

Cancel ==
    /\ Reached("none")
    /\ request.op = "CancelTask"
    /\ Stamped
    /\ \E state \in TERMINAL_STATES :
          db' = [db EXCEPT ![request.task].state = state, ![request.task].key = now']
    /\ Answer("none", {request.task}, NoPage)
    /\ UNCHANGED <<builder, server, walk, scan, writes>>

WriteConfig ==
    /\ Reached("none")
    /\ request.op \in {"CreateConfig", "DeleteConfig"}
    /\ db' = [db EXCEPT ![request.task].configs =
                 IF request.op = "CreateConfig" THEN @ \cup {request.config}
                 ELSE @ \ {request.config}]
    /\ Answer("none", {request.task}, NoPage)
    /\ UNCHANGED <<builder, server, now, walk, scan, writes>>

\* One transaction or one lock reads the table; DynamoDB scans its tasks.
List ==
    /\ Reached("none")
    /\ \/ request.op = "ListConfigs"
       \/ request.op = "ListTasks" /\ server.backend # "dynamodb"
    /\ LET page == Paging!PageOf(server.backend, Kind(request), Listed(db),
                                 request.token, request.size)
           ids  == {page.rows[i].id : i \in DOMAIN page.rows}
       IN  Answer("none", IF request.op = "ListTasks" THEN ids ELSE {request.task}, page)
    /\ UNCHANGED <<builder, server, db, now, walk, scan, writes>>

ScanStarts ==
    /\ Reached("none")
    /\ request.op = "ListTasks" /\ server.backend = "dynamodb"
    /\ client' = [client EXCEPT !.phase = "scanning"]
    /\ scan' = [left |-> TaskIds, read |-> {}]
    /\ UNCHANGED <<builder, server, db, now, walk, writes>>

\* The scan follows the table's hash order, and reads each item as it is then.
ScanReads ==
    /\ client.phase = "scanning"
    /\ \E t \in scan.left :
          scan' = [left |-> scan.left \ {t},
                   read |-> scan.read \cup {row \in TaskRows(db) : row.id = t}]
    /\ UNCHANGED <<builder, server, db, now, client, walk, writes>>

ScanEnds ==
    /\ client.phase = "scanning" /\ scan.left = {}
    /\ LET page == Paging!PageOf("dynamodb", "tasks", scan.read,
                                 request.token, request.size)
       IN  Answer("none", {page.rows[i].id : i \in DOMAIN page.rows}, page)
    /\ scan' = None
    /\ UNCHANGED <<builder, server, db, now, walk, writes>>

-----------------------------------------------------------------------------
(* The client again: it reads the answer, and asks for the next page.      *)

Receive ==
    /\ client.phase = "answered"
    /\ LET heard == Decode(request.binding, client.answer.wire)
           page  == client.answer.page
           more  == ~heard.failed /\ page.next # None
       IN  /\ client' = [client EXCEPT
                 !.heard = heard,
                 !.phase = CASE more -> "sent"
                             [] ~more /\ client.plan = "probe" -> "done"
                             [] OTHER -> IF heard.failed THEN "done" ELSE "walked",
                 !.request.token = IF more THEN page.next ELSE @,
                 !.answer = None]
           /\ walk' = [walk EXCEPT !.listed =
                 IF client.plan = "probe" THEN @
                 ELSE @ \o [i \in DOMAIN page.rows |-> page.rows[i].id]]
    /\ UNCHANGED <<builder, server, db, now, scan, writes>>

-----------------------------------------------------------------------------
(* Other clients, during a walk.                                           *)

Walking ==
    /\ client.plan # "probe" /\ client.phase \in {"sent", "scanning", "answered"}
    /\ writes < MaxWrites
    /\ writes' = writes + 1

\* A row that moved or went is not one the walk owes exactly once.
Disturbs ==
    /\ walk' = [walk EXCEPT !.steady = @ \cap Listed(db')]
    /\ UNCHANGED <<builder, server, client, scan>>

StatusWritten(t) ==
    /\ Walking /\ Stamped
    /\ db[t] # None
    /\ db' = [db EXCEPT ![t].key = now']
    /\ Disturbs

TaskCreated(t) ==
    /\ Walking /\ Stamped
    /\ db[t] = None
    /\ db' = [db EXCEPT ![t] = [tenant |-> request.tenant, state |-> "WORKING",
                                owner |-> Owner(server, request), key |-> now',
                                configs |-> {}]]
    /\ Disturbs

\* delete_task, or the time to live of a row.
TaskRemoved(t) ==
    /\ Walking /\ UNCHANGED now
    /\ db[t] # None
    /\ db' = [db EXCEPT ![t] = None]
    /\ Disturbs

ConfigWritten(t, c) ==
    /\ Walking /\ UNCHANGED now
    /\ Kind(request) = "configs" /\ request.task = t
    /\ db[t] # None
    /\ db' = [db EXCEPT ![t].configs = IF c \in @ THEN @ \ {c} ELSE @ \cup {c}]
    /\ Disturbs

-----------------------------------------------------------------------------
(* The specification.                                                      *)

\* A walk asks for tasks, or for the push configs of one task.
WalkFrom(op, size) ==
    [op |-> op, binding |-> "HTTP", task |-> CHOOSE t \in TaskIds : TRUE,
     config |-> None, tenant |-> "", twist |-> "none", cred |-> NoCredentials,
     size |-> size, token |-> None]
Walks == {WalkFrom(op, size) : op \in {"ListTasks", "ListConfigs"}, size \in PageSizes}

Server == Refused \/ Read \/ Turn \/ Cancel \/ WriteConfig \/ List
            \/ ScanStarts \/ ScanReads \/ ScanEnds

Others(t) ==
    \/ StatusWritten(t) \/ TaskCreated(t) \/ TaskRemoved(t)
    \/ \E c \in ConfigIds : ConfigWritten(t, c)

Next ==
    \/ BuildServer \/ Discover \/ SendProbe
    \/ \E r \in Walks : StartWalk(r)
    \/ Server \/ Receive
    \/ \E t \in TaskIds : Others(t)

Spec == Init /\ [][Next]_vars

-----------------------------------------------------------------------------
(* Properties.                                                             *)

\* Every field of the session has its kind of value.
TypeOK ==
    /\ builder \in Builders
    /\ server = None \/ server = Built(builder)
    /\ now \in 0 .. MaxTime
    /\ writes \in 0 .. MaxWrites
    /\ client.phase \in {"unbuilt", "unserved", "ready", "discovered", "sent",
                         "scanning", "answered", "done", "walked"}
    /\ (scan = None) = (client.phase # "scanning")
    /\ walk.steady \subseteq [id : TaskIds \cup ConfigIds, key : 0 .. MaxTime]

\* Credentials satisfy one alternative of the card: every scheme of it, a key
\* sent in the header the card names, a token with the scopes it asks for.
Satisfies(cred, card, alternative) ==
    \A name \in DOMAIN alternative :
        IF name = "apiKey"
        THEN cred.key = "good" /\ cred.header = card.schemes[name]
        ELSE cred.token = "good" /\ alternative[name] \subseteq cred.scopes

\* Every layer publishes what it asks for, and the agent's own card neither
\* asks for anything nor defines a scheme a layer contributes.
OpenlyGuarded(b) ==
    /\ \A layer \in ToSet(b.stack) : \A leaf \in ToSet(layer) : Contributes(leaf)
    /\ b.card.requirements = {}
    /\ DOMAIN b.card.schemes \cap {s[1] : s \in SchemesOf(b.stack)} = {}

\* The merge of stacked and alternative middleware into the card tells the
\* truth: a client is refused its credentials exactly when they satisfy none
\* of the alternatives the discovered card advertises.
AdvertisedCredentialsAdmit ==
    (/\ client.phase = "answered" /\ server.adapter = "server"
     /\ OpenlyGuarded(builder) /\ request.twist = "none") =>
        LET alternatives == client.card.requirements
        IN  (client.answer.refusal \in AuthKinds)
              <=> /\ alternatives # {}
                  /\ \A a \in alternatives : ~Satisfies(request.cred, client.card, a)

\* No card a long-lived server publishes, public or extended, names a security
\* scheme it does not define, whatever the agent wrote and the stack adds.
PublishedRequirementsResolve ==
    (server # None /\ builder.adapter = "server") =>
        /\ \A req \in AgentCard(server).requirements \cup AgentCard(server).skills :
              DOMAIN req \subseteq DOMAIN AgentCard(server).schemes
        /\ server.extended # None =>
              \A req \in ExtendedCard(server).requirements
                            \cup ExtendedCard(server).skills :
                  DOMAIN req \subseteq DOMAIN ExtendedCard(server).schemes

\* The same request is decided the same way over HTTP, JSON-RPC and gRPC, and
\* whoever sent it learns the same reason: three handlers check in their own
\* order and share only the core.
SameEverywhere ==
    (client.phase = "sent" /\ request.twist \notin BindingTwists) =>
        \A b, c \in Bindings :
            LET heard(binding) ==
                    Decode(binding, Encode(binding,
                                           Refusal(binding, db, server, request)))
            IN  heard(b) = heard(c)

\* Whose rows these credentials may reach.
Principals(cred) ==
    (IF cred.key = "good" THEN {"ann"} ELSE {})
      \cup (IF cred.token = "good" THEN {cred.subject} ELSE {})
      \cup (IF server.stack = <<>> THEN {"anonymous"} ELSE {cred.authorizer})

\* An answer shows, and the handling of a request changes, only tasks of the
\* caller in the tenant the request names: no binding, no operation on a task
\* or its push configs, and no page of a listing crosses that line.
OwnRowsOnly ==
    (client.phase \in {"sent", "scanning"} /\ client'.phase = "answered") =>
        \A t \in TaskIds :
            (t \in client'.answer.shown \/ db'[t] # db[t]) =>
                \A row \in {db[t], db'[t]} \ {None} :
                    /\ row.owner \in Principals(request.cred)
                    /\ row.tenant = request.tenant
OnlyOwn == [][OwnRowsOnly]_vars

\* A client that follows the page tokens to the end has been shown each row
\* that stayed in place throughout exactly once, whatever other clients wrote
\* between and during its requests, timestamps tied or not, on every backend.
WalkIsComplete ==
    client.phase = "walked" =>
        \A row \in walk.steady :
            Cardinality({i \in DOMAIN walk.listed : walk.listed[i] = row.id}) = 1
=============================================================================
