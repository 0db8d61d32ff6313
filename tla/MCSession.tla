------------------------------- MODULE MCSession -------------------------------
(***************************************************************************)
(* Servers with at most one deviation from a plain one, and three kinds of *)
(* client: one request in every way it may depart from the plain call, one *)
(* plain request with every credential, and a walk through a listing.      *)
(***************************************************************************)
EXTENDS ClientSession

Requirement(name, scopes) == name :> scopes

PlainCard ==
    [schemes      |-> [name \in {} |-> None],
     requirements |-> {},
     skills       |-> {},
     capabilities |-> {"streaming", "push_notifications", "extended_agent_card"},
     input_modes  |-> {"text/plain"},
     profile      |-> "optional"]

PlainServer ==
    [adapter          |-> "server",
     executor         |-> TRUE,
     store            |-> [trait \in Traits |-> "sqlite"],
     dispatch_enabled |-> FALSE,
     delivery         |-> None,
     claim_expiry     |-> 10,
     backoff_cap      |-> 3,
     max_attempts     |-> 3,
     timer            |-> [t \in Timers |-> None],
     runtime          |-> TRUE,
     durable_queue    |-> FALSE,
     path_prefix      |-> None,
     stack            |-> <<>>,
     card             |-> PlainCard,
     extended         |-> PlainCard]

OnLambda(b) == [b EXCEPT !.adapter = "lambda"]
Wired(b) == [b EXCEPT !.dispatch_enabled = TRUE, !.delivery = "sqlite"]
With(card) == [PlainServer EXCEPT !.card = card]
Guarded(stack) == [PlainServer EXCEPT !.stack = stack]

\* Fields both builders look at, set wrong, unusually, or to their limit.
Settings ==
    {PlainServer, Wired(PlainServer),
     [PlainServer EXCEPT !.executor = FALSE],
     [PlainServer EXCEPT !.store["event"] = "dynamodb"],
     [PlainServer EXCEPT !.store["event"] = None],
     [PlainServer EXCEPT !.store = [trait \in Traits |-> None]],
     [PlainServer EXCEPT !.dispatch_enabled = TRUE],
     [PlainServer EXCEPT !.delivery = "sqlite"],
     [Wired(PlainServer) EXCEPT !.delivery = "postgres"],
     [Wired(PlainServer) EXCEPT !.claim_expiry = 9],
     [PlainServer EXCEPT !.timer["lease"] = "zero"],
     [PlainServer EXCEPT !.timer["idle"] = "zero"],
     [PlainServer EXCEPT !.timer["stall"] = "set", !.runtime = FALSE],
     [PlainServer EXCEPT !.path_prefix = "malformed"],
     [PlainServer EXCEPT !.durable_queue = TRUE]}

\* Cards: a capability missing, the profile required or unknown, any input
\* accepted, and references to schemes that are or are not declared.
Cards ==
    {With([PlainCard EXCEPT !.capabilities = @ \ {c}]) : c \in PlainCard.capabilities}
      \cup {With([PlainCard EXCEPT !.profile = p]) : p \in {None, "required"}}
      \cup {With([PlainCard EXCEPT !.input_modes = {"*/*"}]),
            With([PlainCard EXCEPT !.requirements = {Requirement("oauth", {})}]),
            With([PlainCard EXCEPT !.skills = {Requirement("bearer", {})}]),
            [PlainServer EXCEPT !.extended = None],
            [PlainServer EXCEPT !.extended.skills = {Requirement("bearer", {})}]}

Stacks ==
    {<<  <<ApiKey("x-key")>>  >>,
     <<  <<Bearer({"read"})>>  >>,
     <<  <<ApiKey("x-key")>>, <<Bearer({"read"})>>  >>,
     <<  <<Bearer({"read"})>>, <<Bearer({"write"})>>  >>,
     <<  <<ApiKey("x-key"), Bearer({"read"})>>  >>,
     <<  <<Bearer({"write"}), ApiKey("x-key")>>, <<Bearer({"read"})>>  >>,
     <<  <<ApiKey("x-key"), Bearer({"read"})>>,
         <<Bearer({"write"}), ApiKey("x-key")>>  >>,
     <<  <<ApiKey("x-key")>>, <<ApiKey("x-other")>>  >>,
     <<  <<Authorizer>>  >>,
     <<  <<Authorizer, Bearer({"read"})>>  >>}

\* The agent's card leans on a scheme only the stack declares.
Leaning ==
    {[Guarded(<<  <<Bearer({"read"})>>  >>) EXCEPT
        !.card.skills = {Requirement("bearer", {"read"})},
        !.extended.requirements = {Requirement("bearer", {})}]}

WalkedServers ==
    {[PlainServer EXCEPT !.store = [trait \in Traits |-> backend]] :
        backend \in {"in-memory", "sqlite", "postgres", "dynamodb"}}

MCBuilders ==
    LET servers == Settings \cup Cards \cup Leaning \cup {Guarded(s) : s \in Stacks}
    IN  servers \cup {OnLambda(b) : b \in servers} \cup WalkedServers

-----------------------------------------------------------------------------

GoodCredentials ==
    [NoCredentials EXCEPT !.key = "good", !.token = "good", !.subject = "bob",
                          !.scopes = {"read", "write"}, !.authorizer = "ann"]

Credentials ==
    [key : {"none", "bad", "ownerless", "good"}, header : {None},
     token : {"none", "bad", "ownerless"}, scopes : {{}}, subject : {"ann"},
     authorizer : {None, "bob"}]
    \cup
    [key : {"none", "bad", "ownerless", "good"}, header : {None},
     token : {"good"}, scopes : SUBSET {"read", "write"}, subject : {"ann", "bob"},
     authorizer : {None, "bob"}]

Call(op, binding, task, config, tenant, twist, cred) ==
    [op |-> op, binding |-> binding, task |-> task, config |-> config,
     tenant |-> tenant, twist |-> twist, cred |-> cred, size |-> 2, token |-> None]

TasksNamed(op) ==
    CASE op \in {"ListTasks", "GetExtendedAgentCard"} -> {None}
      [] op \in Sends -> {None} \cup TaskIds
      [] OTHER -> TaskIds

ConfigsNamed(op) ==
    IF op \in {"GetConfig", "DeleteConfig"} THEN ConfigIds
    ELSE {CHOOSE c \in ConfigIds : TRUE}

\* Ways a request may depart from the plain call of its operation.
Twists(op) ==
    {"none", "version", "inactive"} \cup BindingTwists \cup
    CASE op \in Sends -> {"skill", "message", "part", "immediate", "history",
                          "inline", "inline_url", "context"}
      [] op = "GetTask"   -> {"history"}
      [] op = "ListTasks" -> {"history", "status", "stamp", "size", "token"}
      [] op = "CreateConfig" -> {"url"}
      [] OTHER -> {}

\* Every way a request may depart from the plain call.
TwistedCalls ==
    UNION {{Call(op, binding, task, config, tenant, twist, NoCredentials) :
                binding \in Bindings, task \in TasksNamed(op),
                config \in ConfigsNamed(op), tenant \in {"", "acme"},
                twist \in Twists(op)} : op \in Operations}

\* Every credential, on a plain call of some operations.
GuardedCalls ==
    {Call(op, binding, task, 1, "", "none", cred) :
        op \in {"GetTask", "ListTasks", "CreateConfig"}, binding \in Bindings,
        task \in {1, 2}, cred \in Credentials}

MCProbes(b) ==
    IF b.stack # <<>>
    THEN GuardedCalls \cup {[r EXCEPT !.cred = GoodCredentials] :
                               r \in {q \in TwistedCalls : q.task \in {None, 2}
                                                           /\ q.tenant = ""}}
    ELSE TwistedCalls

Row(owner, tenant, state, key, configs) ==
    [owner |-> owner, tenant |-> tenant, state |-> state, key |-> key,
     configs |-> configs]

MCProbeDatabase ==
    <<Row("anonymous", "", "INPUT_REQUIRED", 1, {1}),
      Row("bob", "", "INPUT_REQUIRED", 1, {1, 2}),
      Row("anonymous", "acme", "COMPLETED", 0, {2}),
      None>>

MCDatabases ==
    {<<Row("anonymous", "", "WORKING", k[1], {1, 2}),
       Row("anonymous", "", "WORKING", k[2], {}),
       Row("anonymous", "", "WORKING", k[3], {}),
       None>> : k \in [1 .. 3 -> 1 .. 2]}

\* A walk is made on a plain server of each backend.
MCInit ==
    /\ Init
    /\ client.plan # "probe" => builder \in WalkedServers
    /\ client.plan = "configs" => \A t \in 1 .. 3 : db[t].key = 1

MCSpec == MCInit /\ [][Next]_vars
=============================================================================
