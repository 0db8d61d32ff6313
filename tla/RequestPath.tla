------------------------------ MODULE RequestPath ------------------------------
(***************************************************************************)
(* The way of one request through a server: transport compliance, the      *)
(* middleware stack, extension negotiation, the binding's own decoding,    *)
(* the skill-invocation profile, and the core handler the three bindings   *)
(* share.  A request departs from the plainest call of its operation in at *)
(* most one way, its twist; the task it names, its credentials and the     *)
(* server's card are independent of that.  A binding's path is the list of *)
(* its refusals in the order the code makes them.                          *)
(***************************************************************************)
EXTENDS ServerBuild

Sends   == {"SendMessage", "SendStreamingMessage"}
Streams == {"SendStreamingMessage", "SubscribeToTask"}
Configs == {"CreateConfig", "GetConfig", "ListConfigs", "DeleteConfig"}
\* Operations on a task that is there already.
OnTask == {"GetTask", "CancelTask", "SubscribeToTask"} \cup Configs
Operations == Sends \cup OnTask \cup {"ListTasks", "GetExtendedAgentCard"}

Bindings == {"HTTP", "JSONRPC", "gRPC"}

TERMINAL_STATES == {"COMPLETED", "CANCELED"}

\* Twists that exist on one binding only, or that each binding decodes its way.
BindingTwists ==
    {"content_type", "query", "parse", "envelope", "null_id", "array_params",
     "method", "notification", "params", "body"}

-----------------------------------------------------------------------------
(* Authentication.  A verdict is <<"ok", owner>> or <<class, kind>>.       *)

Presented == {"none", "bad", "ownerless", "good"}

IsCredential(cred) ==
    /\ cred = [key    |-> cred.key,    header  |-> cred.header,
               token  |-> cred.token,  subject |-> cred.subject,
               scopes |-> cred.scopes, authorizer |-> cred.authorizer]
    /\ cred.key \in Presented /\ cred.token \in Presented

IsRequest(r) ==
    /\ r = [op     |-> r.op,     binding |-> r.binding, task  |-> r.task,
            config |-> r.config, tenant  |-> r.tenant,  twist |-> r.twist,
            cred   |-> r.cred,   size    |-> r.size,    token |-> r.token]
    /\ r.op \in Operations /\ r.binding \in Bindings
    /\ IsCredential(r.cred)
    /\ r.size \in Nat \ {0}
    /\ r.op = "GetExtendedAgentCard" => r.task = None
    /\ r.op \in OnTask => r.task # None

KeyVerdict ==
    [none      |-> <<"Unauthenticated", "MISSING_CREDENTIAL">>,
     bad       |-> <<"Unauthenticated", "INVALID_API_KEY">>,
     ownerless |-> <<"Unauthenticated", "EMPTY_PRINCIPAL">>,
     good      |-> <<"ok", "ann">>]

TokenVerdict(cred) ==
    [none      |-> <<"HttpChallenge", "MISSING_CREDENTIAL">>,
     bad       |-> <<"HttpChallenge", "INVALID_TOKEN">>,
     ownerless |-> <<"Unauthenticated", "EMPTY_PRINCIPAL">>,
     good      |-> <<"ok", cred.subject>>]

BearerVerdict(leaf, cred) ==
    LET verdict == TokenVerdict(cred)[cred.token]
    IN  IF verdict[1] = "ok" /\ ~(leaf.scopes \subseteq cred.scopes)
        THEN <<"HttpChallenge", "INSUFFICIENT_SCOPE">>
        ELSE verdict

LeafVerdict(leaf, cred) ==
    CASE leaf.kind = "apiKey" ->
            KeyVerdict[IF cred.header = leaf.def THEN cred.key ELSE "none"]
      [] leaf.kind = "bearer" -> BearerVerdict(leaf, cred)
      [] leaf.kind = "authorizer" ->
            IF cred.authorizer = None THEN <<"Unauthenticated", "MISSING_CREDENTIAL">>
            ELSE <<"ok", cred.authorizer>>

Precedence == [Unauthenticated |-> 1, HttpChallenge |-> 2, Forbidden |-> 3]

\* AnyOfMiddleware: the first child that passes, or the gravest failure (the
\* first of them).
AnyOf(verdicts) ==
    LET passing    == SelectInSeq(verdicts, LAMBDA v : v[1] = "ok")
        Gravest(v) == \A w \in ToSet(verdicts) : Precedence[w[1]] <= Precedence[v[1]]
    IN  verdicts[IF passing # 0 THEN passing ELSE SelectInSeq(verdicts, Gravest)]
LayerVerdict(layer, cred) == AnyOf([i \in DOMAIN layer |-> LeafVerdict(layer[i], cred)])

\* MiddlewareStack: every layer must pass, the last one's identity stands.
AllOf(verdicts) ==
    LET failing == SelectInSeq(verdicts, LAMBDA v : v[1] # "ok")
    IN  IF failing # 0 THEN verdicts[failing] ELSE Last(verdicts)
StackVerdict(stack, cred) ==
    IF stack = <<>> THEN <<"ok", "anonymous">>
    ELSE AllOf([i \in DOMAIN stack |-> LayerVerdict(stack[i], cred)])

AuthKinds == {"MISSING_CREDENTIAL", "INVALID_API_KEY", "EMPTY_PRINCIPAL",
              "INVALID_TOKEN", "INSUFFICIENT_SCOPE"}

Authentication(s, r) ==
    LET verdict == StackVerdict(s.stack, r.cred)
    IN  Refuse(verdict[2], verdict[1] # "ok")

Owner(s, r) == StackVerdict(s.stack, r.cred)[2]

-----------------------------------------------------------------------------
(* The shared core.                                                        *)

\* (mutant) the row is found by its key, whoever owns it.
SeenByAnyone(db, s, r) == db[r.task] # None /\ db[r.task].tenant = r.tenant
\* get_task: the row of this tenant, task and owner.
Seen(db, s, r) ==
    /\ db[r.task] # None
    /\ db[r.task].tenant = r.tenant
    /\ db[r.task].owner = Owner(s, r)

Lacks(s, capability) == capability \notin AgentCard(s).capabilities

Visibility(db, s, r) == Refuse("TASK_NOT_FOUND", ~Seen(db, s, r))

History(r) == Refuse("INVALID_REQUEST", r.twist = "history")

MessageChecks(s, r) ==
    << Refuse("INVALID_REQUEST", r.twist \in {"body", "message"}),
       Refuse("CONTENT_TYPE_NOT_SUPPORTED",
              r.twist = "part" /\ AgentCard(s).input_modes # {"*/*"}) >>

InlineConfigChecks(s, r) ==
    << Refuse("PUSH_NOTIFICATION_NOT_SUPPORTED",
              r.twist \in {"inline", "inline_url"} /\ Lacks(s, "push_notifications")),
       Refuse("INVALID_REQUEST", r.twist = "inline_url") >>

\* resolve_send_target: nothing to check when the message names no task.
TargetChecks(db, s, r) ==
    IF r.task = None THEN <<>>
    ELSE << Visibility(db, s, r),
            Refuse("INVALID_REQUEST", r.twist = "context"),
            Refuse("UNSUPPORTED_OPERATION",
                   Seen(db, s, r) /\ db[r.task].state # "INPUT_REQUIRED") >>

SendChecks(db, s, r) ==
    MessageChecks(s, r) \o
    << Refuse("UNSUPPORTED_OPERATION", r.twist = "immediate" /\ ~s.immediate),
       History(r) >>
    \o InlineConfigChecks(s, r) \o TargetChecks(db, s, r)

Streaming(s) == Refuse("UNSUPPORTED_OPERATION", Lacks(s, "streaming"))

StreamChecks(db, s, r) ==
    << Streaming(s), History(r) >> \o MessageChecks(s, r)
    \o InlineConfigChecks(s, r) \o TargetChecks(db, s, r)

Finished(db, s, r) == Seen(db, s, r) /\ db[r.task].state \in TERMINAL_STATES

ConfigChecks(db, s, r) ==
    << Refuse("PUSH_NOTIFICATION_NOT_SUPPORTED", Lacks(s, "push_notifications")),
       Visibility(db, s, r),
       Refuse("INVALID_REQUEST",
              r.op = "CreateConfig" /\ r.twist \in {"body", "url"}),
       Refuse("TASK_NOT_FOUND",
              r.op = "GetConfig" /\ Seen(db, s, r)
                /\ r.config \notin db[r.task].configs) >>

\* ListTasksQuery and checked_page_size: a filter, size or token of no use.
ListChecks(r) ==
    << Refuse("INVALID_REQUEST",
              r.twist \in {"history", "status", "stamp", "size", "token"}) >>

ExtendedCardChecks(s) ==
    << Refuse("UNSUPPORTED_OPERATION", Lacks(s, "extended_agent_card")),
       Refuse("EXTENDED_AGENT_CARD_NOT_CONFIGURED", s.extended = None) >>

CoreChecks(db, s, r) ==
    CASE r.op = "SendMessage" -> SendChecks(db, s, r)
      [] r.op = "SendStreamingMessage" -> StreamChecks(db, s, r)
      [] r.op = "GetTask"    -> << History(r), Visibility(db, s, r) >>
      [] r.op = "ListTasks"  -> ListChecks(r)
      [] r.op = "CancelTask" ->
            << Visibility(db, s, r),
               Refuse("TASK_NOT_CANCELABLE", Finished(db, s, r)) >>
      [] r.op = "SubscribeToTask" ->
            << Streaming(s), Visibility(db, s, r),
               Refuse("UNSUPPORTED_OPERATION", Finished(db, s, r)) >>
      [] r.op \in Configs -> ConfigChecks(db, s, r)
      [] r.op = "GetExtendedAgentCard" -> ExtendedCardChecks(s)

-----------------------------------------------------------------------------
(* The bindings.                                                           *)

Version(r) == Refuse("VERSION_NOT_SUPPORTED", r.twist = "version")

\* validate_activation: a required extension was not activated.
Activation(s, r) ==
    Refuse("EXTENSION_SUPPORT_REQUIRED",
           AgentCard(s).profile = "required" /\ r.twist = "inactive")

\* The profile is advertised and activated, and the send names no skill.
Skill(s, r) ==
    Refuse("INVALID_REQUEST", AgentCard(s).profile # None /\ r.twist = "skill")

Posts == Sends \cup {"CancelTask", "CreateConfig"}
Queries == {"GetTask", "ListTasks", "ListConfigs"}

ContentType(binding, r) ==
    Refuse("CONTENT_TYPE_NOT_SUPPORTED",
           r.twist = "content_type" /\ (binding = "JSONRPC" \/ r.op \in Posts))

HttpChecks(db, s, r) ==
    << Version(r), ContentType("HTTP", r), Authentication(s, r), Activation(s, r),
       Refuse("BAD_QUERY", r.twist = "query" /\ r.op \in Queries),
       Skill(s, r) >>
    \o CoreChecks(db, s, r)

\* The parameters lack the id a method needs; HTTP has it in the path.
Required(r) == Refuse("INVALID_REQUEST", r.twist = "params" /\ r.op \in OnTask)

\* A notification is answered with no content whatever becomes of it, and a
\* streaming method is not even run for one.
JsonRpcChecks(db, s, r) ==
    << Version(r), ContentType("JSONRPC", r), Authentication(s, r), Activation(s, r),
       Refuse("PARSE_ERROR", r.twist = "parse"),
       Refuse("INVALID_ENVELOPE", r.twist \in {"envelope", "null_id"}),
       Refuse("INVALID_REQUEST", r.twist = "array_params"),
       Skill(s, r),
       Refuse("NO_CONTENT", r.twist = "notification" /\ r.op \in Streams),
       Refuse("METHOD_NOT_FOUND", r.twist = "method"),
       Required(r) >>
    \o CoreChecks(db, s, r)

\* (mutant) the gRPC service leaves the skill profile to the executor.
GrpcChecksUnprofiled(db, s, r) ==
    << Version(r), Authentication(s, r), Activation(s, r) >> \o CoreChecks(db, s, r)
GrpcChecks(db, s, r) ==
    << Version(r), Authentication(s, r), Activation(s, r), Skill(s, r) >>
    \o CoreChecks(db, s, r)

Refusal(binding, db, s, r) ==
    FirstRefusal(CASE binding = "HTTP"    -> HttpChecks(db, s, r)
                   [] binding = "JSONRPC" -> JsonRpcChecks(db, s, r)
                   [] binding = "gRPC"    -> GrpcChecks(db, s, r))

-----------------------------------------------------------------------------
(* The answer on the wire, and the error a client makes of it.  A reason   *)
(* travels as an ErrorInfo detail: InvalidRequest and Internal have none.  *)

A2aReasons == {"TASK_NOT_FOUND", "TASK_NOT_CANCELABLE",
               "PUSH_NOTIFICATION_NOT_SUPPORTED", "UNSUPPORTED_OPERATION",
               "CONTENT_TYPE_NOT_SUPPORTED", "EXTENSION_SUPPORT_REQUIRED",
               "EXTENDED_AGENT_CARD_NOT_CONFIGURED", "VERSION_NOT_SUPPORTED"}

ErrorInfo(refusal) ==
    IF refusal \in A2aReasons \cup AuthKinds THEN refusal ELSE None

\* Authentication failures carry 401 or 403 on every binding but gRPC; a
\* JSON-RPC error is otherwise a 200 response with an error member.
HttpStatus(refusal) ==
    CASE refusal \in {"none", "NO_CONTENT"} -> 200
      [] refusal = "INSUFFICIENT_SCOPE"    -> 403
      [] refusal \in AuthKinds \ {"INSUFFICIENT_SCOPE"} -> 401
      [] refusal = "TASK_NOT_FOUND"        -> 404
      [] OTHER                             -> 400

GrpcCode(refusal) ==
    CASE refusal = "none"                  -> "OK"
      [] refusal = "INSUFFICIENT_SCOPE"    -> "PERMISSION_DENIED"
      [] refusal \in AuthKinds \ {"INSUFFICIENT_SCOPE"} -> "UNAUTHENTICATED"
      [] refusal = "TASK_NOT_FOUND"        -> "NOT_FOUND"
      [] refusal \in {"INVALID_REQUEST", "CONTENT_TYPE_NOT_SUPPORTED"} ->
            "INVALID_ARGUMENT"
      [] OTHER                             -> "FAILED_PRECONDITION"

Encode(binding, refusal) ==
    [status  |-> CASE binding = "gRPC" -> GrpcCode(refusal)
                   [] binding = "HTTP" -> HttpStatus(refusal)
                   [] OTHER -> IF refusal \in AuthKinds THEN HttpStatus(refusal) ELSE 200,
     error   |-> refusal \notin {"none", "NO_CONTENT", "BAD_QUERY"},
     details |-> ErrorInfo(refusal)]

\* From<tonic::Status>: every code but OK is an error; its reason is the one in
\* the ErrorInfo detail.
DecodeStatus(wire) ==
    [failed |-> wire.status # "OK",
     reason |-> IF wire.error THEN wire.details ELSE None]

\* parse_error, of the HTTP client: what is not a success is an error.
DecodeBody(wire) ==
    [failed |-> wire.status >= 300,
     reason |-> IF wire.error THEN wire.details ELSE None]

\* Any JSON-RPC client (the repository has none): the response has an error
\* member or not, and the ErrorInfo is among its data.
DecodeResponse(wire) ==
    [failed |-> wire.error,
     reason |-> IF wire.error THEN wire.details ELSE None]

Decode(binding, wire) ==
    CASE binding = "gRPC"    -> DecodeStatus(wire)
      [] binding = "HTTP"    -> DecodeBody(wire)
      [] binding = "JSONRPC" -> DecodeResponse(wire)
=============================================================================
