------------------------------ MODULE ServerBuild ------------------------------
(***************************************************************************)
(* What A2aServerBuilder::build and LambdaA2aServerBuilder::build refuse,   *)
(* and the card a server they accept publishes.  An agent's own card        *)
(* declares schemes and requirements; every middleware layer contributes    *)
(* its own, and the server's build merges them: layers are stacked (all     *)
(* must pass), the children of one AnyOfMiddleware are alternatives.        *)
(* A requirement is a function from scheme names to scopes, a set of        *)
(* requirements is a choice among them.                                     *)
(***************************************************************************)
EXTENDS Naturals, Sequences, FiniteSets, TLC, SequencesExt

CONSTANT None           \* no value: a builder field left unset, an absent row

(***************************************************************************)
(* A handler's early returns, in order: the first check that fails decides. *)
(***************************************************************************)
Refuse(with, when) == [with |-> with, fails |-> when]

FirstRefusal(checks) ==
    LET at == SelectInSeq(checks, LAMBDA check : check.fails)
    IN  IF at = 0 THEN "none" ELSE checks[at].with

-----------------------------------------------------------------------------
(* Middleware.  A stack is a sequence of layers, a layer a sequence of its *)
(* leaves: more than one is an AnyOfMiddleware.                            *)

ApiKey(header) == [kind |-> "apiKey", def |-> header, scopes |-> {}]
Bearer(scopes) == [kind |-> "bearer", def |-> "Bearer", scopes |-> scopes]
Authorizer     == [kind |-> "authorizer", def |-> "x-authorizer", scopes |-> {}]

\* A stack an adopter can write: AnyOfMiddleware refuses to have no child.
IsLayer(layer) ==
    /\ layer \in Seq(Range(layer)) /\ layer # <<>>
    /\ \A leaf \in Range(layer) :
          leaf = ApiKey(leaf.def) \/ leaf = Bearer(leaf.scopes) \/ leaf = Authorizer
IsStack(stack) ==
    stack \in Seq(Range(stack)) /\ \A layer \in Range(stack) : IsLayer(layer)

Contributes(leaf) == leaf.kind # "authorizer"

\* A layer's contribution: each child adds its scheme, and one alternative.
Contribution(layer) ==
    LET leaves == {leaf \in ToSet(layer) : Contributes(leaf)}
    IN  [schemes      |-> {<<leaf.kind, leaf.def>> : leaf \in leaves},
         requirements |-> {[name \in {leaf.kind} |-> leaf.scopes] : leaf \in leaves}]

SchemesOf(stack) == UNION {Contribution(layer).schemes : layer \in ToSet(stack)}

\* Two middleware define one scheme name differently.
Collide(stack) ==
    \E a, b \in SchemesOf(stack) : a[1] = b[1] /\ a[2] # b[2]

\* Some requirements at once: every scheme of any of them, with all its scopes.
Join(picked) ==
    [name \in UNION {DOMAIN picked[i] : i \in DOMAIN picked} |->
        UNION {picked[i][name] : i \in {j \in DOMAIN picked : name \in DOMAIN picked[j]}}]

\* (mutant) the layers' alternatives are pooled instead of combined.
Pool(offers) == UNION Range(offers)
\* The Cartesian product: an alternative of every layer, joined.
Conjoin(offers) ==
    {Join(picked) : picked \in {f \in [DOMAIN offers -> UNION Range(offers)] :
                                   \A i \in DOMAIN offers : f[i] \in offers[i]}}

Merge(stack) ==
    LET requires(i) == Contribution(stack[i]).requirements
        offers      == [i \in {j \in DOMAIN stack : requires(j) # {}} |-> requires(i)]
    IN  [schemes      |-> SchemesOf(stack),
         requirements |-> IF DOMAIN offers = {} THEN {} ELSE Conjoin(offers)]

Unmerged == [schemes |-> {}, requirements |-> {}]

-----------------------------------------------------------------------------
(* Cards.                                                                  *)

IsCard(card) ==
    card = [schemes      |-> card.schemes,      requirements |-> card.requirements,
            skills       |-> card.skills,       capabilities |-> card.capabilities,
            input_modes  |-> card.input_modes,  profile      |-> card.profile]

\* The card a client receives: the agent's own definition of a scheme stands.
Augment(card, merged) ==
    LET names == {scheme[1] : scheme \in merged.schemes}
        def(name) == IF name \in DOMAIN card.schemes THEN card.schemes[name]
                     ELSE (CHOOSE s \in merged.schemes : s[1] = name)[2]
    IN  [card EXCEPT
            !.schemes = [name \in DOMAIN card.schemes \cup names |-> def(name)],
            !.requirements = card.requirements \cup merged.requirements]

\* (mutant) only the card's own requirements are looked up, not its skills'.
UndeclaredByCard(card) ==
    \E req \in card.requirements : ~(DOMAIN req \subseteq DOMAIN card.schemes)
\* A requirement of the card or of a skill names a scheme it does not declare.
Undeclared(card) ==
    \E req \in card.requirements \cup card.skills :
        ~(DOMAIN req \subseteq DOMAIN card.schemes)

-----------------------------------------------------------------------------
(* The two builders.                                                       *)

Traits == {"task", "push", "event", "atomic", "cancellation"}
Timers == {"lease", "stall", "idle"}

\* A trait no setter was called for gets the long-lived server's default.
BackendOf(b, trait) ==
    IF b.store[trait] = None THEN "in-memory" ELSE b.store[trait]

Mismatched(b) == \E trait \in Traits : BackendOf(b, trait) # BackendOf(b, "task")

\* Marker rows need a dispatcher, a dispatcher needs marker rows.
HalfWired(b) == (b.delivery # None) # b.dispatch_enabled

\* Checks of a wired push delivery: one backend, claims outlive all retries.
DeliveryChecks(b) ==
    << Refuse("INTERNAL", b.delivery # None /\ b.delivery # BackendOf(b, "task")),
       Refuse("INTERNAL", b.delivery # None
                          /\ b.claim_expiry <= b.backoff_cap * b.max_attempts) >>

ServerRefusal(b) ==
    LET merged == Merge(b.stack)
    IN  FirstRefusal(
          << Refuse("INTERNAL", ~b.executor),
             Refuse("INTERNAL", \E t \in Timers : b.timer[t] = "zero"),
             Refuse("INTERNAL", (\E t \in Timers : b.timer[t] = "set") /\ ~b.runtime),
             Refuse("INTERNAL", Mismatched(b)),
             Refuse("INTERNAL", HalfWired(b)) >>
          \o DeliveryChecks(b) \o
          << Refuse("INTERNAL", Collide(b.stack)),
             Refuse("INVALID_REQUEST", Undeclared(Augment(b.card, merged))),
             Refuse("INVALID_REQUEST",
                    IF b.extended = None THEN FALSE
                    ELSE Undeclared(Augment(b.extended, merged))) >>)

\* No default store, no executor loops, and no look at the agent's card.
LambdaRefusal(b) ==
    FirstRefusal(
      << Refuse("INTERNAL", ~b.executor),
         Refuse("INTERNAL", \E trait \in Traits : b.store[trait] = None),
         Refuse("INTERNAL", Mismatched(b)),
         Refuse("INTERNAL", HalfWired(b)),
         Refuse("INTERNAL", b.timer["idle"] = "zero") >>
      \o DeliveryChecks(b) \o
      << Refuse("INVALID_REQUEST", b.path_prefix = "malformed") >>)

BuildRefusal(b) ==
    IF b.adapter = "server" THEN ServerRefusal(b) ELSE LambdaRefusal(b)

\* What the built server keeps.  SecurityAugmentedExecutor wraps the agent of
\* the long-lived server; the Lambda router is built on the agent itself.
Built(b) ==
    [adapter   |-> b.adapter,
     card      |-> b.card,
     extended  |-> b.extended,
     merged    |-> IF b.adapter = "server" THEN Merge(b.stack) ELSE Unmerged,
     stack     |-> b.stack,
     backend   |-> BackendOf(b, "task"),
     immediate |-> b.adapter = "server" \/ b.durable_queue]

AgentCard(s) == Augment(s.card, s.merged)
ExtendedCard(s) == Augment(s.extended, s.merged)
=============================================================================
