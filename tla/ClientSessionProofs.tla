-------------------------- MODULE ClientSessionProofs --------------------------
(***************************************************************************)
(* Theorems about ClientSession, for every stack of middleware, every card *)
(* and every request.                                                      *)
(***************************************************************************)
EXTENDS ClientSession, FiniteSetTheorems, FunctionTheorems, WellFoundedInduction, TLAPS

-------------------------------------------------------------------------------
(* The first of some numbers, and the first refusal of a path *)

\* A set of natural numbers with an element has a least one.
LEMMA Least ==
  ASSUME NEW T \in SUBSET Nat, T # {}
  PROVE  Min(T) \in T /\ \A y \in T : Min(T) <= y
<1> DEFINE R == {ss \in Nat \X Nat : ss[1] < ss[2]}
<1>1. IsWellFoundedOn(R, Nat)
  BY NatLessThanWellFounded, Zenon DEF OpToRel
<1>2. PICK x \in T : \A y \in T : <<y, x>> \notin R
  BY <1>1, WFMin, Zenon
<1>3. \A y \in T : x <= y \/ <<y, x>> \in R
  OBVIOUS
<1>4. QED
  BY <1>2, <1>3, Zenon DEF Min

\* A handler's early returns: whatever fails refuses the request by a name.
IsPath(checks) ==
  /\ checks \in Seq(Range(checks))
  /\ \A i \in DOMAIN checks : /\ checks[i].fails \in BOOLEAN
                              /\ checks[i].fails => checks[i].with # "none"

\* The first failing check refuses, and only if none fails nothing is refused.
LEMMA RefusalOf ==
  ASSUME NEW checks, checks \in Seq(Range(checks))
  PROVE  \/ /\ \A i \in DOMAIN checks : ~checks[i].fails
            /\ FirstRefusal(checks) = "none"
         \/ \E k \in DOMAIN checks : /\ checks[k].fails
                                     /\ \A j \in 1..(k - 1) : ~checks[j].fails
                                     /\ FirstRefusal(checks) = checks[k].with
<1> DEFINE F == {i \in 1..Len(checks) : checks[i].fails}
           at == SelectInSeq(checks, LAMBDA check : check.fails)
<1>1. DOMAIN checks = 1..Len(checks) /\ Len(checks) \in Nat
  OBVIOUS
<1>2. FirstRefusal(checks) = IF at = 0 THEN "none" ELSE checks[at].with
  BY DEF FirstRefusal
<1>3. at = IF F # {} THEN Min(F) ELSE 0
  BY DEF SelectInSeq
<1>4. CASE F = {}
  BY <1>1, <1>2, <1>3, <1>4
<1>5. CASE F # {}
  <2>1. F \in SUBSET Nat
    OBVIOUS
  <2>2. Min(F) \in F /\ \A j \in F : Min(F) <= j
    BY <1>5, <2>1, Least
  <2>3. at \in DOMAIN checks /\ checks[at].fails /\ at # 0
    BY <1>1, <1>3, <1>5, <2>2
  <2>4. ASSUME NEW j \in 1..(at - 1)
        PROVE  ~checks[j].fails
    <3>1. j \in 1..Len(checks) /\ ~(at <= j)
      BY <1>1, <2>3
    <3>2. j \notin F
      BY <1>3, <1>5, <2>2, <3>1
    <3>3. QED
      BY <3>1, <3>2
  <2> HIDE DEF at
  <2>5. QED
    BY <1>2, <2>3, <2>4
<1>6. QED
  BY <1>4, <1>5

\* Two paths one after the other.
After(first, second) == IF first = "none" THEN second ELSE first

LEMMA PathsJoin ==
  ASSUME NEW s, NEW t, IsPath(s), IsPath(t)
  PROVE  /\ IsPath(s \o t)
         /\ FirstRefusal(s \o t) = After(FirstRefusal(s), FirstRefusal(t))
<1> DEFINE S == Range(s) \cup Range(t)
<1>1. s \in Seq(S) /\ t \in Seq(S)
  BY DEF IsPath
<1>2. /\ s \o t \in Seq(S)
      /\ Len(s \o t) = Len(s) + Len(t)
      /\ \A i \in 1..Len(s) : (s \o t)[i] = s[i]
      /\ \A i \in 1..Len(t) : (s \o t)[Len(s) + i] = t[i]
      /\ \A i \in 1..(Len(s) + Len(t)) :
            (s \o t)[i] = IF i <= Len(s) THEN s[i] ELSE t[i - Len(s)]
  BY <1>1
<1>3. IsPath(s \o t)
  <2>1. \A i \in DOMAIN (s \o t) : (s \o t)[i] \in Range(s \o t)
    BY DEF Range
  <2>2. s \o t \in Seq(Range(s \o t))
    <3> DEFINE u == s \o t
    <3>1. u \in Seq(S) /\ \A i \in 1..Len(u) : u[i] \in Range(u)
      BY <1>2, <2>1
    <3> HIDE DEF u
    <3>2. u = [i \in 1..Len(u) |-> u[i]] /\ Len(u) \in Nat
      BY <3>1
    <3>3. u \in [1..Len(u) -> Range(u)]
      BY <3>1, <3>2
    <3>4. u \in Seq(Range(u))
      BY <3>2, <3>3
    <3>5. QED
      BY <3>4 DEF u
  <2>3. QED
    BY <1>1, <1>2, <2>2 DEF IsPath
<1>4. FirstRefusal(s \o t) = After(FirstRefusal(s), FirstRefusal(t))
  <2> DEFINE u == s \o t
  <2>1. u \in Seq(Range(u)) /\ s \in Seq(Range(s)) /\ t \in Seq(Range(t))
    BY <1>3 DEF IsPath
  <2>2. /\ Len(s) \in Nat /\ DOMAIN s = 1..Len(s)
        /\ Len(t) \in Nat /\ DOMAIN t = 1..Len(t)
        /\ DOMAIN u = 1..(Len(s) + Len(t))
        /\ \A i \in 1..(Len(s) + Len(t)) :
              u[i] = IF i <= Len(s) THEN s[i] ELSE t[i - Len(s)]
        /\ \A i \in 1..Len(s) : u[i] = s[i]
        /\ \A i \in 1..Len(t) : u[Len(s) + i] = t[i]
    BY <1>1, <1>2
  <2> HIDE DEF u
  <2>3. CASE \A i \in DOMAIN s : ~s[i].fails
    <3>1. FirstRefusal(s) = "none"
      BY <2>1, <2>3, RefusalOf
    <3>2. QED
      <4>1. CASE \A i \in DOMAIN t : ~t[i].fails
        <5>1. ASSUME NEW i \in DOMAIN u
              PROVE  ~u[i].fails
          <6>1. i \in 1..Len(s) \/ i - Len(s) \in 1..Len(t)
            BY <2>2
          <6>2. QED
            BY <2>2, <2>3, <4>1, <6>1
        <5>2. FirstRefusal(u) = "none" /\ FirstRefusal(t) = "none"
          BY <2>1, <4>1, <5>1, RefusalOf
        <5>3. QED
          BY <3>1, <5>2 DEF After, u
      <4>2. CASE \E i \in DOMAIN t : t[i].fails
        <5>1. PICK k \in DOMAIN t : /\ t[k].fails
                                    /\ \A j \in 1..(k - 1) : ~t[j].fails
                                    /\ FirstRefusal(t) = t[k].with
          BY <2>1, <4>2, RefusalOf
        <5>2. PICK m \in DOMAIN u : /\ u[m].fails
                                    /\ \A j \in 1..(m - 1) : ~u[j].fails
                                    /\ FirstRefusal(u) = u[m].with
          <6>1. u[Len(s) + k].fails /\ Len(s) + k \in DOMAIN u
            BY <2>2, <5>1
          <6>2. QED
            BY <2>1, <2>2, <6>1, RefusalOf
        <5>3. m = Len(s) + k
          <6>1. m - Len(s) \in 1..Len(t)
            BY <2>2, <2>3, <5>2
          <6>2. ~(m - Len(s) < k)
            BY <2>2, <5>1, <5>2, <6>1
          <6>3. ~(Len(s) + k < m)
            BY <2>2, <5>1, <5>2, <6>1
          <6>4. QED
            BY <2>2, <6>1, <6>2, <6>3
        <5>4. QED
          BY <2>2, <3>1, <5>1, <5>2, <5>3 DEF After, u
      <4>3. QED
        BY <4>1, <4>2
  <2>4. CASE \E i \in DOMAIN s : s[i].fails
    <3>1. PICK k \in DOMAIN s : /\ s[k].fails
                                /\ \A j \in 1..(k - 1) : ~s[j].fails
                                /\ FirstRefusal(s) = s[k].with
      BY <2>1, <2>4, RefusalOf
    <3>2. PICK m \in DOMAIN u : /\ u[m].fails
                                /\ \A j \in 1..(m - 1) : ~u[j].fails
                                /\ FirstRefusal(u) = u[m].with
      <4>1. u[k].fails /\ k \in DOMAIN u
        BY <2>2, <3>1
      <4>2. QED
        BY <2>1, <4>1, RefusalOf
    <3>3. m = k
      <4>1. ~(m < k)
        BY <2>2, <3>1, <3>2
      <4>2. ~(k < m)
        BY <2>2, <3>1, <3>2
      <4>3. QED
        BY <2>2, <4>1, <4>2
    <3>4. QED
      BY <2>2, <3>1, <3>2, <3>3 DEF After, IsPath, u
  <2>5. QED
    BY <2>3, <2>4
<1>5. QED
  BY <1>3, <1>4

\* What a single check makes of a request.
Made(check) == IF check.fails THEN check.with ELSE "none"

IsCheck(check) == check.fails \in BOOLEAN /\ (check.fails => check.with # "none")
IsQuiet(check) == check.fails = FALSE

\* The checks that refuse with one of these kinds, and the paths of them.
Check(kinds) == [with : kinds, fails : BOOLEAN]
Path(kinds) == Seq(Check(kinds))

LEMMA PathIs ==
  ASSUME NEW kinds, "none" \notin kinds, NEW checks \in Path(kinds)
  PROVE  /\ IsPath(checks)
         /\ FirstRefusal(checks) \in kinds \cup {"none"}
<1>1. \A i \in 1..Len(checks) : checks[i] \in Check(kinds)
  BY DEF Path
<1>2. DOMAIN checks = 1..Len(checks) /\ Len(checks) \in Nat
  BY DEF Path
<1>3. checks \in Seq(Range(checks))
  <2>1. \A i \in 1..Len(checks) : checks[i] \in Range(checks)
    BY <1>2 DEF Range
  <2>2. checks = [i \in 1..Len(checks) |-> checks[i]]
    BY <1>2 DEF Path
  <2>3. checks \in [1..Len(checks) -> Range(checks)]
    BY <2>1, <2>2
  <2>4. QED
    BY <1>2, <2>3
<1>4. IsPath(checks)
  BY <1>1, <1>2, <1>3 DEF IsPath, Check
<1>5. FirstRefusal(checks) \in kinds \cup {"none"}
  BY <1>1, <1>2, <1>3, RefusalOf DEF Check
<1>6. QED
  BY <1>4, <1>5

\* What is not refused has passed every check.
LEMMA NoneFails ==
  ASSUME NEW s, IsPath(s), FirstRefusal(s) = "none"
  PROVE  \A m \in DOMAIN s : ~s[m].fails
BY RefusalOf DEF IsPath

\* The four checks every binding makes before the core, whatever it checks
\* in between.
InOrder(a, b, c, d) == After(Made(a), After(Made(b), After(Made(c), Made(d))))

LEMMA FourOf ==
  ASSUME NEW s, s \in Seq(Range(s)),
         NEW a \in DOMAIN s, NEW b \in DOMAIN s, NEW c \in DOMAIN s, NEW d \in DOMAIN s,
         a < b, b < c, c < d,
         IsCheck(s[a]), IsCheck(s[b]), IsCheck(s[c]), IsCheck(s[d]),
         \A m \in DOMAIN s \ {a, b, c, d} : IsQuiet(s[m])
  PROVE  IsPath(s) /\ FirstRefusal(s) = InOrder(s[a], s[b], s[c], s[d])
<1>1. IsPath(s)
  BY DEF IsPath, IsCheck, IsQuiet
<1>2. FirstRefusal(s) = InOrder(s[a], s[b], s[c], s[d])
  <2>1. CASE \A m \in DOMAIN s : ~s[m].fails
    <3>1. /\ ~s[a].fails /\ ~s[b].fails /\ ~s[c].fails /\ ~s[d].fails
          /\ FirstRefusal(s) = "none"
      BY <2>1, RefusalOf
    <3>2. QED
      BY <3>1 DEF After, Made, InOrder
  <2>2. CASE \E m \in DOMAIN s : s[m].fails
    <3>1. PICK k \in DOMAIN s : /\ s[k].fails
                                /\ \A m \in 1..(k - 1) : ~s[m].fails
                                /\ FirstRefusal(s) = s[k].with
      BY <2>2, RefusalOf
    <3>2. k = a \/ k = b \/ k = c \/ k = d
      BY <3>1 DEF IsQuiet
    <3>3. a \in Nat \ {0} /\ b \in Nat /\ c \in Nat /\ d \in Nat
      OBVIOUS
    <3>4. CASE k = a
      BY <3>1, <3>4 DEF After, Made, InOrder, IsCheck
    <3>5. CASE k = b
      <4>1. ~s[a].fails
        BY <3>1, <3>3, <3>5
      <4>2. QED
        BY <3>1, <3>5, <4>1 DEF After, Made, InOrder, IsCheck
    <3>6. CASE k = c
      <4>1. ~s[a].fails /\ ~s[b].fails
        BY <3>1, <3>3, <3>6
      <4>2. QED
        BY <3>1, <3>6, <4>1 DEF After, Made, InOrder, IsCheck
    <3>7. CASE k = d
      <4>1. ~s[a].fails /\ ~s[b].fails /\ ~s[c].fails
        BY <3>1, <3>3, <3>7
      <4>2. QED
        BY <3>1, <3>7, <4>1 DEF After, Made, InOrder, IsCheck
    <3>8. QED
      BY <3>2, <3>4, <3>5, <3>6, <3>7
  <2>3. QED
    BY <2>1, <2>2
<1>3. QED
  BY <1>1, <1>2

-------------------------------------------------------------------------------
(* Authentication *)

\* These credentials satisfy this middleware.
Admits(leaf, cred) ==
  \/ leaf.kind = "apiKey" /\ cred.header = leaf.def /\ cred.key = "good"
  \/ leaf.kind = "bearer" /\ cred.token = "good" /\ leaf.scopes \subseteq cred.scopes
  \/ leaf.kind = "authorizer" /\ cred.authorizer # None

\* Who the credentials speak for.
Holders(cred) ==
  (IF cred.key = "good" THEN {"ann"} ELSE {})
    \cup (IF cred.token = "good" THEN {cred.subject} ELSE {}) \cup {cred.authorizer}

\* A verdict that admits or refuses, in so many words.
IsVerdict(v, cred) ==
  \/ v[1] = "ok" /\ v[2] \in Holders(cred)
  \/ v[1] \in {"Unauthenticated", "HttpChallenge"} /\ v[2] \in AuthKinds

LEMMA LeafVerdictIs ==
  ASSUME NEW leaf, NEW cred, IsCredential(cred),
         leaf = ApiKey(leaf.def) \/ leaf = Bearer(leaf.scopes) \/ leaf = Authorizer
  PROVE  /\ IsVerdict(LeafVerdict(leaf, cred), cred)
         /\ LeafVerdict(leaf, cred)[1] = "ok" <=> Admits(leaf, cred)
<1>1. cred.key \in Presented /\ cred.token \in Presented
  BY DEF IsCredential
<1>2. CASE leaf = ApiKey(leaf.def)
  <2>1. leaf.kind = "apiKey"
    BY <1>2 DEF ApiKey
  <2>2. LeafVerdict(leaf, cred) = KeyVerdict[IF cred.header = leaf.def THEN cred.key ELSE "none"]
    BY <2>1 DEF LeafVerdict
  <2>3. QED
    BY <1>1, <2>1, <2>2
    DEF IsVerdict, Admits, Holders, KeyVerdict, Presented, AuthKinds
<1>3. CASE leaf = Bearer(leaf.scopes)
  <2>1. leaf.kind = "bearer"
    BY <1>3 DEF Bearer
  <2>2. LeafVerdict(leaf, cred) = BearerVerdict(leaf, cred)
    BY <2>1 DEF LeafVerdict
  <2>3. QED
    BY <1>1, <2>1, <2>2
    DEF IsVerdict, Admits, Holders, BearerVerdict, TokenVerdict, Presented, AuthKinds
<1>4. CASE leaf = Authorizer
  <2>1. leaf.kind = "authorizer"
    BY <1>4 DEF Authorizer
  <2>2. LeafVerdict(leaf, cred) =
          IF cred.authorizer = None THEN <<"Unauthenticated", "MISSING_CREDENTIAL">>
          ELSE <<"ok", cred.authorizer>>
    BY <2>1 DEF LeafVerdict
  <2>3. QED
    BY <2>1, <2>2 DEF IsVerdict, Admits, Holders, AuthKinds
<1>5. QED
  BY <1>2, <1>3, <1>4

\* One of its middleware admits, or the gravest refusal of them stands.
LEMMA LayerVerdictIs ==
  ASSUME NEW layer, IsLayer(layer), NEW cred, IsCredential(cred)
  PROVE  /\ IsVerdict(LayerVerdict(layer, cred), cred)
         /\ LayerVerdict(layer, cred)[1] = "ok" <=> \E leaf \in Range(layer) : Admits(leaf, cred)
<1> DEFINE vs == [i \in DOMAIN layer |-> LeafVerdict(layer[i], cred)]
           ok == SelectInSeq(vs, LAMBDA v : v[1] = "ok")
           Gravest(v) == \A w \in ToSet(vs) : Precedence[w[1]] <= Precedence[v[1]]
           worst == SelectInSeq(vs, Gravest)
           OKs == {i \in 1..Len(vs) : vs[i][1] = "ok"}
           Worsts == {i \in 1..Len(vs) : Gravest(vs[i])}
<1>1. /\ Len(layer) \in Nat \ {0} /\ DOMAIN layer = 1..Len(layer)
      /\ \A i \in DOMAIN layer : layer[i] \in Range(layer)
      /\ Range(layer) = {layer[i] : i \in DOMAIN layer}
  BY DEF IsLayer, Range
<1>2. /\ \A i \in 1..Len(layer) : IsVerdict(vs[i], cred)
      /\ \A i \in 1..Len(layer) : vs[i][1] = "ok" <=> Admits(layer[i], cred)
  <2>1. ASSUME NEW i \in 1..Len(layer)
        PROVE  IsVerdict(vs[i], cred) /\ (vs[i][1] = "ok" <=> Admits(layer[i], cred))
    <3>1. vs[i] = LeafVerdict(layer[i], cred)
      BY <1>1
    <3>2. layer[i] = ApiKey(layer[i].def) \/ layer[i] = Bearer(layer[i].scopes)
            \/ layer[i] = Authorizer
      BY <1>1 DEF IsLayer
    <3>3. QED
      BY <3>1, <3>2, LeafVerdictIs, Zenon
  <2>2. QED
    BY <2>1
<1>3. Len(vs) = Len(layer) /\ DOMAIN vs = 1..Len(layer)
  BY <1>1
<1>4. LayerVerdict(layer, cred) = vs[IF ok # 0 THEN ok ELSE worst]
  BY DEF LayerVerdict, AnyOf
<1>5. /\ ok = IF OKs # {} THEN Min(OKs) ELSE 0
      /\ worst = IF Worsts # {} THEN Min(Worsts) ELSE 0
  BY DEF SelectInSeq
<1>6. CASE OKs # {}
  <2>1. OKs \in SUBSET Nat /\ ok = Min(OKs)
    BY <1>5, <1>6
  <2>2. ok \in OKs
    BY <1>6, <2>1, Least
  <2>3. ok \in 1..Len(layer) /\ vs[ok][1] = "ok" /\ ok # 0
    BY <1>3, <2>2
  <2> HIDE DEF ok, worst
  <2>4. LayerVerdict(layer, cred) = vs[ok]
    BY <1>4, <2>3
  <2> HIDE DEF vs
  <2>5. IsVerdict(vs[ok], cred)
    BY <1>2, <2>3
  <2>6. Admits(layer[ok], cred)
    BY <1>2, <2>3
  <2>7. QED
    BY <1>1, <2>3, <2>4, <2>5, <2>6
<1>7. CASE OKs = {}
  <2>0. ToSet(vs) = {vs[i] : i \in 1..Len(layer)}
    BY <1>3 DEF ToSet
  <2> HIDE DEF vs
  <2>1. \A i \in 1..Len(layer) : vs[i][1] # "ok"
    BY <1>3, <1>7
  <2>2. \A i \in 1..Len(layer) : vs[i][1] \in {"Unauthenticated", "HttpChallenge"}
    <3>1. ASSUME NEW i \in 1..Len(layer)
          PROVE  vs[i][1] \in {"Unauthenticated", "HttpChallenge"}
      <4>1. IsVerdict(vs[i], cred) /\ vs[i][1] # "ok"
        BY <1>2, <2>1
      <4>2. QED
        BY <4>1 DEF IsVerdict
    <3>2. QED
      BY <3>1
  <2>3. Worsts # {}
    <3>1. \A v : Gravest(v) <=> \A i \in 1..Len(layer) :
                                   Precedence[vs[i][1]] <= Precedence[v[1]]
      BY <2>0
    <3>2. Precedence["Unauthenticated"] = 1 /\ Precedence["HttpChallenge"] = 2
      BY DEF Precedence
    <3> HIDE DEF Gravest
    <3>3. CASE \E k \in 1..Len(layer) : vs[k][1] = "HttpChallenge"
      BY <1>3, <2>2, <3>1, <3>2, <3>3
    <3>4. CASE \A k \in 1..Len(layer) : vs[k][1] = "Unauthenticated"
      <4>1. 1 \in 1..Len(layer) /\ Gravest(vs[1])
        BY <1>1, <3>1, <3>2, <3>4
      <4>2. QED
        BY <1>3, <4>1
    <3>5. QED
      BY <2>2, <3>3, <3>4
  <2>4. Worsts \in SUBSET Nat /\ worst = Min(Worsts)
    BY <1>5, <2>3
  <2>5. worst \in 1..Len(layer)
    BY <1>3, <2>3, <2>4, Least
  <2>6. ok = 0
    BY <1>5, <1>7
  <2> HIDE DEF ok, worst
  <2>7. LayerVerdict(layer, cred) = vs[worst]
    BY <1>4, <2>6
  <2>8. \A leaf \in Range(layer) : ~Admits(leaf, cred)
    BY <1>1, <1>2, <2>1
  <2>9. LayerVerdict(layer, cred)[1] # "ok"
    BY <2>2, <2>5, <2>7
  <2>10. QED
    BY <1>2, <2>5, <2>7, <2>8, <2>9
<1>8. QED
  BY <1>6, <1>7

\* Every layer of the stack has a middleware these credentials satisfy.
Passes(stack, cred) ==
  \A i \in DOMAIN stack : \E leaf \in Range(stack[i]) : Admits(leaf, cred)

\* Whom a request that passed the stack may speak for.
Speakers(stack, cred) == IF stack = <<>> THEN {"anonymous"} ELSE Holders(cred)

\* The stack lets pass whoever every layer admits, under a name the
\* credentials carry; everyone else learns which credential was missing.
LEMMA StackVerdictIs ==
  ASSUME NEW stack, IsStack(stack), NEW cred, IsCredential(cred)
  PROVE  /\ StackVerdict(stack, cred)[1] = "ok" <=> Passes(stack, cred)
         /\ StackVerdict(stack, cred)[1] = "ok" =>
               StackVerdict(stack, cred)[2] \in Speakers(stack, cred)
         /\ StackVerdict(stack, cred)[1] # "ok" =>
               StackVerdict(stack, cred)[2] \in AuthKinds
<1> DEFINE vs == [i \in DOMAIN stack |-> LayerVerdict(stack[i], cred)]
           failing == SelectInSeq(vs, LAMBDA v : v[1] # "ok")
           Fs == {i \in 1..Len(vs) : vs[i][1] # "ok"}
<1>1. /\ Len(stack) \in Nat /\ DOMAIN stack = 1..Len(stack)
      /\ \A i \in DOMAIN stack : IsLayer(stack[i])
      /\ stack = <<>> <=> Len(stack) = 0
  BY DEF IsStack, Range
<1>2. /\ \A i \in 1..Len(stack) : IsVerdict(vs[i], cred)
      /\ \A i \in 1..Len(stack) :
            vs[i][1] = "ok" <=> \E leaf \in Range(stack[i]) : Admits(leaf, cred)
  <2>1. ASSUME NEW i \in 1..Len(stack)
        PROVE  /\ IsVerdict(vs[i], cred)
               /\ vs[i][1] = "ok" <=> \E leaf \in Range(stack[i]) : Admits(leaf, cred)
    <3>1. vs[i] = LayerVerdict(stack[i], cred) /\ IsLayer(stack[i])
      BY <1>1
    <3>2. QED
      BY <3>1, LayerVerdictIs, Zenon
  <2>2. QED
    BY <2>1
<1>3. Len(vs) = Len(stack) /\ DOMAIN vs = 1..Len(stack)
  BY <1>1
<1>4. StackVerdict(stack, cred) =
        IF stack = <<>> THEN <<"ok", "anonymous">>
        ELSE IF failing # 0 THEN vs[failing] ELSE Last(vs)
  BY DEF StackVerdict, AllOf
<1>5. failing = IF Fs # {} THEN Min(Fs) ELSE 0
  BY DEF SelectInSeq
<1> HIDE DEF vs
<1>6. CASE stack = <<>>
  <2>0. failing = 0
    BY <1>1, <1>3, <1>5, <1>6
  <2> HIDE DEF failing
  <2>1. StackVerdict(stack, cred) = <<"ok", "anonymous">>
    BY <1>4, <1>6, <2>0
  <2>2. Passes(stack, cred)
    BY <1>6 DEF Passes
  <2>3. QED
    BY <1>6, <2>1, <2>2 DEF Speakers
<1>7. CASE stack # <<>> /\ Fs # {}
  <2>1. Fs \in SUBSET Nat /\ failing = Min(Fs)
    BY <1>5, <1>7
  <2>2. failing \in Fs
    BY <1>7, <2>1, Least
  <2>3. failing \in 1..Len(stack) /\ vs[failing][1] # "ok" /\ failing # 0
    BY <1>3, <2>2
  <2> HIDE DEF failing
  <2>4. StackVerdict(stack, cred) = vs[failing]
    BY <1>4, <1>7, <2>3
  <2>5. IsVerdict(vs[failing], cred)
    BY <1>2, <2>3
  <2>6. ~Passes(stack, cred)
    BY <1>1, <1>2, <2>3 DEF Passes
  <2>7. QED
    BY <2>3, <2>4, <2>5, <2>6 DEF IsVerdict
<1>8. CASE stack # <<>> /\ Fs = {}
  <2>1. failing = 0
    BY <1>5, <1>8
  <2> HIDE DEF failing
  <2>2. StackVerdict(stack, cred) = vs[Len(stack)]
    BY <1>3, <1>4, <1>8, <2>1 DEF Last
  <2>3. Len(stack) \in 1..Len(stack)
    BY <1>1, <1>8
  <2>4. \A i \in 1..Len(stack) : vs[i][1] = "ok"
    BY <1>3, <1>8
  <2>5. Passes(stack, cred)
    BY <1>1, <1>2, <2>4 DEF Passes
  <2>6. IsVerdict(vs[Len(stack)], cred)
    BY <1>2, <2>3
  <2>7. QED
    BY <1>8, <2>2, <2>3, <2>4, <2>5, <2>6 DEF IsVerdict, Speakers
<1>9. QED
  BY <1>6, <1>7, <1>8

-------------------------------------------------------------------------------
(* The core's checks *)

CoreKinds ==
  {"TASK_NOT_FOUND", "TASK_NOT_CANCELABLE", "PUSH_NOTIFICATION_NOT_SUPPORTED",
   "UNSUPPORTED_OPERATION", "CONTENT_TYPE_NOT_SUPPORTED",
   "EXTENDED_AGENT_CARD_NOT_CONFIGURED", "INVALID_REQUEST"}

\* A refusal is a check of its kind.
LEMMA RefuseIs ==
  ASSUME NEW kinds, NEW kind \in kinds, NEW when \in BOOLEAN
  PROVE  Refuse(kind, when) \in Check(kinds)
BY DEF Refuse, Check

\* Some checks in a row, and a path that goes on, are paths.
LEMMA OnePath ==
  ASSUME NEW kinds, NEW a \in Check(kinds)
  PROVE  <<a>> \in Path(kinds)
BY DEF Path

LEMMA TwoPath ==
  ASSUME NEW kinds, NEW a \in Check(kinds), NEW b \in Check(kinds)
  PROVE  <<a, b>> \in Path(kinds)
BY DEF Path

LEMMA ThreePath ==
  ASSUME NEW kinds, NEW a \in Check(kinds), NEW b \in Check(kinds), NEW c \in Check(kinds)
  PROVE  <<a, b, c>> \in Path(kinds)
BY DEF Path

LEMMA FourPath ==
  ASSUME NEW kinds, NEW a \in Check(kinds), NEW b \in Check(kinds),
         NEW c \in Check(kinds), NEW d \in Check(kinds)
  PROVE  <<a, b, c, d>> \in Path(kinds)
BY DEF Path

LEMMA LongPath ==
  ASSUME NEW kinds, NEW s \in Path(kinds), NEW t \in Path(kinds)
  PROVE  s \o t \in Path(kinds)
BY DEF Path

\* The pieces the core's paths are made of.
LEMMA PartsArePaths ==
  ASSUME NEW d, NEW s, NEW r
  PROVE  /\ Visibility(d, s, r) \in Check(CoreKinds)
         /\ History(r) \in Check(CoreKinds)
         /\ Streaming(s) \in Check(CoreKinds)
         /\ Refuse("UNSUPPORTED_OPERATION", r.twist = "immediate" /\ ~s.immediate)
              \in Check(CoreKinds)
         /\ MessageChecks(s, r) \in Path(CoreKinds)
         /\ InlineConfigChecks(s, r) \in Path(CoreKinds)
         /\ TargetChecks(d, s, r) \in Path(CoreKinds)
<1> DEFINE Checks == Check(CoreKinds)
<1>1. /\ Visibility(d, s, r) \in Checks
      /\ History(r) \in Checks
      /\ Streaming(s) \in Checks
  BY RefuseIs DEF Visibility, History, Streaming, CoreKinds, Seen, Lacks
<1>2. MessageChecks(s, r) \in Path(CoreKinds)
  <2>1. /\ Refuse("INVALID_REQUEST", r.twist \in {"body", "message"}) \in Checks
        /\ Refuse("CONTENT_TYPE_NOT_SUPPORTED",
                  r.twist = "part" /\ AgentCard(s).input_modes # {"*/*"}) \in Checks
    BY DEF CoreKinds, Refuse, Check
  <2>2. QED
    BY <2>1, TwoPath DEF MessageChecks
<1>3. InlineConfigChecks(s, r) \in Path(CoreKinds)
  <2>1. /\ Refuse("PUSH_NOTIFICATION_NOT_SUPPORTED",
                  r.twist \in {"inline", "inline_url"} /\ Lacks(s, "push_notifications"))
             \in Checks
        /\ Refuse("INVALID_REQUEST", r.twist = "inline_url") \in Checks
    BY RefuseIs DEF CoreKinds, Lacks
  <2>2. QED
    BY <2>1, TwoPath DEF InlineConfigChecks
<1>4. TargetChecks(d, s, r) \in Path(CoreKinds)
  <2>1. CASE r.task = None
    BY <2>1 DEF TargetChecks, Path
  <2>2. CASE r.task # None
    <3>1. /\ Refuse("INVALID_REQUEST", r.twist = "context") \in Checks
          /\ Refuse("UNSUPPORTED_OPERATION",
                    Seen(d, s, r) /\ d[r.task].state # "INPUT_REQUIRED") \in Checks
      BY RefuseIs DEF CoreKinds, Seen
    <3>2. QED
      BY <1>1, <2>2, <3>1, ThreePath DEF TargetChecks
  <2>3. QED
    BY <2>1, <2>2
<1>5. Refuse("UNSUPPORTED_OPERATION", r.twist = "immediate" /\ ~s.immediate) \in Checks
  BY RefuseIs DEF CoreKinds
<1>6. QED
  BY <1>1, <1>2, <1>3, <1>4, <1>5

LEMMA CoreIsPath ==
  ASSUME NEW d, NEW s, NEW r, r.op \in Operations
  PROVE  CoreChecks(d, s, r) \in Path(CoreKinds)
<1> DEFINE Checks == Check(CoreKinds)
<1>1. /\ Visibility(d, s, r) \in Checks
      /\ History(r) \in Checks
      /\ Streaming(s) \in Checks
  BY PartsArePaths
<1>2. MessageChecks(s, r) \in Path(CoreKinds)
  BY PartsArePaths
<1>3. InlineConfigChecks(s, r) \in Path(CoreKinds)
  BY PartsArePaths
<1>4. TargetChecks(d, s, r) \in Path(CoreKinds)
  BY PartsArePaths
<1>5. CASE r.op = "SendMessage"
  <2> DEFINE a == Refuse("UNSUPPORTED_OPERATION", r.twist = "immediate" /\ ~s.immediate)
  <2>1. a \in Checks
    BY RefuseIs DEF CoreKinds
  <2> HIDE DEF a
  <2>2. <<a, History(r)>> \in Path(CoreKinds)
    BY <1>1, <2>1, TwoPath
  <2>3. CoreChecks(d, s, r) =
          MessageChecks(s, r) \o <<a, History(r)>>
            \o InlineConfigChecks(s, r) \o TargetChecks(d, s, r)
    BY <1>5 DEF CoreChecks, SendChecks, Configs, a
  <2>4. QED
    BY <1>2, <1>3, <1>4, <2>2, <2>3, LongPath
<1>6. CASE r.op = "SendStreamingMessage"
  <2>1. <<Streaming(s), History(r)>> \in Path(CoreKinds)
    BY <1>1, TwoPath
  <2>2. CoreChecks(d, s, r) =
          <<Streaming(s), History(r)>> \o MessageChecks(s, r)
            \o InlineConfigChecks(s, r) \o TargetChecks(d, s, r)
    BY <1>6 DEF CoreChecks, StreamChecks, Configs
  <2>3. QED
    BY <1>2, <1>3, <1>4, <2>1, <2>2, LongPath
<1>7. CASE r.op = "GetTask"
  <2>1. CoreChecks(d, s, r) = <<History(r), Visibility(d, s, r)>>
    BY <1>7 DEF CoreChecks, Configs
  <2>2. QED
    BY <1>1, <2>1, TwoPath
<1>8. CASE r.op = "ListTasks"
  <2> DEFINE a == Refuse("INVALID_REQUEST",
                         r.twist \in {"history", "status", "stamp", "size", "token"})
  <2>1. a \in Checks
    BY DEF CoreKinds, Refuse, Check
  <2>2. CoreChecks(d, s, r) = <<a>>
    BY <1>8 DEF CoreChecks, ListChecks, Configs
  <2> HIDE DEF a
  <2>3. QED
    BY <2>1, <2>2, OnePath
<1>9. CASE r.op = "CancelTask"
  <2> DEFINE a == Refuse("TASK_NOT_CANCELABLE", Finished(d, s, r))
  <2>1. a \in Checks
    BY RefuseIs DEF CoreKinds, Finished, Seen
  <2>2. CoreChecks(d, s, r) = <<Visibility(d, s, r), a>>
    BY <1>9 DEF CoreChecks, Configs
  <2> HIDE DEF a
  <2>3. QED
    BY <1>1, <2>1, <2>2, TwoPath
<1>10. CASE r.op = "SubscribeToTask"
  <2> DEFINE a == Refuse("UNSUPPORTED_OPERATION", Finished(d, s, r))
  <2>1. a \in Checks
    BY RefuseIs DEF CoreKinds, Finished, Seen
  <2>2. CoreChecks(d, s, r) = <<Streaming(s), Visibility(d, s, r), a>>
    BY <1>10 DEF CoreChecks, Configs
  <2> HIDE DEF a
  <2>3. QED
    BY <1>1, <2>1, <2>2, ThreePath
<1>11. CASE r.op \in Configs
  <2> DEFINE a == Refuse("PUSH_NOTIFICATION_NOT_SUPPORTED", Lacks(s, "push_notifications"))
             b == Refuse("INVALID_REQUEST",
                         r.op = "CreateConfig" /\ r.twist \in {"body", "url"})
             c == Refuse("TASK_NOT_FOUND",
                         r.op = "GetConfig" /\ Seen(d, s, r)
                           /\ r.config \notin d[r.task].configs)
  <2>1. a \in Checks /\ b \in Checks /\ c \in Checks
    BY RefuseIs DEF CoreKinds, Lacks, Seen
  <2>2. CoreChecks(d, s, r) = <<a, Visibility(d, s, r), b, c>>
    BY <1>11 DEF CoreChecks, ConfigChecks, Configs
  <2> HIDE DEF a, b, c
  <2>3. QED
    BY <1>1, <2>1, <2>2, FourPath
<1>12. CASE r.op = "GetExtendedAgentCard"
  <2> DEFINE a == Refuse("UNSUPPORTED_OPERATION", Lacks(s, "extended_agent_card"))
             b == Refuse("EXTENDED_AGENT_CARD_NOT_CONFIGURED", s.extended = None)
  <2>1. a \in Checks /\ b \in Checks
    BY RefuseIs DEF CoreKinds, Lacks
  <2>2. CoreChecks(d, s, r) = <<a, b>>
    BY <1>12 DEF CoreChecks, ExtendedCardChecks, Configs
  <2> HIDE DEF a, b
  <2>3. QED
    BY <2>1, <2>2, TwoPath
<1>13. QED
  BY <1>5, <1>6, <1>7, <1>8, <1>9, <1>10, <1>11, <1>12
  DEF Operations, OnTask, Sends, Streams

-------------------------------------------------------------------------------
(* The bindings *)

\* The checks every binding makes refuse by a name.
LEMMA HeadIs ==
  ASSUME NEW s, IsStack(s.stack), NEW r, IsCredential(r.cred)
  PROVE  /\ IsCheck(Version(r)) /\ IsCheck(Authentication(s, r))
         /\ IsCheck(Activation(s, r)) /\ IsCheck(Skill(s, r))
<1>1. IsCheck(Version(r))
  BY DEF Version, Refuse, IsCheck
<1>2. IsCheck(Authentication(s, r))
  <2> DEFINE verdict == StackVerdict(s.stack, r.cred)
  <2>1. verdict[1] # "ok" => verdict[2] \in AuthKinds
    BY StackVerdictIs, Zenon
  <2>2. Authentication(s, r) = Refuse(verdict[2], verdict[1] # "ok")
    BY DEF Authentication
  <2> HIDE DEF verdict
  <2>3. /\ Authentication(s, r).with = verdict[2]
        /\ Authentication(s, r).fails = (verdict[1] # "ok")
    BY <2>2 DEF Refuse
  <2>4. "none" \notin AuthKinds
    BY DEF AuthKinds
  <2>5. QED
    BY <2>1, <2>3, <2>4 DEF IsCheck
<1>3. IsCheck(Activation(s, r)) /\ IsCheck(Skill(s, r))
  BY DEF Activation, Skill, Refuse, IsCheck
<1>4. QED
  BY <1>1, <1>2, <1>3

LEMMA CoreIs ==
  ASSUME NEW d, NEW s, NEW r, r.op \in Operations
  PROVE  /\ IsPath(CoreChecks(d, s, r))
         /\ FirstRefusal(CoreChecks(d, s, r)) \in CoreKinds \cup {"none"}
<1>1. "none" \notin CoreKinds
  BY DEF CoreKinds
<1>2. QED
  BY <1>1, CoreIsPath, PathIs, Zenon

\* A request without a twist of its own on some binding is decided alike on
\* all: version, credentials, extensions, profile, core.
LEMMA RefusalIs ==
  ASSUME NEW binding \in Bindings, NEW d, NEW s, NEW r,
         IsStack(s.stack), IsCredential(r.cred), r.op \in Operations,
         r.twist \notin BindingTwists
  PROVE  Refusal(binding, d, s, r) =
           After(InOrder(Version(r), Authentication(s, r), Activation(s, r), Skill(s, r)),
                 FirstRefusal(CoreChecks(d, s, r)))
<1> DEFINE core == CoreChecks(d, s, r)
           v == Version(r)
           au == Authentication(s, r)
           ac == Activation(s, r)
           sk == Skill(s, r)
<1>1. IsPath(core)
  BY CoreIs
<1>2. IsCheck(v) /\ IsCheck(au) /\ IsCheck(ac) /\ IsCheck(sk)
  BY HeadIs
<1>3. CASE binding = "HTTP"
  <2> DEFINE ct == ContentType("HTTP", r)
             bq == Refuse("BAD_QUERY", r.twist = "query" /\ r.op \in Queries)
             head == <<v, ct, au, ac, bq, sk>>
  <2>1. IsQuiet(ct) /\ IsQuiet(bq)
    BY DEF ContentType, Refuse, BindingTwists, IsQuiet
  <2>2. Refusal(binding, d, s, r) = FirstRefusal(head \o core)
    BY <1>3 DEF Refusal, HttpChecks
  <2> HIDE DEF core, v, au, ac, sk, ct, bq
  <2>3. IsPath(head) /\ FirstRefusal(head) = InOrder(v, au, ac, sk)
    <3>1. head \in Seq(Range(head))
      BY DEF Range
    <3>2. /\ DOMAIN head = 1..6
          /\ head[1] = v /\ head[2] = ct /\ head[3] = au /\ head[4] = ac
          /\ head[5] = bq /\ head[6] = sk
      OBVIOUS
    <3> HIDE DEF head
    <3>3. IsCheck(head[1]) /\ IsCheck(head[3]) /\ IsCheck(head[4]) /\ IsCheck(head[6])
      BY <1>2, <3>2
    <3>4. \A m \in DOMAIN head \ {1, 3, 4, 6} : IsQuiet(head[m])
      BY <2>1, <3>2
    <3>5. /\ 1 \in DOMAIN head /\ 3 \in DOMAIN head /\ 4 \in DOMAIN head /\ 6 \in DOMAIN head
          /\ 1 < 3 /\ 3 < 4 /\ 4 < 6
      BY <3>2
    <3>6. /\ IsPath(head)
          /\ FirstRefusal(head) = InOrder(head[1], head[3], head[4], head[6])
      BY <3>1, <3>3, <3>4, <3>5, FourOf, Zenon
    <3>7. QED
      BY <3>2, <3>6
  <2> HIDE DEF head
  <2>4. FirstRefusal(head \o core) = After(FirstRefusal(head), FirstRefusal(core))
    BY <1>1, <2>3, PathsJoin, Zenon
  <2>5. QED
    BY <2>2, <2>3, <2>4 DEF core, v, au, ac, sk
<1>4. CASE binding = "JSONRPC"
  <2> DEFINE ct == ContentType("JSONRPC", r)
             pe == Refuse("PARSE_ERROR", r.twist = "parse")
             en == Refuse("INVALID_ENVELOPE", r.twist \in {"envelope", "null_id"})
             ap == Refuse("INVALID_REQUEST", r.twist = "array_params")
             nc == Refuse("NO_CONTENT", r.twist = "notification" /\ r.op \in Streams)
             mn == Refuse("METHOD_NOT_FOUND", r.twist = "method")
             rq == Required(r)
             head == <<v, ct, au, ac, pe, en, ap, sk, nc, mn, rq>>
  <2>1. /\ IsQuiet(ct) /\ IsQuiet(pe) /\ IsQuiet(en)
        /\ IsQuiet(ap) /\ IsQuiet(nc) /\ IsQuiet(mn) /\ IsQuiet(rq)
    <3>1. IsQuiet(ct) /\ IsQuiet(nc) /\ IsQuiet(rq)
      BY DEF ContentType, Required, Refuse, BindingTwists, IsQuiet
    <3>2. IsQuiet(pe) /\ IsQuiet(ap) /\ IsQuiet(mn)
      BY DEF Refuse, BindingTwists, IsQuiet
    <3>3. IsQuiet(en)
      <4>1. (r.twist \in {"envelope", "null_id"}) = FALSE
        BY DEF BindingTwists
      <4>2. en.fails = (r.twist \in {"envelope", "null_id"})
        BY DEF Refuse
      <4>3. QED
        BY <4>1, <4>2 DEF IsQuiet
    <3>4. QED
      BY <3>1, <3>2, <3>3
  <2>2. Refusal(binding, d, s, r) = FirstRefusal(head \o core)
    BY <1>4 DEF Refusal, JsonRpcChecks
  <2> HIDE DEF core, v, au, ac, sk, ct, pe, en, ap, nc, mn, rq
  <2>3. IsPath(head) /\ FirstRefusal(head) = InOrder(v, au, ac, sk)
    <3>1. head \in Seq(Range(head))
      BY DEF Range
    <3>2. /\ DOMAIN head = 1..11
          /\ head[1] = v /\ head[2] = ct /\ head[3] = au /\ head[4] = ac
          /\ head[5] = pe /\ head[6] = en /\ head[7] = ap /\ head[8] = sk
          /\ head[9] = nc /\ head[10] = mn /\ head[11] = rq
      OBVIOUS
    <3> HIDE DEF head
    <3>3. IsCheck(head[1]) /\ IsCheck(head[3]) /\ IsCheck(head[4]) /\ IsCheck(head[8])
      BY <1>2, <3>2
    <3>4. \A m \in DOMAIN head \ {1, 3, 4, 8} : IsQuiet(head[m])
      BY <2>1, <3>2
    <3>5. /\ 1 \in DOMAIN head /\ 3 \in DOMAIN head /\ 4 \in DOMAIN head /\ 8 \in DOMAIN head
          /\ 1 < 3 /\ 3 < 4 /\ 4 < 8
      BY <3>2
    <3>6. /\ IsPath(head)
          /\ FirstRefusal(head) = InOrder(head[1], head[3], head[4], head[8])
      BY <3>1, <3>3, <3>4, <3>5, FourOf, Zenon
    <3>7. QED
      BY <3>2, <3>6
  <2> HIDE DEF head
  <2>4. FirstRefusal(head \o core) = After(FirstRefusal(head), FirstRefusal(core))
    BY <1>1, <2>3, PathsJoin, Zenon
  <2>5. QED
    BY <2>2, <2>3, <2>4 DEF core, v, au, ac, sk
<1>5. CASE binding = "gRPC"
  <2> DEFINE head == <<v, au, ac, sk>>
  <2>1. Refusal(binding, d, s, r) = FirstRefusal(head \o core)
    BY <1>5 DEF Refusal, GrpcChecks
  <2> HIDE DEF core, v, au, ac, sk
  <2>2. IsPath(head) /\ FirstRefusal(head) = InOrder(v, au, ac, sk)
    <3>1. head \in Seq(Range(head))
      BY DEF Range
    <3>2. /\ DOMAIN head = 1..4
          /\ head[1] = v /\ head[2] = au /\ head[3] = ac /\ head[4] = sk
      OBVIOUS
    <3> HIDE DEF head
    <3>3. IsCheck(head[1]) /\ IsCheck(head[2]) /\ IsCheck(head[3]) /\ IsCheck(head[4])
      BY <1>2, <3>2
    <3>4. \A m \in DOMAIN head \ {1, 2, 3, 4} : IsQuiet(head[m])
      BY <3>2
    <3>5. /\ 1 \in DOMAIN head /\ 2 \in DOMAIN head /\ 3 \in DOMAIN head /\ 4 \in DOMAIN head
          /\ 1 < 2 /\ 2 < 3 /\ 3 < 4
      BY <3>2
    <3>6. /\ IsPath(head)
          /\ FirstRefusal(head) = InOrder(head[1], head[2], head[3], head[4])
      BY <3>1, <3>3, <3>4, <3>5, FourOf, Zenon
    <3>7. QED
      BY <3>2, <3>6
  <2> HIDE DEF head
  <2>3. FirstRefusal(head \o core) = After(FirstRefusal(head), FirstRefusal(core))
    BY <1>1, <2>2, PathsJoin, Zenon
  <2>4. QED
    BY <2>1, <2>2, <2>3 DEF core, v, au, ac, sk
<1>6. QED
  BY <1>3, <1>4, <1>5 DEF Bindings

\* Nothing is done for a request unless its credentials pass the stack and the
\* core refuses it nothing, whatever its twist.
LEMMA Passed ==
  ASSUME NEW binding \in Bindings, NEW d, NEW s, NEW r,
         IsStack(s.stack), IsCredential(r.cred), r.op \in Operations,
         Refusal(binding, d, s, r) = "none"
  PROVE  /\ StackVerdict(s.stack, r.cred)[1] = "ok"
         /\ FirstRefusal(CoreChecks(d, s, r)) = "none"
<1> DEFINE core == CoreChecks(d, s, r)
           v == Version(r)
           au == Authentication(s, r)
           ac == Activation(s, r)
           sk == Skill(s, r)
<1>1. IsPath(core)
  BY CoreIs
<1>2. IsCheck(v) /\ IsCheck(au) /\ IsCheck(ac) /\ IsCheck(sk)
  BY HeadIs
<1>3. SUFFICES ~au.fails /\ FirstRefusal(core) = "none"
  BY DEF Authentication, Refuse
<1>4. ASSUME NEW head, head \in Seq(Range(head)), \A m \in DOMAIN head : IsCheck(head[m]),
             Refusal(binding, d, s, r) = FirstRefusal(head \o core),
             \E m \in DOMAIN head : head[m] = au
      PROVE  ~au.fails /\ FirstRefusal(core) = "none"
  <2> HIDE DEF core, au
  <2>1. IsPath(head)
    BY <1>4 DEF IsPath, IsCheck
  <2>2. After(FirstRefusal(head), FirstRefusal(core)) = "none"
    BY <1>1, <1>4, <2>1, PathsJoin, Zenon
  <2>3. FirstRefusal(head) = "none" /\ FirstRefusal(core) = "none"
    BY <2>2 DEF After
  <2>4. \A m \in DOMAIN head : ~head[m].fails
    BY <2>1, <2>3, NoneFails, Zenon
  <2>5. QED
    BY <1>4, <2>3, <2>4
<1>5. CASE binding = "HTTP"
  <2> DEFINE ct == ContentType("HTTP", r)
             bq == Refuse("BAD_QUERY", r.twist = "query" /\ r.op \in Queries)
             head == <<v, ct, au, ac, bq, sk>>
  <2>1. IsCheck(ct) /\ IsCheck(bq)
    BY DEF ContentType, Refuse, IsCheck
  <2>2. Refusal(binding, d, s, r) = FirstRefusal(head \o core)
    BY <1>5 DEF Refusal, HttpChecks
  <2> HIDE DEF core, v, au, ac, sk, ct, bq
  <2>3. head \in Seq(Range(head))
    BY DEF Range
  <2>4. /\ DOMAIN head = 1..6
        /\ head[1] = v /\ head[2] = ct /\ head[3] = au /\ head[4] = ac
        /\ head[5] = bq /\ head[6] = sk
    OBVIOUS
  <2> HIDE DEF head
  <2>5. \A m \in DOMAIN head : IsCheck(head[m])
    BY <1>2, <2>1, <2>4
  <2>6. QED
    BY <1>4, <2>2, <2>3, <2>4, <2>5
<1>6. CASE binding = "JSONRPC"
  <2> DEFINE ct == ContentType("JSONRPC", r)
             pe == Refuse("PARSE_ERROR", r.twist = "parse")
             en == Refuse("INVALID_ENVELOPE", r.twist \in {"envelope", "null_id"})
             ap == Refuse("INVALID_REQUEST", r.twist = "array_params")
             nc == Refuse("NO_CONTENT", r.twist = "notification" /\ r.op \in Streams)
             mn == Refuse("METHOD_NOT_FOUND", r.twist = "method")
             rq == Required(r)
             head == <<v, ct, au, ac, pe, en, ap, sk, nc, mn, rq>>
  <2>1. /\ IsCheck(ct) /\ IsCheck(pe) /\ IsCheck(ap)
        /\ IsCheck(nc) /\ IsCheck(mn) /\ IsCheck(rq)
    BY DEF ContentType, Required, Refuse, IsCheck
  <2>2. IsCheck(en)
    BY DEF Refuse, IsCheck
  <2>3. Refusal(binding, d, s, r) = FirstRefusal(head \o core)
    BY <1>6 DEF Refusal, JsonRpcChecks
  <2> HIDE DEF core, v, au, ac, sk, ct, pe, en, ap, nc, mn, rq
  <2>4. head \in Seq(Range(head))
    BY DEF Range
  <2>5. /\ DOMAIN head = 1..11
        /\ head[1] = v /\ head[2] = ct /\ head[3] = au /\ head[4] = ac
        /\ head[5] = pe /\ head[6] = en /\ head[7] = ap /\ head[8] = sk
        /\ head[9] = nc /\ head[10] = mn /\ head[11] = rq
    OBVIOUS
  <2> HIDE DEF head
  <2>6. \A m \in DOMAIN head : IsCheck(head[m])
    <3>1. \A m \in 1..11 : \/ m = 1 \/ m = 2 \/ m = 3 \/ m = 4 \/ m = 5
                           \/ m = 6 \/ m = 7 \/ m = 8 \/ m = 9 \/ m = 10 \/ m = 11
      OBVIOUS
    <3>2. QED
      BY <1>2, <2>1, <2>2, <2>5, <3>1
  <2>7. QED
    BY <1>4, <2>3, <2>4, <2>5, <2>6
<1>7. CASE binding = "gRPC"
  <2> DEFINE head == <<v, au, ac, sk>>
  <2>1. Refusal(binding, d, s, r) = FirstRefusal(head \o core)
    BY <1>7 DEF Refusal, GrpcChecks
  <2> HIDE DEF core, v, au, ac, sk
  <2>2. head \in Seq(Range(head))
    BY DEF Range
  <2>3. /\ DOMAIN head = 1..4
        /\ head[1] = v /\ head[2] = au /\ head[3] = ac /\ head[4] = sk
    OBVIOUS
  <2> HIDE DEF head
  <2>4. \A m \in DOMAIN head : IsCheck(head[m])
    BY <1>2, <2>3
  <2>5. QED
    BY <1>4, <2>1, <2>2, <2>3, <2>4
<1>8. QED
  BY <1>5, <1>6, <1>7 DEF Bindings

\* Which refusals a request can meet that has no twist of one binding's own.
Kinds == AuthKinds \cup CoreKinds
           \cup {"none", "VERSION_NOT_SUPPORTED", "EXTENSION_SUPPORT_REQUIRED"}

\* The credentials are refused by name, nothing else is, and whoever fails the
\* stack is refused.
LEMMA KindsIs ==
  ASSUME NEW binding \in Bindings, NEW d, NEW s, NEW r,
         IsStack(s.stack), IsCredential(r.cred), r.op \in Operations,
         r.twist \notin BindingTwists
  PROVE  /\ Refusal(binding, d, s, r) \in Kinds
         /\ (Refusal(binding, d, s, r) \in AuthKinds)
              <=> /\ r.twist # "version"
                  /\ StackVerdict(s.stack, r.cred)[1] # "ok"
<1> DEFINE core == FirstRefusal(CoreChecks(d, s, r))
           verdict == StackVerdict(s.stack, r.cred)
<1>1. core \in CoreKinds \cup {"none"}
  BY CoreIs
<1>2. verdict[1] # "ok" => verdict[2] \in AuthKinds
  BY StackVerdictIs, Zenon
<1>3. Refusal(binding, d, s, r) =
        After(InOrder(Version(r), Authentication(s, r), Activation(s, r), Skill(s, r)), core)
  BY RefusalIs, Zenon
<1>4. Made(Version(r)) = IF r.twist = "version" THEN "VERSION_NOT_SUPPORTED" ELSE "none"
  BY DEF Made, Version, Refuse
<1>5. Made(Authentication(s, r)) = IF verdict[1] # "ok" THEN verdict[2] ELSE "none"
  BY DEF Made, Authentication, Refuse
<1>6. /\ Made(Activation(s, r)) \in {"none", "EXTENSION_SUPPORT_REQUIRED"}
      /\ Made(Skill(s, r)) \in {"none", "INVALID_REQUEST"}
  BY DEF Made, Activation, Skill, Refuse
<1> HIDE DEF core, verdict
<1>7. QED
  BY <1>1, <1>2, <1>3, <1>4, <1>5, <1>6
  DEF After, InOrder, Kinds, AuthKinds, CoreKinds, verdict

\* What a client hears of a refusal, whichever binding carries it.
Heard(refusal) == [failed |-> refusal # "none", reason |-> ErrorInfo(refusal)]

LEMMA HeardIs ==
  ASSUME NEW binding \in Bindings, NEW refusal \in Kinds
  PROVE  Decode(binding, Encode(binding, refusal)) = Heard(refusal)
<1> DEFINE wire == Encode(binding, refusal)
           status == CASE binding = "gRPC" -> GrpcCode(refusal)
                       [] binding = "HTTP" -> HttpStatus(refusal)
                       [] OTHER -> IF refusal \in AuthKinds THEN HttpStatus(refusal) ELSE 200
<1>1. refusal \notin {"NO_CONTENT", "BAD_QUERY"}
  BY DEF Kinds, AuthKinds, CoreKinds
<1>2. /\ wire.status = status
      /\ wire.error = (refusal \notin {"none", "NO_CONTENT", "BAD_QUERY"})
      /\ wire.details = ErrorInfo(refusal)
  BY DEF Encode
<1>3. wire.error = (refusal # "none")
  BY <1>1, <1>2
<1>4. ErrorInfo("none") = None
  BY DEF ErrorInfo, A2aReasons, AuthKinds
<1>5. (IF wire.error THEN wire.details ELSE None) = ErrorInfo(refusal)
  BY <1>2, <1>3, <1>4
<1>6. (GrpcCode(refusal) # "OK") = (refusal # "none")
  BY DEF GrpcCode, AuthKinds
<1>7. (HttpStatus(refusal) >= 300) = (refusal # "none")
  BY <1>1 DEF HttpStatus, AuthKinds
<1>8. Decode(binding, wire).failed = (refusal # "none")
  <2>1. CASE binding = "gRPC"
    <3>1. wire.status = GrpcCode(refusal)
      BY <1>2, <2>1
    <3>2. Decode(binding, wire).failed = (wire.status # "OK")
      BY <2>1 DEF Decode, DecodeStatus
    <3>3. QED
      BY <1>6, <3>1, <3>2
  <2>2. CASE binding = "HTTP"
    <3>1. wire.status = HttpStatus(refusal)
      BY <1>2, <2>2
    <3>2. Decode(binding, wire).failed = (wire.status >= 300)
      BY <2>2 DEF Decode, DecodeBody
    <3>3. QED
      BY <1>7, <3>1, <3>2
  <2>3. CASE binding = "JSONRPC"
    BY <1>3, <2>3 DEF Decode, DecodeResponse
  <2>4. QED
    BY <2>1, <2>2, <2>3 DEF Bindings
<1>9. Decode(binding, wire).reason = ErrorInfo(refusal)
  BY <1>5 DEF Decode, DecodeStatus, DecodeBody, DecodeResponse, Bindings
<1>10. Decode(binding, wire) =
         [failed |-> Decode(binding, wire).failed, reason |-> Decode(binding, wire).reason]
  BY DEF Decode, DecodeStatus, DecodeBody, DecodeResponse, Bindings
<1>11. QED
  BY <1>8, <1>9, <1>10 DEF Heard

-------------------------------------------------------------------------------
(* One page of a listing *)

\* Rows a listing can order: by key and id, or by an id no other row has.
Orderable(kind, rows) ==
  /\ IsFiniteSet(rows) /\ rows \subseteq [id : Nat, key : Nat]
  /\ kind # "tasks" => \A a, b \in rows : a.id = b.id => a = b

\* The order of a listing is a total order of its rows.
LEMMA FollowsIs ==
  ASSUME NEW kind, NEW rows, Orderable(kind, rows),
         NEW a \in rows, NEW b \in rows, NEW c \in rows
  PROVE  /\ ~Paging!Follows(kind, a, a)
         /\ a = b \/ Paging!Follows(kind, a, b) \/ Paging!Follows(kind, b, a)
         /\ Paging!Follows(kind, a, b) /\ Paging!Follows(kind, b, c)
               => Paging!Follows(kind, a, c)
<1>1. /\ a \in [id : Nat, key : Nat] /\ b \in [id : Nat, key : Nat]
      /\ c \in [id : Nat, key : Nat]
  BY DEF Orderable
<1>2. a.id = b.id /\ a.key = b.key => a = b
  BY <1>1
<1>3. CASE kind = "tasks"
  BY <1>1, <1>2, <1>3 DEF Paging!Follows, Paging!Below
<1>4. CASE kind # "tasks"
  BY <1>1, <1>4 DEF Paging!Follows, Orderable
<1>5. QED
  BY <1>3, <1>4

\* Sorting enumerates the rows, each once, in the order of the listing.
LEMMA SortedIs ==
  ASSUME NEW kind, NEW rows, Orderable(kind, rows)
  PROVE  /\ Cardinality(rows) \in Nat
         /\ Paging!Sorted(kind, rows) \in [1..Cardinality(rows) -> rows]
         /\ \A row \in rows : \E i \in 1..Cardinality(rows) :
               Paging!Sorted(kind, rows)[i] = row
         /\ \A i, j \in 1..Cardinality(rows) :
               i < j => Paging!Follows(kind, Paging!Sorted(kind, rows)[i],
                                             Paging!Sorted(kind, rows)[j])
<1> DEFINE N == Cardinality(rows)
           F(a, b) == Paging!Follows(kind, a, b)
           Before(row) == {b \in rows : F(b, row)}
           Rank(row) == Paging!Cardinality({before \in rows : Paging!Follows(kind, before, row)})
           s == Paging!Sorted(kind, rows)
<1>2. IsFiniteSet(rows) /\ N \in Nat
  BY FS_CardinalityType DEF Orderable
<1>3. \A a, b, c \in rows : /\ ~F(a, a)
                            /\ a = b \/ F(a, b) \/ F(b, a)
                            /\ F(a, b) /\ F(b, c) => F(a, c)
  BY FollowsIs
<1>1. /\ \A row : Rank(row) = Cardinality(Before(row))
      /\ Paging!Cardinality(rows) = N
  BY DEF Paging!Cardinality, Cardinality
<1>4. s = [i \in 1..N |-> CHOOSE row \in rows : Rank(row) = i - 1]
  <2>1. s = [i \in 1..Paging!Cardinality(rows) |-> CHOOSE row \in rows : Rank(row) = i - 1]
    BY DEF Paging!Sorted
  <2> HIDE DEF Rank
  <2>2. QED
    BY <1>1, <2>1
<1> HIDE DEF F, Rank
<1>5. \A row \in rows : /\ Before(row) \in SUBSET rows /\ Before(row) # rows
                        /\ IsFiniteSet(Before(row))
                        /\ Rank(row) \in Nat /\ Rank(row) < N
  <2>1. ASSUME NEW row \in rows
        PROVE  /\ Before(row) \in SUBSET rows /\ Before(row) # rows
               /\ IsFiniteSet(Before(row))
               /\ Rank(row) \in Nat /\ Rank(row) < N
    <3>1. Before(row) \in SUBSET rows /\ row \notin Before(row)
      BY <1>3
    <3> HIDE DEF Before
    <3>2. IsFiniteSet(Before(row)) /\ Rank(row) <= N /\ Rank(row) # N
      BY <1>1, <1>2, <3>1, FS_Subset
    <3>3. Rank(row) \in Nat
      BY <1>1, <3>2, FS_CardinalityType
    <3>4. QED
      BY <1>2, <3>1, <3>2, <3>3
  <2>2. QED
    BY <2>1
<1>6. \A a, b \in rows : F(a, b) => Rank(a) < Rank(b)
  <2>1. ASSUME NEW a \in rows, NEW b \in rows, F(a, b)
        PROVE  Rank(a) < Rank(b)
    <3>1. Before(a) \in SUBSET Before(b) /\ a \in Before(b) /\ a \notin Before(a)
      BY <1>3, <2>1
    <3>2. IsFiniteSet(Before(b)) /\ Rank(a) \in Nat /\ Rank(b) \in Nat
      BY <1>5
    <3> HIDE DEF Before
    <3>3. Rank(a) <= Rank(b) /\ Rank(a) # Rank(b)
      BY <1>1, <3>1, <3>2, FS_Subset
    <3>4. QED
      BY <3>2, <3>3
  <2>2. QED
    BY <2>1
<1> HIDE DEF Before
<1>7. \A a, b \in rows : Rank(a) = Rank(b) => a = b
  BY <1>3, <1>5, <1>6
<1>8. \A i \in 1..N : \E row \in rows : Rank(row) = i - 1
  <2> DEFINE f == [row \in rows |-> Rank(row) + 1]
  <2>1. f \in [rows -> 1..N]
    BY <1>2, <1>5
  <2>2. \A a, b \in rows : f[a] = f[b] => a = b
    BY <1>5, <1>7
  <2>3. f \in Injection(rows, 1..N)
    BY <2>1, <2>2 DEF Injection, IsInjective
  <2>4. IsFiniteSet(1..N) /\ Cardinality(1..N) = N
    BY <1>2, FS_Interval
  <2>5. f \in Surjection(rows, 1..N)
    <3> HIDE DEF f
    <3>1. QED
      BY <2>3, <2>4, FS_Injection
  <2>6. \A i \in 1..N : \E row \in rows : f[row] = i
    BY <2>5 DEF Surjection
  <2>7. QED
    BY <1>2, <1>5, <2>6
<1>9. \A i \in 1..N : s[i] \in rows /\ Rank(s[i]) = i - 1
  BY <1>8, <1>4
<1>10. s \in [1..N -> rows]
  BY <1>4, <1>9
<1> HIDE DEF s
<1>11. \A row \in rows : \E i \in 1..N : s[i] = row
  <2>1. ASSUME NEW row \in rows
        PROVE  \E i \in 1..N : s[i] = row
    <3>1. Rank(row) + 1 \in 1..N
      BY <1>2, <1>5
    <3>2. s[Rank(row) + 1] = row
      BY <1>5, <1>7, <1>9, <3>1
    <3>3. QED
      BY <3>1, <3>2
  <2>2. QED
    BY <2>1
<1>12. \A i, j \in 1..N : i < j => F(s[i], s[j])
  <2>1. ASSUME NEW i \in 1..N, NEW j \in 1..N, i < j
        PROVE  F(s[i], s[j])
    <3>1. s[i] \in rows /\ s[j] \in rows /\ Rank(s[i]) = i - 1 /\ Rank(s[j]) = j - 1
      BY <1>9
    <3>2. s[i] # s[j]
      BY <1>2, <2>1, <3>1
    <3>3. ~F(s[j], s[i])
      BY <1>2, <1>6, <2>1, <3>1
    <3>4. QED
      BY <1>3, <3>1, <3>2, <3>3
  <2>2. QED
    BY <2>1
<1>13. QED
  BY <1>2, <1>10, <1>11, <1>12 DEF F, s

\* This row is on the page.
OnPage(page, row) == \E i \in DOMAIN page.rows : page.rows[i] = row

\* What a page owes: rows past the cursor, none twice, and all of them up to
\* the next cursor, or all when there is no next page.
IsPage(kind, rows, cursor, page) ==
  /\ page.rows \in Seq(rows)
  /\ \A i \in DOMAIN page.rows : Paging!PastCursor(kind, cursor, page.rows[i])
  /\ \A i, j \in DOMAIN page.rows : page.rows[i] = page.rows[j] => i = j
  /\ \/ /\ page.next = None
        /\ \A row \in rows : Paging!PastCursor(kind, cursor, row) => OnPage(page, row)
     \/ /\ page.next \in rows /\ Paging!PastCursor(kind, cursor, page.next)
        /\ \A row \in rows :
              Paging!PastCursor(kind, cursor, row) =>
                 (OnPage(page, row) <=> ~Paging!Follows(kind, page.next, row))

\* The first rows of those past the cursor are a page.
LEMMA CutIs ==
  ASSUME NEW kind, NEW rows, Orderable(kind, rows), NEW cursor,
         NEW n \in Nat, NEW past \in [1..n -> rows],
         \A i, j \in 1..n : i < j => Paging!Follows(kind, past[i], past[j]),
         \A i \in 1..n : Paging!PastCursor(kind, cursor, past[i]),
         \A row \in rows :
            Paging!PastCursor(kind, cursor, row) => \E i \in 1..n : past[i] = row,
         NEW size \in Nat \ {0}, NEW page, page.rows \in Seq(rows),
         Len(page.rows) = IF size < n THEN size ELSE n,
         \A i \in 1..Len(page.rows) : page.rows[i] = past[i],
         page.next = IF size < n THEN past[size] ELSE None
  PROVE  IsPage(kind, rows, cursor, page)
<1> DEFINE k == Len(page.rows)
           F(a, b) == Paging!Follows(kind, a, b)
           Past(row) == Paging!PastCursor(kind, cursor, row)
<1>1. k \in Nat /\ k <= n /\ DOMAIN page.rows = 1..k
  OBVIOUS
<1>2. \A a, b \in rows : ~F(a, a) /\ ~(F(a, b) /\ F(b, a))
  BY FollowsIs
<1>3. \A i, j \in 1..n : i < j => F(past[i], past[j])
  OBVIOUS
<1>4. \A row \in rows : Past(row) => \E i \in 1..n : past[i] = row
  OBVIOUS
<1>5. \A i \in 1..n : Past(past[i])
  OBVIOUS
<1>6. \A i \in 1..k : page.rows[i] = past[i]
  OBVIOUS
<1> HIDE DEF F, Past, k
<1>7. \A i, j \in 1..n : past[i] = past[j] => i = j
  BY <1>2, <1>3
<1>8. \A i \in 1..n : OnPage(page, past[i]) <=> i <= k
  BY <1>1, <1>6, <1>7 DEF OnPage
<1>9. CASE size < n
  <2>1. k = size /\ page.next = past[size] /\ size \in 1..n
    BY <1>9 DEF k
  <2>2. page.next \in rows /\ Past(page.next)
    BY <1>5, <2>1
  <2>3. ASSUME NEW row \in rows, Past(row)
        PROVE  OnPage(page, row) <=> ~F(page.next, row)
    <3>1. PICK i \in 1..n : past[i] = row
      BY <1>4, <2>3
    <3>2. OnPage(page, row) <=> i <= size
      BY <1>8, <2>1, <3>1
    <3>3. i <= size => ~F(page.next, row)
      <4>1. CASE i = size
        BY <1>2, <2>1, <3>1, <4>1
      <4>2. CASE i < size
        <5>1. F(row, page.next)
          BY <1>3, <2>1, <3>1, <4>2
        <5>2. QED
          BY <1>2, <2>2, <5>1
      <4>3. QED
        BY <4>1, <4>2
    <3>4. size < i => F(page.next, row)
      BY <1>3, <2>1, <3>1
    <3>5. QED
      BY <3>2, <3>3, <3>4
  <2>4. QED
    BY <1>1, <1>5, <1>6, <1>7, <2>2, <2>3 DEF IsPage, F, Past
<1>10. CASE ~(size < n)
  <2>1. k = n /\ page.next = None
    BY <1>10 DEF k
  <2>2. \A row \in rows : Past(row) => OnPage(page, row)
    BY <1>1, <1>4, <1>8, <2>1
  <2>3. QED
    BY <1>1, <1>5, <1>6, <1>7, <2>1, <2>2 DEF IsPage, Past
<1>11. QED
  BY <1>9, <1>10

\* The lesser of two numbers, and a piece of a sequence.
LEMMA MinOfTwo ==
  ASSUME NEW a \in Int, NEW b \in Int
  PROVE  Paging!Min({a, b}) = IF a <= b THEN a ELSE b
<1>1. CASE a <= b
  <2>1. \A x \in {a, b} : (\A y \in {a, b} : x <= y) => x = a
    BY <1>1
  <2>2. a \in {a, b} /\ \A y \in {a, b} : a <= y
    BY <1>1
  <2>3. QED
    BY <1>1, <2>1, <2>2 DEF Paging!Min
<1>2. CASE ~(a <= b)
  <2>1. \A x \in {a, b} : (\A y \in {a, b} : x <= y) => x = b
    BY <1>2
  <2>2. b \in {a, b} /\ \A y \in {a, b} : b <= y
    BY <1>2
  <2>3. QED
    BY <1>2, <2>1, <2>2 DEF Paging!Min
<1>3. QED
  BY <1>1, <1>2

LEMMA PieceIs ==
  ASSUME NEW S, NEW n \in Nat, NEW s \in [1..n -> S], NEW a \in 1..(n + 1), NEW b \in Nat,
         a - 1 <= b, b <= n
  PROVE  /\ SubSeq(s, a, b) \in Seq(S)
         /\ Len(SubSeq(s, a, b)) = b - a + 1
         /\ \A i \in 1..(b - a + 1) : SubSeq(s, a, b)[i] = s[a + i - 1]
<1>1. s \in Seq(S) /\ Len(s) = n
  OBVIOUS
<1>2. QED
  BY <1>1

\* A cursor is a row, of this listing or gone from it, or there is none.
IsCursor(cursor) == cursor = None \/ cursor \in [id : Nat, key : Nat]

\* Rows past the cursor are past it in the order of the listing.
LEMMA PastIs ==
  ASSUME NEW kind, NEW rows, Orderable(kind, rows), NEW cursor, IsCursor(cursor),
         NEW a \in rows, NEW b \in rows,
         Paging!PastCursor(kind, cursor, a), Paging!Follows(kind, a, b)
  PROVE  Paging!PastCursor(kind, cursor, b)
<1>1. CASE cursor = None
  BY <1>1 DEF Paging!PastCursor
<1>2. CASE cursor # None
  <2>1. /\ cursor \in [id : Nat, key : Nat]
        /\ a \in [id : Nat, key : Nat] /\ b \in [id : Nat, key : Nat]
    BY <1>2 DEF IsCursor, Orderable
  <2>2. Paging!Follows(kind, cursor, a)
    BY <1>2 DEF Paging!PastCursor
  <2>3. Paging!Follows(kind, cursor, b)
    BY <2>1, <2>2 DEF Paging!Follows, Paging!Below
  <2>4. QED
    BY <1>2, <2>3 DEF Paging!PastCursor
<1>3. QED
  BY <1>1, <1>2

\* The SQL stores' page.
LEMMA SelectedIs ==
  ASSUME NEW kind, NEW rows, Orderable(kind, rows), NEW cursor, IsCursor(cursor),
         NEW size \in Nat \ {0}
  PROVE  IsPage(kind, rows, cursor, Paging!SelectedPage(kind, rows, cursor, size))
<1> DEFINE P == {row \in rows : Paging!PastCursor(kind, cursor, row)}
           n == Cardinality(P)
           past == Paging!Sorted(kind, P)
           most == IF size + 1 <= n THEN size + 1 ELSE n
           k == IF size <= most THEN size ELSE most
           fetched == SubSeq(past, 1, most)
           page == Paging!SelectedPage(kind, rows, cursor, size)
<1>1. Orderable(kind, P)
  <2>1. P \in SUBSET rows
    OBVIOUS
  <2>2. IsFiniteSet(P)
    BY <2>1, FS_Subset DEF Orderable
  <2>3. QED
    BY <2>1, <2>2 DEF Orderable
<1>2. /\ n \in Nat /\ past \in [1..n -> P]
      /\ \A row \in P : \E i \in 1..n : past[i] = row
      /\ \A i, j \in 1..n : i < j => Paging!Follows(kind, past[i], past[j])
  <2> HIDE DEF P
  <2>1. QED
    BY <1>1, SortedIs, Zenon
<1>3. past \in [1..n -> rows] /\ Len(past) = n
  BY <1>2
<1> HIDE DEF n, past
<1>4. /\ fetched \in Seq(rows) /\ Len(fetched) = most
      /\ \A i \in 1..most : fetched[i] = past[i]
  BY <1>2, <1>3
<1>5. Paging!Fetched(kind, rows, cursor, size) = fetched
  <2>1. Paging!Min({size + 1, n}) = most
    BY <1>2, MinOfTwo
  <2> HIDE DEF most
  <2>2. QED
    BY <1>3, <2>1 DEF Paging!Fetched, past
<1> HIDE DEF fetched
<1>6. page = Paging!Page(SubSeq(fetched, 1, k), most > size)
  <2>1. Paging!Min({size, most}) = k
    BY <1>2, MinOfTwo
  <2> HIDE DEF k, most
  <2>2. QED
    BY <1>4, <1>5, <2>1 DEF Paging!SelectedPage
<1>7. /\ SubSeq(fetched, 1, k) \in Seq(rows)
      /\ Len(SubSeq(fetched, 1, k)) = IF size < n THEN size ELSE n
      /\ \A i \in 1..k : SubSeq(fetched, 1, k)[i] = past[i]
  BY <1>2, <1>4
<1>8. (most > size) = (size < n) /\ (size < n => k = size)
  BY <1>2
<1>9. /\ page.rows = SubSeq(fetched, 1, k)
      /\ page.next = IF size < n THEN past[size] ELSE None
  <2> DEFINE cut == SubSeq(fetched, 1, k)
  <2>1. page.rows = cut /\ page.next = IF most > size THEN Paging!Last(cut) ELSE None
    <3>1. page = Paging!Page(cut, most > size)
      BY <1>6
    <3> HIDE DEF page, cut, most
    <3>2. QED
      BY <3>1 DEF Paging!Page
  <2>2. Paging!Last(cut) = cut[Len(cut)]
    BY DEF Paging!Last
  <2>3. size < n => cut[Len(cut)] = past[size]
    BY <1>2, <1>7, <1>8
  <2> HIDE DEF cut, most, k
  <2>4. QED
    BY <1>8, <2>1, <2>2, <2>3 DEF cut
<1>10. \A i \in 1..n : Paging!PastCursor(kind, cursor, past[i])
  BY <1>2
<1>11. \A row \in rows :
          Paging!PastCursor(kind, cursor, row) => \E i \in 1..n : past[i] = row
  BY <1>2
<1>12. \A i \in 1..Len(page.rows) : page.rows[i] = past[i]
  BY <1>2, <1>7, <1>9
<1>13. /\ page.rows \in Seq(rows)
       /\ Len(page.rows) = IF size < n THEN size ELSE n
  BY <1>7, <1>9
<1> HIDE DEF page, P
<1>14. QED
  BY <1>2, <1>3, <1>9, <1>10, <1>11, <1>12, <1>13, CutIs DEF page

\* The page of the stores that sort what they read and slice it.
LEMMA SlicedIs ==
  ASSUME NEW kind, NEW rows, Orderable(kind, rows), NEW cursor, IsCursor(cursor),
         NEW size \in Nat \ {0}
  PROVE  IsPage(kind, rows, cursor, Paging!SlicedPage(kind, rows, cursor, size))
<1> DEFINE N == Cardinality(rows)
           sorted == Paging!Sorted(kind, rows)
           F(a, b) == Paging!Follows(kind, a, b)
           Past(row) == Paging!PastCursor(kind, cursor, row)
           Ps == {i \in 1..N : Past(sorted[i])}
           first == Paging!SelectInSeq(sorted, LAMBDA row : Past(row))
           start == IF first = 0 THEN N + 1 ELSE first
           end == IF start + size - 1 <= N THEN start + size - 1 ELSE N
           cut == SubSeq(sorted, start, end)
           n == N + 1 - start
           past == [i \in 1..n |-> sorted[start + i - 1]]
           page == Paging!SlicedPage(kind, rows, cursor, size)
<1>1. /\ N \in Nat /\ sorted \in [1..N -> rows]
      /\ \A row \in rows : \E i \in 1..N : sorted[i] = row
      /\ \A i, j \in 1..N : i < j => F(sorted[i], sorted[j])
  BY SortedIs
<1>2. Len(sorted) = N /\ sorted \in Seq(rows)
  BY <1>1
<1>3. \A i, j \in 1..N : i < j /\ Past(sorted[i]) => Past(sorted[j])
  <2>1. ASSUME NEW i \in 1..N, NEW j \in 1..N, i < j, Past(sorted[i])
        PROVE  Past(sorted[j])
    <3>1. sorted[i] \in rows /\ sorted[j] \in rows /\ F(sorted[i], sorted[j])
      BY <1>1, <2>1
    <3>2. QED
      BY <2>1, <3>1, PastIs
  <2>2. QED
    BY <2>1
<1>4. first = IF Ps # {} THEN Paging!Min(Ps) ELSE 0
  <2>1. first = IF {i \in 1..Len(sorted) : Past(sorted[i])} # {}
                THEN Paging!Min({i \in 1..Len(sorted) : Past(sorted[i])}) ELSE 0
    BY DEF Paging!SelectInSeq
  <2> HIDE DEF first, sorted, Past, N
  <2>2. QED
    BY <1>2, <2>1
<1>5. /\ start \in 1..(N + 1)
      /\ \A i \in 1..N : Past(sorted[i]) <=> start <= i
  <2> HIDE DEF sorted, Past, N
  <2>1. CASE Ps = {}
    <3>1. start = N + 1
      BY <1>4, <2>1
    <3>2. \A i \in 1..N : ~Past(sorted[i])
      BY <2>1
    <3> HIDE DEF start
    <3>3. QED
      BY <1>1, <3>1, <3>2
  <2>2. CASE Ps # {}
    <3>1. Paging!Min(Ps) = Min(Ps) /\ Ps \in SUBSET Nat
      BY DEF Paging!Min, Min
    <3>2. Min(Ps) \in Ps /\ \A i \in Ps : Min(Ps) <= i
      BY <2>2, <3>1, Least
    <3>3. first = Min(Ps)
      BY <1>4, <2>2, <3>1
    <3> HIDE DEF first
    <3>4. start = first /\ first \in Ps /\ \A i \in Ps : first <= i
      BY <3>2, <3>3
    <3> HIDE DEF start
    <3>5. start \in 1..N /\ Past(sorted[start]) /\ \A i \in 1..N : Past(sorted[i]) => start <= i
      BY <3>4
    <3>6. \A i \in 1..N : start <= i => Past(sorted[i])
      BY <1>3, <3>5
    <3>7. QED
      BY <1>1, <3>5, <3>6
  <2>3. QED
    BY <2>1, <2>2
<1>6. n \in Nat /\ past \in [1..n -> rows] /\ \A i \in 1..n : past[i] = sorted[start + i - 1]
  <2> HIDE DEF sorted, N, start
  <2>1. QED
    BY <1>1, <1>5
<1>7. /\ cut \in Seq(rows)
      /\ Len(cut) = IF size < n THEN size ELSE n
      /\ \A i \in 1..Len(cut) : cut[i] = past[i]
  <2> HIDE DEF sorted, N, start
  <2>1. end \in Nat /\ start - 1 <= end /\ end <= N
    BY <1>1, <1>5
  <2>2. end - start + 1 = IF size < n THEN size ELSE n
    BY <1>1, <1>5
  <2> HIDE DEF end
  <2>3. /\ cut \in Seq(rows) /\ Len(cut) = end - start + 1
        /\ \A i \in 1..(end - start + 1) : cut[i] = sorted[start + i - 1]
    BY <1>1, <1>5, <2>1, PieceIs
  <2> HIDE DEF cut
  <2>4. \A i \in 1..Len(cut) : i \in 1..n
    BY <1>1, <1>5, <2>1, <2>2, <2>3
  <2>5. QED
    BY <1>6, <2>2, <2>3, <2>4
<1>8. (end < N) = (size < n)
  <2> HIDE DEF sorted, N, start
  <2>1. QED
    BY <1>1, <1>5
<1>9. page = Paging!Page(cut, end < N)
  <2>1. Paging!Min({start + size - 1, N}) = end
    <3> HIDE DEF sorted, N, start
    <3>1. QED
      BY <1>1, <1>5, MinOfTwo
  <2>2. page = LET s == IF first = 0 THEN Len(sorted) + 1 ELSE first
                   e == Paging!Min({s + size - 1, Len(sorted)})
               IN  Paging!Page(SubSeq(sorted, s, e), e < Len(sorted))
    BY DEF Paging!SlicedPage
  <2>3. page = Paging!Page(SubSeq(sorted, start, Paging!Min({start + size - 1, N})),
                           Paging!Min({start + size - 1, N}) < N)
    <3> HIDE DEF sorted, N, first, page
    <3>1. QED
      BY <1>2, <2>2
  <2> HIDE DEF page, end, sorted, start, N
  <2>4. QED
    BY <2>1, <2>3
<1>10. /\ page.rows = cut
       /\ page.next = IF size < n THEN past[size] ELSE None
  <2>1. page.rows = cut /\ page.next = IF end < N THEN Paging!Last(cut) ELSE None
    <3> HIDE DEF page, cut, end, N
    <3>1. QED
      BY <1>9 DEF Paging!Page
  <2>2. Paging!Last(cut) = cut[Len(cut)]
    BY DEF Paging!Last
  <2> HIDE DEF page, cut, end, N, past, n
  <2>3. size < n => cut[Len(cut)] = past[size]
    BY <1>6, <1>7
  <2>4. QED
    BY <1>8, <2>1, <2>2, <2>3
<1> HIDE DEF page, cut, n, past, sorted, N, start, Past, F
<1>11. \A i, j \in 1..n : i < j => F(past[i], past[j])
  BY <1>1, <1>5, <1>6 DEF n
<1>12. \A i \in 1..n : Past(past[i])
  BY <1>1, <1>5, <1>6 DEF n
<1>13. \A row \in rows : Past(row) => \E i \in 1..n : past[i] = row
  <2>1. ASSUME NEW row \in rows, Past(row)
        PROVE  \E i \in 1..n : past[i] = row
    <3>1. PICK j \in 1..N : sorted[j] = row
      BY <1>1
    <3>2. start <= j
      BY <1>5, <2>1, <3>1
    <3>3. j - start + 1 \in 1..n
      BY <1>1, <1>5, <3>1, <3>2 DEF n
    <3>4. past[j - start + 1] = row
      BY <1>1, <1>5, <1>6, <3>1, <3>3
    <3>5. QED
      BY <3>3, <3>4
  <2>2. QED
    BY <2>1
<1>14. /\ page.rows \in Seq(rows)
       /\ Len(page.rows) = IF size < n THEN size ELSE n
       /\ \A i \in 1..Len(page.rows) : page.rows[i] = past[i]
  BY <1>7, <1>10
<1>15. QED
  BY <1>6, <1>10, <1>11, <1>12, <1>13, <1>14, CutIs DEF F, Past, page

\* A page of any backend.
LEMMA PageIs ==
  ASSUME NEW backend, NEW kind, NEW rows, Orderable(kind, rows),
         NEW cursor, IsCursor(cursor), NEW size \in Nat \ {0}
  PROVE  IsPage(kind, rows, cursor, Paging!PageOf(backend, kind, rows, cursor, size))
BY SelectedIs, SlicedIs DEF Paging!PageOf

-------------------------------------------------------------------------------
(* The session *)

Served == {"ready", "discovered", "sent", "scanning", "answered", "done", "walked"}
Asked == {"sent", "scanning", "answered"}

\* The request's credentials pass the server's stack.
Authenticated == StackVerdict(server.stack, request.cred)[1] = "ok"

ServerInv ==
  /\ builder \in Builders
  /\ server # None => server = Built(builder) /\ BuildRefusal(builder) = "none"
  /\ client.phase \in Served => server = Built(builder) /\ BuildRefusal(builder) = "none"

ClientInv ==
  /\ client = [phase   |-> client.phase,   plan   |-> client.plan,
               card    |-> client.card,    request |-> client.request,
               answer  |-> client.answer,  heard  |-> client.heard]
  /\ client.phase \in Served \cup {"unbuilt", "unserved"}
  /\ client.phase \in Served \ {"ready"} => client.card = AgentCard(server)
  /\ client.phase \in Asked =>
        /\ IsRequest(request) /\ IsCursor(request.token)
        /\ request.task \in TaskIds \cup {None}
        /\ request.config \in ConfigIds \cup {None}
        /\ request.op \in Sends \cup {"CreateConfig"} => request.config \in ConfigIds

TableInv == IsTable(db) /\ now \in Nat

\* What a scan has read, each task once, was the caller's, and is nobody
\* else's now.
ScanInv ==
  client.phase = "scanning" =>
    /\ Authenticated /\ request.op = "ListTasks"
    /\ scan.left \subseteq TaskIds
    /\ scan.read \subseteq [id : TaskIds, key : Nat]
    /\ \A row \in scan.read : row.id \notin scan.left
    /\ \A a, b \in scan.read : a.id = b.id => a = b
    /\ \A row \in scan.read :
          \/ db[row.id] = None
          \/ /\ db[row.id].owner = Owner(server, request)
             /\ db[row.id].tenant = request.tenant

\* A plain request is answered with a refusal of its credentials exactly when
\* they do not pass.
AnswerInv ==
  client.phase = "answered" =>
    /\ request.twist = "none" => ((client.answer.refusal \in AuthKinds) <=> ~Authenticated)
    /\ IsCursor(client.answer.page.next)

SessionInv == ServerInv /\ ClientInv /\ TableInv /\ ScanInv /\ AnswerInv

\* The server of a session has a stack an adopter can write.
LEMMA StackIs ==
  ASSUME ServerInv, client.phase \in Served
  PROVE  IsStack(server.stack) /\ server.stack = builder.stack
BY BuildersAssumption DEF ServerInv, Built

LEMMA RequestIs ==
  ASSUME NEW r, IsRequest(r)
  PROVE  /\ IsCredential(r.cred) /\ r.op \in Operations /\ r.binding \in Bindings
         /\ r.size \in Nat \ {0}
BY DEF IsRequest

\* A write of one row leaves a table a table.
LEMMA WriteIs ==
  ASSUME NEW d, IsTable(d), NEW t \in TaskIds, NEW row, row = None \/ IsRow(row)
  PROVE  IsTable([d EXCEPT ![t] = row])
<1> DEFINE e == [d EXCEPT ![t] = row]
<1>1. d = [u \in TaskIds |-> d[u]]
  BY DEF IsTable
<1>2. e = [u \in TaskIds |-> IF u = t THEN row ELSE d[u]]
  BY <1>1
<1> HIDE DEF e
<1>3. e = [u \in TaskIds |-> e[u]] /\ \A u \in TaskIds : e[u] = IF u = t THEN row ELSE d[u]
  BY <1>2
<1>4. IsTable(e)
  BY <1>3 DEF IsTable
<1>5. QED
  BY <1>4 DEF e

LEMMA InitSession == Init => SessionInv
<1> SUFFICES ASSUME Init PROVE SessionInv
  OBVIOUS
<1>1. /\ client.phase = "unbuilt"
      /\ client = [phase   |-> client.phase,   plan   |-> client.plan,
                   card    |-> client.card,    request |-> client.request,
                   answer  |-> client.answer,  heard  |-> client.heard]
  BY DEF Init
<1>2. ServerInv
  BY <1>1 DEF Init, ServerInv, Served
<1>3. ClientInv
  BY <1>1 DEF ClientInv, Served, Asked
<1>4. TableInv
  <2>1. db \in Databases \cup {ProbeDatabase} /\ now = MaxTime - 1
    BY DEF Init
  <2>2. QED
    BY <2>1, TablesAssumption, PagesAssumption DEF TableInv
<1>5. QED
  BY <1>1, <1>2, <1>3, <1>4 DEF SessionInv, ScanInv, AnswerInv

LEMMA BuildServerSession ==
  ASSUME SessionInv, BuildServer
  PROVE  SessionInv'
<1>1. ServerInv /\ ClientInv /\ TableInv
  BY DEF SessionInv
<1>2. CASE BuildRefusal(builder) = "none"
  <2>1. server' = Built(builder) /\ builder' = builder
        /\ client' = [client EXCEPT !.phase = "ready"] /\ db' = db /\ now' = now
    BY <1>2 DEF BuildServer
  <2>2. client'.phase = "ready"
    BY <1>1, <2>1 DEF ClientInv
  <2>3. ServerInv'
    BY <1>1, <1>2, <2>1 DEF ServerInv
  <2>4. ClientInv'
    BY <1>1, <2>1, <2>2 DEF ClientInv, Served, Asked
  <2>5. QED
    BY <1>1, <2>1, <2>2, <2>3, <2>4 DEF SessionInv, ScanInv, AnswerInv, TableInv
<1>3. CASE BuildRefusal(builder) # "none"
  <2>1. server' = server /\ builder' = builder
        /\ client' = [client EXCEPT !.phase = "unserved"] /\ db' = db /\ now' = now
    BY <1>3 DEF BuildServer
  <2>2. client'.phase = "unserved"
    BY <1>1, <2>1 DEF ClientInv
  <2>3. ServerInv'
    BY <1>1, <2>1, <2>2 DEF ServerInv, Served
  <2>4. ClientInv'
    BY <1>1, <2>1, <2>2 DEF ClientInv, Served, Asked
  <2>5. QED
    BY <1>1, <2>1, <2>2, <2>3, <2>4 DEF SessionInv, ScanInv, AnswerInv, TableInv
<1>4. QED
  BY <1>2, <1>3

LEMMA DiscoverSession ==
  ASSUME SessionInv, Discover
  PROVE  SessionInv'
<1>1. ServerInv /\ ClientInv /\ TableInv
  BY DEF SessionInv
<1>2. /\ client.phase = "ready" /\ server' = server /\ builder' = builder
      /\ client' = [client EXCEPT !.phase = "discovered", !.card = AgentCard(server)]
      /\ db' = db /\ now' = now
  BY DEF Discover
<1>3. client'.phase = "discovered" /\ client'.card = AgentCard(server)
  BY <1>1, <1>2 DEF ClientInv
<1>4. ServerInv'
  BY <1>1, <1>2 DEF ServerInv, Served
<1>5. AgentCard(server)' = AgentCard(server)
  BY <1>2 DEF AgentCard, Augment
<1>6. ClientInv'
  BY <1>1, <1>2, <1>3, <1>5 DEF ClientInv, Served, Asked
<1>7. QED
  BY <1>1, <1>2, <1>3, <1>4, <1>6 DEF SessionInv, ScanInv, AnswerInv, TableInv

\* A request is sent off.
LEMMA SentSession ==
  ASSUME SessionInv, client.phase = "discovered",
         NEW r, IsRequest(r), r.token = None, r.task \in TaskIds \cup {None},
         r.config \in ConfigIds \cup {None},
         r.op \in Sends \cup {"CreateConfig"} => r.config \in ConfigIds,
         client' = [client EXCEPT !.phase = "sent", !.request = r],
         UNCHANGED <<builder, server, db, now>>
  PROVE  SessionInv'
<1>1. ServerInv /\ ClientInv /\ TableInv
  BY DEF SessionInv
<1>2. /\ client'.phase = "sent" /\ client'.card = client.card /\ client'.request = r
      /\ client' = [phase   |-> client'.phase,   plan   |-> client'.plan,
                    card    |-> client'.card,    request |-> client'.request,
                    answer  |-> client'.answer,  heard  |-> client'.heard]
  BY <1>1 DEF ClientInv
<1>3. ServerInv'
  BY <1>1 DEF ServerInv, Served
<1>4. AgentCard(server)' = AgentCard(server)
  BY DEF AgentCard, Augment
<1>5. ClientInv'
  BY <1>1, <1>2, <1>4 DEF ClientInv, Served, Asked, IsCursor, request
<1>6. QED
  BY <1>1, <1>2, <1>3, <1>5 DEF SessionInv, ScanInv, AnswerInv, TableInv

LEMMA CredentialedIs ==
  ASSUME NEW r, IsRequest(r)
  PROVE  /\ IsRequest(Credentialed(r))
         /\ Credentialed(r).token = r.token /\ Credentialed(r).task = r.task
         /\ Credentialed(r).config = r.config /\ Credentialed(r).op = r.op
<1> DEFINE h == IF "apiKey" \in DOMAIN client.card.schemes
                THEN client.card.schemes["apiKey"] ELSE None
           c == [r.cred EXCEPT !.header = h]
           q == [r EXCEPT !.cred = c]
<1>1. Credentialed(r) = q
  BY DEF Credentialed
<1>2. IsCredential(r.cred)
  BY DEF IsRequest
<1> HIDE DEF h
<1>3. IsCredential(c)
  BY <1>2 DEF IsCredential
<1> HIDE DEF c
<1>4. /\ r = [op |-> r.op,     binding |-> r.binding, task  |-> r.task,
            config |-> r.config, tenant  |-> r.tenant,  twist |-> r.twist,
            cred   |-> r.cred,   size    |-> r.size,    token |-> r.token]
  BY DEF IsRequest
<1>5. q = [op |-> r.op,     binding |-> r.binding, task  |-> r.task,
           config |-> r.config, tenant  |-> r.tenant,  twist |-> r.twist,
           cred   |-> c,        size    |-> r.size,    token |-> r.token]
  BY <1>4
<1> HIDE DEF q
<1>6. /\ q.op = r.op /\ q.binding = r.binding /\ q.task = r.task /\ q.config = r.config
      /\ q.tenant = r.tenant /\ q.twist = r.twist /\ q.cred = c /\ q.size = r.size
      /\ q.token = r.token
  BY <1>5
<1>7. IsRequest(q)
  BY <1>3, <1>5, <1>6 DEF IsRequest
<1>8. QED
  BY <1>1, <1>6, <1>7

LEMMA SendProbeSession ==
  ASSUME SessionInv, SendProbe
  PROVE  SessionInv'
<1>1. builder \in Builders
  BY DEF SessionInv, ServerInv
<1>2. PICK r \in Probes(builder) :
         client' = [client EXCEPT !.phase = "sent", !.request = Credentialed(r)]
  BY DEF SendProbe
<1>3. /\ IsRequest(r) /\ r.token = None
      /\ r.task \in TaskIds \cup {None} /\ r.config \in ConfigIds
  BY <1>1, ProbesAssumption
<1>4. client.phase = "discovered" /\ UNCHANGED <<builder, server, db, now>>
  BY DEF SendProbe
<1>5. /\ IsRequest(Credentialed(r))
      /\ Credentialed(r).token = r.token /\ Credentialed(r).task = r.task
      /\ Credentialed(r).config = r.config /\ Credentialed(r).op = r.op
  BY <1>3, CredentialedIs
<1>6. QED
  BY <1>2, <1>3, <1>4, <1>5, SentSession

LEMMA WalksAre ==
  ASSUME NEW r \in Walks
  PROVE  /\ IsRequest(r) /\ r.token = None /\ r.task \in TaskIds
         /\ r.op \in {"ListTasks", "ListConfigs"} /\ r.binding = "HTTP"
         /\ r.twist = "none" /\ r.config = None
<1> DEFINE task == CHOOSE t \in TaskIds : TRUE
<1>1. PICK op \in {"ListTasks", "ListConfigs"}, size \in PageSizes : r = WalkFrom(op, size)
  BY DEF Walks
<1>2. task \in TaskIds /\ task # None /\ size \in Nat \ {0}
  BY TablesAssumption, PagesAssumption
<1> HIDE DEF task
<1>3. IsCredential(NoCredentials)
  BY DEF IsCredential, NoCredentials, Presented
<1>4. /\ r.op = op /\ r.binding = "HTTP" /\ r.task = task /\ r.config = None
      /\ r.twist = "none" /\ r.cred = NoCredentials /\ r.size = size /\ r.token = None
      /\ r = [op |-> r.op,     binding |-> r.binding, task  |-> r.task,
              config |-> r.config, tenant  |-> r.tenant,  twist |-> r.twist,
              cred   |-> r.cred,   size    |-> r.size,    token |-> r.token]
  BY <1>1 DEF WalkFrom, task
<1>5. IsRequest(r)
  BY <1>2, <1>3, <1>4 DEF IsRequest, Operations, OnTask, Bindings, Configs
<1>6. QED
  BY <1>2, <1>4, <1>5

LEMMA StartWalkSession ==
  ASSUME SessionInv, NEW r \in Walks, StartWalk(r)
  PROVE  SessionInv'
<1>1. /\ client.phase = "discovered" /\ UNCHANGED <<builder, server, db, now>>
      /\ client' = [client EXCEPT !.phase = "sent", !.request = r]
  BY DEF StartWalk
<1>2. QED
  BY <1>1, WalksAre, SentSession DEF Sends

\* Answering leaves the session in order.
LEMMA AnswerSession ==
  ASSUME SessionInv, client.phase \in {"sent", "scanning"},
         NEW refusal, NEW shown, NEW page, Answer(refusal, shown, page),
         IsCursor(page.next),
         request.twist = "none" => ((refusal \in AuthKinds) <=> ~Authenticated),
         UNCHANGED <<builder, server>>, TableInv'
  PROVE  SessionInv'
<1>1. ServerInv /\ ClientInv
  BY DEF SessionInv
<1> DEFINE answer == [refusal |-> refusal, wire |-> Reply(refusal),
                      shown |-> shown, page |-> page]
<1>2. client' = [client EXCEPT !.phase = "answered", !.answer = answer]
  BY DEF Answer
<1>3. answer.refusal = refusal /\ answer.page = page
  OBVIOUS
<1> HIDE DEF answer
<1>4. /\ client'.phase = "answered" /\ client'.card = client.card
      /\ client'.request = request /\ client'.answer = answer
      /\ client' = [phase   |-> client'.phase,   plan   |-> client'.plan,
                    card    |-> client'.card,    request |-> client'.request,
                    answer  |-> client'.answer,  heard  |-> client'.heard]
  BY <1>1, <1>2 DEF ClientInv, request
<1>5. ServerInv'
  BY <1>1 DEF ServerInv, Served
<1>6. AgentCard(server)' = AgentCard(server) /\ Authenticated' = Authenticated
  BY <1>4 DEF AgentCard, Augment, Authenticated, request
<1>7. ClientInv'
  BY <1>1, <1>4, <1>6 DEF ClientInv, Served, Asked, request
<1>8. AnswerInv'
  BY <1>3, <1>4, <1>6 DEF AnswerInv, request
<1>9. ScanInv'
  BY <1>4 DEF ScanInv
<1>10. QED
  BY <1>5, <1>7, <1>8, <1>9 DEF SessionInv

\* What a request in hand is.
LEMMA AskedIs ==
  ASSUME SessionInv, client.phase \in Asked
  PROVE  /\ IsStack(server.stack) /\ IsCredential(request.cred)
         /\ request.op \in Operations /\ request.binding \in Bindings
         /\ request.size \in Nat \ {0} /\ IsCursor(request.token)
         /\ request.task \in TaskIds \cup {None}
<1>1. client.phase \in Served /\ ServerInv /\ ClientInv
  BY DEF Asked, Served, SessionInv
<1>2. IsStack(server.stack)
  BY <1>1, StackIs
<1>3. QED
  BY <1>1, <1>2, RequestIs DEF ClientInv

\* A request that is let through comes from someone the stack admits, and the
\* core refuses it nothing.
LEMMA ReachedIs ==
  ASSUME SessionInv, Reached("none")
  PROVE  /\ Authenticated
         /\ FirstRefusal(CoreChecks(db, server, request)) = "none"
<1>1. client.phase \in Asked /\ Refusal(request.binding, db, server, request) = "none"
  BY DEF Reached, Asked
<1>2. QED
  BY <1>1, AskedIs, Passed, Zenon DEF Authenticated

\* The stack names whoever it admits by a credential.
LEMMA OwnerIs ==
  ASSUME SessionInv, client.phase \in Asked, Authenticated
  PROVE  Owner(server, request) \in Principals(request.cred)
<1>1. Owner(server, request) \in Speakers(server.stack, request.cred)
  BY AskedIs, StackVerdictIs, Zenon DEF Authenticated, Owner
<1>2. QED
  BY <1>1 DEF Speakers, Holders, Principals

LEMMA RefusedSession ==
  ASSUME SessionInv, Refused
  PROVE  SessionInv'
<1> DEFINE refusal == Refusal(request.binding, db, server, request)
<1>1. /\ client.phase = "sent" /\ Answer(refusal, {}, NoPage)
      /\ UNCHANGED <<builder, server, db, now, walk, scan, writes>>
  BY DEF Refused
<1>2. request.twist = "none" => ((refusal \in AuthKinds) <=> ~Authenticated)
  <2>1. "none" \notin BindingTwists /\ "none" # "version"
    BY DEF BindingTwists
  <2>2. client.phase \in Asked
    BY <1>1 DEF Asked
  <2>3. QED
    BY <2>1, <2>2, AskedIs, KindsIs, Zenon DEF Authenticated
<1>3. IsCursor(NoPage.next)
  BY DEF NoPage, IsCursor
<1>4. TableInv'
  BY <1>1 DEF SessionInv, TableInv
<1> HIDE DEF refusal
<1>5. QED
  BY <1>1, <1>2, <1>3, <1>4, AnswerSession

\* An answer to a request that is let through.
LEMMA ServedSession ==
  ASSUME SessionInv, client.phase \in {"sent", "scanning"}, Authenticated,
         NEW shown, NEW page, Answer("none", shown, page),
         IsCursor(page.next), UNCHANGED <<builder, server>>, TableInv'
  PROVE  SessionInv'
BY AnswerSession DEF AuthKinds

LEMMA ReadSession ==
  ASSUME SessionInv, Read
  PROVE  SessionInv'
<1>1. /\ client.phase = "sent" /\ Answer("none", {request.task} \ {None}, NoPage)
      /\ Authenticated /\ UNCHANGED <<builder, server, db, now>>
  BY ReachedIs DEF Read, Reached
<1>2. TableInv'
  BY <1>1 DEF SessionInv, TableInv
<1>3. IsCursor(NoPage.next)
  BY DEF NoPage, IsCursor
<1>4. QED
  BY <1>1, <1>2, <1>3, ServedSession

\* The clock stands still or goes on.
LEMMA StampedIs ==
  ASSUME TableInv, Stamped
  PROVE  now' \in Nat /\ now' >= now
BY PagesAssumption DEF TableInv, Stamped

LEMMA RowOf ==
  ASSUME NEW d, IsTable(d), NEW t \in TaskIds, d[t] # None
  PROVE  IsRow(d[t])
BY DEF IsTable

LEMMA TurnSession ==
  ASSUME SessionInv, Turn
  PROVE  SessionInv'
<1>1. /\ client.phase = "sent" /\ Authenticated /\ Stamped
      /\ request.op \in Sends /\ UNCHANGED <<builder, server>>
  BY ReachedIs DEF Turn, Reached
<1>2. TableInv /\ ClientInv
  BY DEF SessionInv
<1>3. PICK t \in TaskIds, state \in Outcomes :
        /\ db' = [db EXCEPT ![t] =
             [tenant  |-> request.tenant,
              owner   |-> Owner(server, request),
              state   |-> state,
              key     |-> now',
              configs |-> (IF db[t] = None THEN {} ELSE db[t].configs)
                            \cup (IF request.twist = "inline"
                                  THEN {request.config} ELSE {})]]
        /\ Answer("none", {t}, NoPage)
  BY DEF Turn
<1> DEFINE configs == (IF db[t] = None THEN {} ELSE db[t].configs)
                            \cup (IF request.twist = "inline"
                                  THEN {request.config} ELSE {})
           row == [tenant  |-> request.tenant, owner |-> Owner(server, request),
                   state   |-> state, key |-> now', configs |-> configs]
<1>4. now' \in Nat
  BY <1>1, <1>2, StampedIs
<1>5. configs \subseteq ConfigIds
  <2>1. request.config \in ConfigIds
    BY <1>1, <1>2 DEF ClientInv, Asked
  <2>2. db[t] # None => db[t].configs \subseteq ConfigIds
    BY <1>2, RowOf DEF TableInv, IsRow
  <2>3. QED
    BY <2>1, <2>2
<1>6. db' = [db EXCEPT ![t] = row]
  BY <1>3
<1> HIDE DEF configs
<1>7. IsRow(row)
  BY <1>4, <1>5 DEF IsRow
<1> HIDE DEF row
<1>8. TableInv'
  BY <1>2, <1>4, <1>6, <1>7, WriteIs DEF TableInv
<1>9. IsCursor(NoPage.next)
  BY DEF NoPage, IsCursor
<1>10. QED
  BY <1>1, <1>3, <1>8, <1>9, ServedSession

\* The core lets an operation on a task through only for its owner, in its
\* tenant.
LEMMA CoreSees ==
  ASSUME NEW d, NEW s, NEW r, r.op \in OnTask, FirstRefusal(CoreChecks(d, s, r)) = "none"
  PROVE  Seen(d, s, r)
<1> DEFINE core == CoreChecks(d, s, r)
           v == Visibility(d, s, r)
<1>1. r.op \in Operations
  BY DEF OnTask, Operations
<1>2. IsPath(core)
  BY <1>1, CoreIs
<1>3. SUFFICES \E m \in DOMAIN core : core[m] = v
  <2>1. \A m \in DOMAIN core : ~core[m].fails
    BY <1>2, NoneFails
  <2>2. v.fails <=> ~Seen(d, s, r)
    BY DEF Visibility, Refuse
  <2> HIDE DEF core, v
  <2>3. QED
    BY <2>1, <2>2
<1>4. CASE r.op = "GetTask"
  <2>1. core = <<History(r), v>>
    BY <1>4 DEF CoreChecks, Sends, Configs
  <2> HIDE DEF core, v
  <2>2. 2 \in DOMAIN core /\ core[2] = v
    BY <2>1
  <2>3. QED
    BY <2>2
<1>5. CASE r.op = "CancelTask"
  <2>1. core = <<v, Refuse("TASK_NOT_CANCELABLE", Finished(d, s, r))>>
    BY <1>5 DEF CoreChecks, Configs
  <2> HIDE DEF core, v
  <2>2. 1 \in DOMAIN core /\ core[1] = v
    BY <2>1
  <2>3. QED
    BY <2>2
<1>6. CASE r.op = "SubscribeToTask"
  <2>1. core = <<Streaming(s), v, Refuse("UNSUPPORTED_OPERATION", Finished(d, s, r))>>
    BY <1>6 DEF CoreChecks, Configs
  <2> HIDE DEF core, v
  <2>2. 2 \in DOMAIN core /\ core[2] = v
    BY <2>1
  <2>3. QED
    BY <2>2
<1>7. CASE r.op \in Configs
  <2>1. core = ConfigChecks(d, s, r)
    BY <1>7 DEF CoreChecks, Configs
  <2> DEFINE a == Refuse("PUSH_NOTIFICATION_NOT_SUPPORTED", Lacks(s, "push_notifications"))
             b == Refuse("INVALID_REQUEST", r.op = "CreateConfig" /\ r.twist \in {"body", "url"})
             c == Refuse("TASK_NOT_FOUND",
                         r.op = "GetConfig" /\ Seen(d, s, r)
                           /\ r.config \notin d[r.task].configs)
  <2>2. core = <<a, v, b, c>>
    BY <2>1 DEF ConfigChecks
  <2> HIDE DEF core, v, a, b, c
  <2>3. 2 \in DOMAIN core /\ core[2] = v
    BY <2>2
  <2>4. QED
    BY <2>3
<1>8. QED
  BY <1>4, <1>5, <1>6, <1>7 DEF OnTask

\* What a send checks of the task it names comes last.
LEMMA SendSees ==
  ASSUME NEW d, NEW s, NEW r, r.op \in Sends, FirstRefusal(CoreChecks(d, s, r)) = "none",
         r.task # None
  PROVE  Seen(d, s, r)
<1> DEFINE v == Visibility(d, s, r)
           b == Refuse("INVALID_REQUEST", r.twist = "context")
           c == Refuse("UNSUPPORTED_OPERATION",
                       Seen(d, s, r) /\ d[r.task].state # "INPUT_REQUIRED")
           target == TargetChecks(d, s, r)
           core == CoreChecks(d, s, r)
           h == Refuse("UNSUPPORTED_OPERATION", r.twist = "immediate" /\ ~s.immediate)
           me == MessageChecks(s, r)
           il == InlineConfigChecks(s, r)
<1>1. target = <<v, b, c>>
  BY DEF TargetChecks
<1>2. /\ h \in Check(CoreKinds) /\ History(r) \in Check(CoreKinds)
      /\ Streaming(s) \in Check(CoreKinds)
      /\ me \in Path(CoreKinds) /\ il \in Path(CoreKinds) /\ target \in Path(CoreKinds)
  BY PartsArePaths
<1>3. \E first \in Path(CoreKinds) : core = first \o target
  <2>1. CASE r.op = "SendMessage"
    <3>1. core = me \o <<h, History(r)>> \o il \o target
      BY <2>1 DEF CoreChecks, SendChecks, Configs
    <3> HIDE DEF me, il, h, target, core
    <3>2. me \o <<h, History(r)>> \o il \in Path(CoreKinds)
      BY <1>2, TwoPath, LongPath
    <3>3. QED
      BY <3>1, <3>2
  <2>2. CASE r.op = "SendStreamingMessage"
    <3>1. core = <<Streaming(s), History(r)>> \o me \o il \o target
      BY <2>2 DEF CoreChecks, StreamChecks, Configs
    <3> HIDE DEF me, il, target, core
    <3>2. <<Streaming(s), History(r)>> \o me \o il \in Path(CoreKinds)
      BY <1>2, TwoPath, LongPath
    <3>3. QED
      BY <3>1, <3>2
  <2>3. QED
    BY <2>1, <2>2 DEF Sends
<1>4. PICK first \in Path(CoreKinds) : core = first \o target
  BY <1>3
<1>5. "none" \notin CoreKinds
  BY DEF CoreKinds
<1> HIDE DEF core, target
<1>6. IsPath(first) /\ IsPath(target)
  BY <1>2, <1>5, PathIs
<1>7. After(FirstRefusal(first), FirstRefusal(target)) = "none"
  BY <1>4, <1>6, PathsJoin, Zenon DEF core
<1>8. FirstRefusal(target) = "none"
  BY <1>7 DEF After
<1>9. \A m \in DOMAIN target : ~target[m].fails
  BY <1>6, <1>8, NoneFails
<1>10. v.fails <=> ~Seen(d, s, r)
  BY DEF Visibility, Refuse
<1> HIDE DEF v, b, c
<1>11. 1 \in DOMAIN target /\ target[1] = v
  BY <1>1
<1>12. QED
  BY <1>9, <1>10, <1>11

\* The row of a task an operation is let through to.
LEMMA SeenIs ==
  ASSUME SessionInv, Reached("none"), request.task # None,
         request.op \in OnTask \cup Sends
  PROVE  /\ request.task \in TaskIds
         /\ db[request.task] # None
         /\ IsRow(db[request.task])
         /\ db[request.task].tenant = request.tenant
         /\ db[request.task].owner = Owner(server, request)
<1>1. Seen(db, server, request)
  BY ReachedIs, CoreSees, SendSees, Zenon
<1>2. request.task \in TaskIds
  BY AskedIs DEF Reached, Asked
<1>3. IsRow(db[request.task])
  BY <1>1, <1>2, RowOf DEF Seen, SessionInv, TableInv
<1>4. QED
  BY <1>1, <1>2, <1>3 DEF Seen

\* Changing fields of a row leaves it the caller's.
LEMMA CancelSession ==
  ASSUME SessionInv, Cancel
  PROVE  SessionInv'
<1>1. /\ client.phase = "sent" /\ Authenticated /\ Stamped /\ Reached("none")
      /\ request.op = "CancelTask" /\ UNCHANGED <<builder, server>>
      /\ Answer("none", {request.task}, NoPage)
  BY ReachedIs DEF Cancel, Reached
<1>2. TableInv /\ ClientInv
  BY DEF SessionInv
<1>3. PICK state \in TERMINAL_STATES :
        db' = [db EXCEPT ![request.task].state = state, ![request.task].key = now']
  BY DEF Cancel
<1> DEFINE old == db[request.task]
           row == [old EXCEPT !.state = state, !.key = now']
<1>4. now' \in Nat
  BY <1>1, <1>2, StampedIs
<1>5. request.task \in TaskIds /\ IsRow(old)
  <2>1. request.task # None /\ request.op \in OnTask
    BY <1>1, <1>2 DEF ClientInv, Reached, Asked, IsRequest, OnTask
  <2>2. QED
    BY <1>1, <2>1, SeenIs
<1>6. db' = [db EXCEPT ![request.task] = row]
  <2>1. db = [t \in TaskIds |-> db[t]]
    BY <1>2 DEF TableInv, IsTable
  <2>2. db' = [t \in TaskIds |-> IF t = request.task THEN row ELSE db[t]]
    BY <1>3, <1>5, <2>1
  <2> HIDE DEF old, row
  <2>3. QED
    BY <2>1, <2>2
<1> HIDE DEF old
<1>7. IsRow(row)
  <2> DEFINE mid == [old EXCEPT !.state = state]
  <2>1. row = [mid EXCEPT !.key = now']
    OBVIOUS
  <2>2. IsRow(mid)
    BY <1>5 DEF IsRow
  <2> HIDE DEF row, mid
  <2>3. QED
    BY <1>4, <2>1, <2>2 DEF IsRow
<1> HIDE DEF row
<1>8. TableInv'
  BY <1>2, <1>4, <1>5, <1>6, <1>7, WriteIs DEF TableInv
<1>9. IsCursor(NoPage.next)
  BY DEF NoPage, IsCursor
<1>10. QED
  BY <1>1, <1>8, <1>9, ServedSession

LEMMA WriteConfigSession ==
  ASSUME SessionInv, WriteConfig
  PROVE  SessionInv'
<1>1. /\ client.phase = "sent" /\ Authenticated /\ Reached("none")
      /\ request.op \in {"CreateConfig", "DeleteConfig"} /\ UNCHANGED <<builder, server, now>>
      /\ Answer("none", {request.task}, NoPage)
  BY ReachedIs DEF WriteConfig, Reached
<1>2. TableInv /\ ClientInv
  BY DEF SessionInv
<1> DEFINE old == db[request.task]
           configs == IF request.op = "CreateConfig" THEN old.configs \cup {request.config}
                      ELSE old.configs \ {request.config}
           row == [old EXCEPT !.configs = configs]
<1>3. request.task \in TaskIds /\ IsRow(old)
  <2>1. request.task # None /\ request.op \in OnTask
    BY <1>1, <1>2 DEF ClientInv, Reached, Asked, IsRequest, OnTask, Configs
  <2>2. QED
    BY <1>1, <2>1, SeenIs
<1>4. db' = [db EXCEPT ![request.task] = row]
  BY <1>2, <1>3 DEF WriteConfig, TableInv, IsTable
<1>5. request.op = "CreateConfig" => request.config \in ConfigIds
  BY <1>1, <1>2 DEF ClientInv, Asked
<1> HIDE DEF old
<1>6. configs \subseteq ConfigIds
  BY <1>3, <1>5 DEF IsRow
<1> HIDE DEF configs
<1>7. IsRow(row)
  BY <1>3, <1>6 DEF IsRow
<1> HIDE DEF row
<1>8. TableInv'
  BY <1>1, <1>2, <1>3, <1>4, <1>7, WriteIs DEF TableInv
<1>9. IsCursor(NoPage.next)
  BY DEF NoPage, IsCursor
<1>10. QED
  BY <1>1, <1>8, <1>9, ServedSession

\* Rows that their ids tell apart are no more than the ids.
LEMMA FewRows ==
  ASSUME NEW ids, IsFiniteSet(ids), NEW rows, \A row \in rows : row.id \in ids,
         \A a, b \in rows : a.id = b.id => a = b
  PROVE  IsFiniteSet(rows)
<1> DEFINE J == {i \in ids : \E row \in rows : row.id = i}
           f == [i \in J |-> CHOOSE row \in rows : row.id = i]
<1>1. IsFiniteSet(J)
  BY FS_Subset
<1>2. \A i \in J : f[i] \in rows /\ f[i].id = i
  OBVIOUS
<1>3. f \in [J -> rows]
  BY <1>2
<1>4. \A row \in rows : row.id \in J
  OBVIOUS
<1> HIDE DEF f, J
<1>5. \A row \in rows : \E i \in J : f[i] = row
  BY <1>2, <1>4
<1>6. f \in Surjection(J, rows)
  BY <1>3, <1>5 DEF Surjection
<1>7. QED
  BY <1>1, <1>6, FS_Surjection

\* What a listing of the caller's tasks is made of.
LEMMA TaskRowsAre ==
  ASSUME NEW d, IsTable(d)
  PROVE  /\ TaskRows(d) \subseteq [id : TaskIds, key : Nat]
         /\ \A row \in TaskRows(d) :
               /\ d[row.id] # None /\ row.key = d[row.id].key
               /\ d[row.id].owner = Owner(server, request)
               /\ d[row.id].tenant = request.tenant
         /\ \A a, b \in TaskRows(d) : a.id = b.id => a = b
<1>1. ASSUME NEW row \in TaskRows(d)
      PROVE  /\ row.id \in TaskIds /\ d[row.id] # None
             /\ row = [id |-> row.id, key |-> d[row.id].key]
             /\ d[row.id].owner = Owner(server, request)
             /\ d[row.id].tenant = request.tenant
  BY DEF TaskRows
<1>2. \A row \in TaskRows(d) : d[row.id].key \in Nat
  BY <1>1, RowOf DEF IsRow
<1>3. \A row \in TaskRows(d) : row = [id |-> row.id, key |-> d[row.id].key]
  BY <1>1
<1>4. \A a, b \in TaskRows(d) : a.id = b.id => a = b
  BY <1>3, Zenon
<1>5. QED
  BY <1>1, <1>2, <1>4

LEMMA ConfigRowsAre ==
  ASSUME NEW d, IsTable(d), request.task \in TaskIds
  PROVE  /\ ConfigRows(d) \subseteq [id : ConfigIds, key : {0}]
         /\ \A a, b \in ConfigRows(d) : a.id = b.id => a = b
<1>1. CASE d[request.task] = None
  BY <1>1 DEF ConfigRows
<1>2. CASE d[request.task] # None
  <2>1. d[request.task].configs \subseteq ConfigIds
    BY <1>2, RowOf DEF IsRow
  <2>2. ASSUME NEW row \in ConfigRows(d)
        PROVE  row.id \in ConfigIds /\ row = [id |-> row.id, key |-> 0]
    BY <1>2, <2>1 DEF ConfigRows
  <2>3. \A row \in ConfigRows(d) : row = [id |-> row.id, key |-> 0]
    BY <2>2
  <2>4. \A a, b \in ConfigRows(d) : a.id = b.id => a = b
    BY <2>3, Zenon
  <2>5. QED
    BY <2>2, <2>4
<1>3. QED
  BY <1>1, <1>2

\* The rows of a listing can be put in order.
LEMMA OrderableIs ==
  ASSUME NEW kind, NEW ids, IsFiniteSet(ids), ids \subseteq Nat,
         NEW rows, rows \subseteq [id : ids, key : Nat],
         \A a, b \in rows : a.id = b.id => a = b
  PROVE  Orderable(kind, rows)
<1>1. IsFiniteSet(rows)
  BY FewRows
<1>2. rows \subseteq [id : Nat, key : Nat]
  OBVIOUS
<1>3. QED
  BY <1>1, <1>2 DEF Orderable

LEMMA ListedIs ==
  ASSUME NEW d, IsTable(d), request.op = "ListTasks" \/ request.task \in TaskIds
  PROVE  /\ Orderable(Kind(request), Listed(d))
         /\ \A a, b \in Listed(d) : a.id = b.id => a = b
<1>1. TaskIds \subseteq Nat /\ ConfigIds \subseteq Nat
      /\ IsFiniteSet(TaskIds) /\ IsFiniteSet(ConfigIds)
  BY TablesAssumption
<1>2. CASE request.op = "ListTasks"
  <2>1. Listed(d) = TaskRows(d)
    BY <1>2 DEF Listed
  <2>2. TaskRows(d) \subseteq [id : TaskIds, key : Nat]
        /\ \A a, b \in TaskRows(d) : a.id = b.id => a = b
    BY TaskRowsAre
  <2>3. QED
    BY <1>1, <2>1, <2>2, OrderableIs
<1>3. CASE request.op # "ListTasks"
  <2>1. Listed(d) = ConfigRows(d)
    BY <1>3 DEF Listed
  <2>2. ConfigRows(d) \subseteq [id : ConfigIds, key : Nat]
        /\ \A a, b \in ConfigRows(d) : a.id = b.id => a = b
    BY <1>3, ConfigRowsAre
  <2>3. QED
    BY <1>1, <2>1, <2>2, OrderableIs
<1>4. QED
  BY <1>2, <1>3

\* The cursor a page leads on with.
LEMMA NextIs ==
  ASSUME NEW kind, NEW rows, Orderable(kind, rows), NEW cursor, NEW page,
         IsPage(kind, rows, cursor, page)
  PROVE  IsCursor(page.next)
BY DEF IsPage, IsCursor, Orderable

LEMMA ListSession ==
  ASSUME SessionInv, List
  PROVE  SessionInv'
<1> DEFINE page == Paging!PageOf(server.backend, Kind(request), Listed(db),
                                 request.token, request.size)
           ids == {page.rows[i].id : i \in DOMAIN page.rows}
           shown == IF request.op = "ListTasks" THEN ids ELSE {request.task}
<1>1. /\ client.phase = "sent" /\ Authenticated
      /\ request.op \in {"ListConfigs", "ListTasks"} /\ UNCHANGED <<builder, server, db, now>>
      /\ Answer("none", shown, page)
  BY ReachedIs DEF List, Reached
<1>2. TableInv /\ ClientInv
  BY DEF SessionInv
<1>3. request.op = "ListTasks" \/ request.task \in TaskIds
  BY <1>1, <1>2 DEF ClientInv, Asked, IsRequest, OnTask, Configs
<1>4. Orderable(Kind(request), Listed(db))
  BY <1>2, <1>3, ListedIs DEF TableInv
<1>5. IsCursor(request.token) /\ request.size \in Nat \ {0}
  BY <1>1, AskedIs DEF Asked
<1>6. IsPage(Kind(request), Listed(db), request.token, page)
  BY <1>4, <1>5, PageIs
<1> HIDE DEF page
<1>7. IsCursor(page.next)
  BY <1>4, <1>6, NextIs
<1> HIDE DEF shown
<1>8. TableInv'
  BY <1>1, <1>2 DEF TableInv
<1>9. QED
  BY <1>1, <1>7, <1>8, ServedSession

LEMMA ScanStartsSession ==
  ASSUME SessionInv, ScanStarts
  PROVE  SessionInv'
<1>1. /\ client.phase = "sent" /\ Authenticated
      /\ request.op = "ListTasks" /\ UNCHANGED <<builder, server, db, now>>
      /\ client' = [client EXCEPT !.phase = "scanning"]
      /\ scan' = [left |-> TaskIds, read |-> {}]
  BY ReachedIs DEF ScanStarts, Reached
<1>2. ServerInv /\ ClientInv /\ TableInv
  BY DEF SessionInv
<1>3. /\ client'.phase = "scanning" /\ client'.card = client.card
      /\ client'.request = request /\ client'.answer = client.answer
      /\ client' = [phase   |-> client'.phase,   plan   |-> client'.plan,
                    card    |-> client'.card,    request |-> client'.request,
                    answer  |-> client'.answer,  heard  |-> client'.heard]
  BY <1>1, <1>2 DEF ClientInv, request
<1>4. ServerInv'
  BY <1>1, <1>2, <1>3 DEF ServerInv, Served
<1>5. AgentCard(server)' = AgentCard(server) /\ Authenticated' = Authenticated
  BY <1>1, <1>3 DEF AgentCard, Augment, Authenticated, request
<1>6. ClientInv'
  BY <1>1, <1>2, <1>3, <1>5 DEF ClientInv, Served, Asked, request
<1>7. ScanInv'
  BY <1>1, <1>3, <1>5 DEF ScanInv, request
<1>8. QED
  BY <1>1, <1>2, <1>3, <1>4, <1>6, <1>7 DEF SessionInv, AnswerInv, TableInv

\* A step that leaves client, server and table alone keeps the session in order
\* if it keeps what a scan has read in order.
LEMMA StillSession ==
  ASSUME SessionInv, UNCHANGED <<builder, server, client>>, TableInv', ScanInv'
  PROVE  SessionInv'
<1>1. ServerInv'
  BY DEF SessionInv, ServerInv
<1>2. AgentCard(server)' = AgentCard(server) /\ Authenticated' = Authenticated
  BY DEF AgentCard, Augment, Authenticated, request
<1>3. ClientInv'
  BY <1>2 DEF SessionInv, ClientInv, request
<1>4. AnswerInv'
  BY <1>2 DEF SessionInv, AnswerInv, request
<1>5. QED
  BY <1>1, <1>3, <1>4 DEF SessionInv

LEMMA ScanReadsSession ==
  ASSUME SessionInv, ScanReads
  PROVE  SessionInv'
<1>1. /\ client.phase = "scanning" /\ UNCHANGED <<builder, server, db, now, client>>
  BY DEF ScanReads
<1>2. TableInv /\ ScanInv
  BY DEF SessionInv
<1>3. PICK t \in scan.left :
        scan' = [left |-> scan.left \ {t},
                 read |-> scan.read \cup {row \in TaskRows(db) : row.id = t}]
  BY DEF ScanReads
<1> DEFINE new == {row \in TaskRows(db) : row.id = t}
<1>4. /\ TaskRows(db) \subseteq [id : TaskIds, key : Nat]
      /\ \A row \in TaskRows(db) :
               /\ db[row.id].owner = Owner(server, request)
               /\ db[row.id].tenant = request.tenant
      /\ \A a, b \in TaskRows(db) : a.id = b.id => a = b
  BY <1>2, TaskRowsAre DEF TableInv
<1>5. /\ \A row \in new : row.id = t
      /\ \A row \in new : db[row.id].owner = Owner(server, request)
                          /\ db[row.id].tenant = request.tenant
      /\ new \subseteq [id : TaskIds, key : Nat]
      /\ \A a, b \in new : a = b
  BY <1>4
<1>6. scan'.left = scan.left \ {t} /\ scan'.read = scan.read \cup new
  BY <1>3
<1> HIDE DEF new
<1>7. /\ Authenticated /\ request.op = "ListTasks"
      /\ scan.left \subseteq TaskIds
      /\ scan.read \subseteq [id : TaskIds, key : Nat]
  BY <1>1, <1>2 DEF ScanInv
<1>8. \A row \in scan.read : row.id \notin scan.left
  BY <1>1, <1>2 DEF ScanInv
<1>9. \A a, b \in scan.read : a.id = b.id => a = b
  BY <1>1, <1>2 DEF ScanInv
<1>10. \A row \in scan.read :
          \/ db[row.id] = None
          \/ /\ db[row.id].owner = Owner(server, request)
             /\ db[row.id].tenant = request.tenant
  BY <1>1, <1>2 DEF ScanInv
<1>11. \A row \in scan'.read : row.id \notin scan'.left
  BY <1>5, <1>6, <1>8
<1>12. \A a, b \in scan'.read : a.id = b.id => a = b
  BY <1>3, <1>5, <1>6, <1>8, <1>9
<1>13. \A row \in scan'.read :
          \/ db[row.id] = None
          \/ /\ db[row.id].owner = Owner(server, request)
             /\ db[row.id].tenant = request.tenant
  BY <1>5, <1>6, <1>10
<1>14. /\ scan'.left \subseteq TaskIds
       /\ scan'.read \subseteq [id : TaskIds, key : Nat]
  BY <1>5, <1>6, <1>7
<1>15. request' = request /\ Owner(server, request)' = Owner(server, request)
       /\ Authenticated' = Authenticated
  BY <1>1 DEF request, Owner, Authenticated
<1>16. ScanInv'
  BY <1>1, <1>7, <1>11, <1>12, <1>13, <1>14, <1>15 DEF ScanInv
<1>17. TableInv'
  BY <1>1, <1>2 DEF TableInv
<1>18. QED
  BY <1>1, <1>16, <1>17, StillSession

LEMMA ScanEndsSession ==
  ASSUME SessionInv, ScanEnds
  PROVE  SessionInv'
<1> DEFINE page == Paging!PageOf("dynamodb", "tasks", scan.read, request.token, request.size)
           ids == {page.rows[i].id : i \in DOMAIN page.rows}
<1>1. /\ client.phase = "scanning" /\ Answer("none", ids, page)
      /\ UNCHANGED <<builder, server, db, now>>
  BY DEF ScanEnds
<1>2. TableInv
  BY DEF SessionInv
<1>3. /\ Authenticated
      /\ scan.read \subseteq [id : TaskIds, key : Nat]
      /\ \A a, b \in scan.read : a.id = b.id => a = b
  BY <1>1 DEF SessionInv, ScanInv
<1>4. Orderable("tasks", scan.read)
  BY <1>3, TablesAssumption, OrderableIs
<1>5. IsCursor(request.token) /\ request.size \in Nat \ {0}
  BY <1>1, AskedIs DEF Asked
<1>6. IsPage("tasks", scan.read, request.token, page)
  BY <1>4, <1>5, PageIs
<1> HIDE DEF page
<1>7. IsCursor(page.next)
  BY <1>4, <1>6, NextIs
<1> HIDE DEF ids
<1>8. TableInv'
  BY <1>1, <1>2 DEF TableInv
<1>9. QED
  BY <1>1, <1>3, <1>7, <1>8, ServedSession

LEMMA TokenIs ==
  ASSUME NEW r, IsRequest(r), NEW token
  PROVE  /\ IsRequest([r EXCEPT !.token = token])
         /\ [r EXCEPT !.token = token].token = token
         /\ [r EXCEPT !.token = token].task = r.task
         /\ [r EXCEPT !.token = token].config = r.config
         /\ [r EXCEPT !.token = token].op = r.op
<1> DEFINE q == [r EXCEPT !.token = token]
<1>1. r = [op |-> r.op,     binding |-> r.binding, task  |-> r.task,
           config |-> r.config, tenant  |-> r.tenant,  twist |-> r.twist,
           cred   |-> r.cred,   size    |-> r.size,    token |-> r.token]
  BY DEF IsRequest
<1>2. q = [op |-> r.op,     binding |-> r.binding, task  |-> r.task,
           config |-> r.config, tenant  |-> r.tenant,  twist |-> r.twist,
           cred   |-> r.cred,   size    |-> r.size,    token |-> token]
  BY <1>1
<1> HIDE DEF q
<1>3. /\ q.op = r.op /\ q.binding = r.binding /\ q.task = r.task /\ q.config = r.config
      /\ q.tenant = r.tenant /\ q.twist = r.twist /\ q.cred = r.cred /\ q.size = r.size
      /\ q.token = token
  BY <1>2
<1>4. IsRequest(q)
  BY <1>2, <1>3 DEF IsRequest
<1>5. QED
  BY <1>3, <1>4 DEF q

LEMMA ReceiveSession ==
  ASSUME SessionInv, Receive
  PROVE  SessionInv'
<1> DEFINE heard == Decode(request.binding, client.answer.wire)
           page == client.answer.page
           more == ~heard.failed /\ page.next # None
           phase == CASE more -> "sent"
                      [] ~more /\ client.plan = "probe" -> "done"
                      [] OTHER -> IF heard.failed THEN "done" ELSE "walked"
           token == IF more THEN page.next ELSE request.token
           next == [request EXCEPT !.token = token]
<1>1. ServerInv /\ ClientInv /\ TableInv /\ AnswerInv
  BY DEF SessionInv
<1>2. /\ client.phase = "answered" /\ UNCHANGED <<builder, server, db, now>>
      /\ client' = [client EXCEPT !.heard = heard, !.phase = phase,
                                  !.request.token = IF more THEN page.next ELSE @,
                                  !.answer = None]
  BY DEF Receive
<1>3. IsRequest(request) /\ IsCursor(request.token) /\ IsCursor(page.next)
  BY <1>1, <1>2 DEF ClientInv, AnswerInv, Asked
<1>4. phase \in {"sent", "done", "walked"}
  OBVIOUS
<1>5. IsCursor(token)
  BY <1>3
<1>6. client' = [client EXCEPT !.heard = heard, !.phase = phase,
                               !.request = next, !.answer = None]
  BY <1>1, <1>2 DEF ClientInv, request
<1> HIDE DEF heard, page, more, phase, token
<1>7. /\ IsRequest(next) /\ next.token = token /\ next.task = request.task
      /\ next.config = request.config /\ next.op = request.op
  BY <1>3, TokenIs
<1> HIDE DEF next
<1>8. /\ client'.phase = phase /\ client'.card = client.card /\ client'.request = next
      /\ client' = [phase   |-> client'.phase,   plan   |-> client'.plan,
                    card    |-> client'.card,    request |-> client'.request,
                    answer  |-> client'.answer,  heard  |-> client'.heard]
  BY <1>1, <1>6 DEF ClientInv
<1>9. ServerInv'
  BY <1>1, <1>2 DEF ServerInv, Served
<1>10. AgentCard(server)' = AgentCard(server)
  BY <1>2 DEF AgentCard, Augment
<1>11. ClientInv'
  BY <1>1, <1>2, <1>4, <1>5, <1>7, <1>8, <1>10 DEF ClientInv, Served, Asked, request
<1>12. TableInv'
  BY <1>1, <1>2 DEF TableInv
<1>13. ScanInv' /\ AnswerInv'
  BY <1>4, <1>8 DEF ScanInv, AnswerInv
<1>14. QED
  BY <1>9, <1>11, <1>12, <1>13 DEF SessionInv

\* This row is nobody's, or is as much the caller's as it was.
Keeps(old, new) ==
  \/ new = None
  \/ new.owner = Owner(server, request) /\ new.tenant = request.tenant
  \/ old # None /\ new.owner = old.owner /\ new.tenant = old.tenant

\* Another client writes one row: it changes nothing of whose the rows are.
LEMMA WrittenSession ==
  ASSUME SessionInv, UNCHANGED <<builder, server, client, scan>>, now' \in Nat,
         NEW t \in TaskIds, NEW row, row = None \/ IsRow(row), Keeps(db[t], row),
         db' = [db EXCEPT ![t] = row]
  PROVE  SessionInv'
<1>1. TableInv /\ ScanInv
  BY DEF SessionInv
<1>2. /\ TableInv' /\ db'[t] = row
      /\ \A u \in TaskIds : u # t => db'[u] = db[u]
  <2>1. IsTable(db)
    BY <1>1 DEF TableInv
  <2>2. IsTable([db EXCEPT ![t] = row])
    BY <2>1, WriteIs, Zenon
  <2>3. TableInv'
    BY <2>2 DEF TableInv
  <2>4. db = [u \in TaskIds |-> db[u]]
    BY <2>1 DEF IsTable
  <2>5. QED
    BY <2>3, <2>4
<1>3. request' = request /\ Owner(server, request)' = Owner(server, request)
      /\ Authenticated' = Authenticated
  BY DEF request, Owner, Authenticated
<1>4. ScanInv'
  <2>1. CASE client.phase # "scanning"
    BY <2>1 DEF ScanInv
  <2>2. CASE client.phase = "scanning"
    <3>1. /\ Authenticated /\ request.op = "ListTasks"
          /\ scan.left \subseteq TaskIds
          /\ scan.read \subseteq [id : TaskIds, key : Nat]
      BY <1>1, <2>2 DEF ScanInv
    <3>2. \A r \in scan.read : r.id \notin scan.left
      BY <1>1, <2>2 DEF ScanInv
    <3>3. \A a, b \in scan.read : a.id = b.id => a = b
      BY <1>1, <2>2 DEF ScanInv
    <3>4. \A r \in scan.read :
              \/ db[r.id] = None
              \/ /\ db[r.id].owner = Owner(server, request)
                 /\ db[r.id].tenant = request.tenant
      BY <1>1, <2>2 DEF ScanInv
    <3>5. ASSUME NEW r \in scan.read
          PROVE  \/ db'[r.id] = None
                 \/ /\ db'[r.id].owner = Owner(server, request)
                    /\ db'[r.id].tenant = request.tenant
      <4>1. CASE r.id = t
        BY <1>2, <3>4, <4>1 DEF Keeps
      <4>2. CASE r.id # t
        BY <1>2, <3>1, <3>4, <4>2
      <4>3. QED
        BY <4>1, <4>2
    <3>6. QED
      BY <1>3, <3>1, <3>2, <3>3, <3>5 DEF ScanInv
  <2>3. QED
    BY <2>1, <2>2
<1>5. QED
  BY <1>2, <1>4, StillSession

LEMMA OthersSession ==
  ASSUME SessionInv, NEW t \in TaskIds, Others(t)
  PROVE  SessionInv'
<1>1. TableInv
  BY DEF SessionInv
<1>2. db[t] # None => IsRow(db[t])
  BY <1>1, RowOf DEF TableInv
<1>3. db = [u \in TaskIds |-> db[u]]
  BY <1>1 DEF TableInv, IsTable
<1>4. CASE StatusWritten(t)
  <2> DEFINE old == db[t]
             row == [old EXCEPT !.key = now']
  <2>1. /\ Stamped /\ db[t] # None /\ UNCHANGED <<builder, server, client, scan>>
        /\ db' = [db EXCEPT ![t].key = now']
    BY <1>4 DEF StatusWritten, Disturbs
  <2>2. now' \in Nat
    BY <1>1, <2>1, StampedIs
  <2>3. db' = [db EXCEPT ![t] = row]
    BY <1>3, <2>1
  <2>4. IsRow(row) /\ Keeps(db[t], row)
    BY <1>2, <2>1, <2>2 DEF IsRow, Keeps
  <2> HIDE DEF row
  <2>5. QED
    BY <2>1, <2>2, <2>3, <2>4, WrittenSession
<1>5. CASE TaskCreated(t)
  <2> DEFINE row == [tenant |-> request.tenant, state |-> "WORKING",
                     owner |-> Owner(server, request), key |-> now', configs |-> {}]
  <2>1. /\ Stamped /\ UNCHANGED <<builder, server, client, scan>>
        /\ db' = [db EXCEPT ![t] = row]
    BY <1>5 DEF TaskCreated, Disturbs
  <2>2. now' \in Nat
    BY <1>1, <2>1, StampedIs
  <2>3. IsRow(row) /\ Keeps(db[t], row)
    BY <2>2 DEF IsRow, Keeps
  <2> HIDE DEF row
  <2>4. QED
    BY <2>1, <2>2, <2>3, WrittenSession
<1>6. CASE TaskRemoved(t)
  <2>1. /\ now' = now /\ UNCHANGED <<builder, server, client, scan>>
        /\ db' = [db EXCEPT ![t] = None]
    BY <1>6 DEF TaskRemoved, Disturbs
  <2>2. Keeps(db[t], None)
    BY DEF Keeps
  <2>3. now' \in Nat
    BY <1>1, <2>1 DEF TableInv
  <2>4. QED
    BY <2>1, <2>2, <2>3, WrittenSession
<1>7. CASE \E c \in ConfigIds : ConfigWritten(t, c)
  <2>1. PICK c \in ConfigIds : ConfigWritten(t, c)
    BY <1>7
  <2> DEFINE old == db[t]
             configs == IF c \in old.configs THEN old.configs \ {c} ELSE old.configs \cup {c}
             row == [old EXCEPT !.configs = configs]
  <2>2. /\ now' = now /\ db[t] # None /\ UNCHANGED <<builder, server, client, scan>>
        /\ db' = [db EXCEPT ![t].configs = IF c \in @ THEN @ \ {c} ELSE @ \cup {c}]
    BY <2>1 DEF ConfigWritten, Disturbs
  <2>3. db' = [db EXCEPT ![t] = row]
    BY <1>3, <2>2
  <2>4. configs \subseteq ConfigIds
    BY <1>2, <2>2 DEF IsRow
  <2> HIDE DEF configs
  <2>5. IsRow(row) /\ Keeps(db[t], row)
    BY <1>2, <2>2, <2>4 DEF IsRow, Keeps
  <2> HIDE DEF row
  <2>6. now' \in Nat
    BY <1>1, <2>2 DEF TableInv
  <2>7. QED
    BY <2>2, <2>3, <2>5, <2>6, WrittenSession
<1>8. QED
  BY <1>4, <1>5, <1>6, <1>7 DEF Others

LEMMA StutterSession ==
  ASSUME SessionInv, UNCHANGED vars
  PROVE  SessionInv'
<1>1. UNCHANGED <<builder, server, client, db, now, scan>>
  BY DEF vars
<1>2. TableInv'
  BY <1>1 DEF SessionInv, TableInv
<1>3. request' = request /\ Owner(server, request)' = Owner(server, request)
      /\ Authenticated' = Authenticated
  BY <1>1 DEF request, Owner, Authenticated
<1>4. ScanInv'
  BY <1>1, <1>3 DEF SessionInv, ScanInv
<1>5. QED
  BY <1>1, <1>2, <1>4, StillSession

\* The session is in order at every moment: the server is one the build
\* accepts, the client holds its card, what is asked is a request, what is
\* stored is a table, and only who passes the stack is served.
THEOREM SessionInvAlways == Spec => []SessionInv
<1>1. SessionInv /\ [Next]_vars => SessionInv'
  BY StutterSession, BuildServerSession, DiscoverSession, SendProbeSession,
     StartWalkSession, RefusedSession, ReadSession, TurnSession, CancelSession,
     WriteConfigSession, ListSession, ScanStartsSession, ScanReadsSession,
     ScanEndsSession, ReceiveSession, OthersSession
  DEF Next, Server
<1>2. QED
  BY <1>1, InitSession, PTL DEF Spec

-------------------------------------------------------------------------------
(* Only the caller's own tasks *)

\* A row of the caller's, in the tenant the request names, or none.
OwnRow(row) ==
  row = None \/ (row.owner \in Principals(request.cred) /\ row.tenant = request.tenant)

\* A step that answers shows and changes one row of the caller's at most.
LEMMA OwnStep ==
  ASSUME NEW t \in TaskIds \cup {None}, NEW refusal, NEW page,
         NEW shown, shown \subseteq {t}, Answer(refusal, shown, page), ClientInv,
         \A u \in TaskIds : u # t => db'[u] = db[u],
         t \in TaskIds => OwnRow(db[t]) /\ OwnRow(db'[t])
  PROVE  OwnRowsOnly
<1>1. client'.answer.shown = shown
  BY DEF Answer, ClientInv
<1>2. ASSUME NEW u \in TaskIds, u \in client'.answer.shown \/ db'[u] # db[u]
      PROVE  \A row \in {db[u], db'[u]} \ {None} :
                    /\ row.owner \in Principals(request.cred)
                    /\ row.tenant = request.tenant
  <2>1. u = t
    BY <1>1, <1>2
  <2>2. QED
    BY <2>1 DEF OwnRow
<1>3. QED
  BY <1>2 DEF OwnRowsOnly

\* A listing shows rows of the caller's and changes none.
LEMMA OwnListing ==
  ASSUME NEW refusal, NEW page, NEW shown, Answer(refusal, shown, page), ClientInv,
         db' = db, \A u \in TaskIds : u \in shown => OwnRow(db[u])
  PROVE  OwnRowsOnly
<1>1. client'.answer.shown = shown
  BY DEF Answer, ClientInv
<1>2. ASSUME NEW u \in TaskIds, u \in client'.answer.shown \/ db'[u] # db[u]
      PROVE  \A row \in {db[u], db'[u]} \ {None} :
                    /\ row.owner \in Principals(request.cred)
                    /\ row.tenant = request.tenant
  BY <1>1, <1>2 DEF OwnRow
<1>3. QED
  BY <1>2 DEF OwnRowsOnly

LEMMA SeenIsOwn ==
  ASSUME SessionInv, Reached("none"), request.task # None,
         request.op \in OnTask \cup Sends
  PROVE  request.task \in TaskIds /\ db[request.task] # None /\ OwnRow(db[request.task])
<1>1. Owner(server, request) \in Principals(request.cred)
  BY ReachedIs, OwnerIs DEF Reached, Asked
<1>2. QED
  BY <1>1, SeenIs DEF OwnRow

LEMMA RefusedOwn ==
  ASSUME SessionInv, Refused
  PROVE  OwnRowsOnly
BY OwnListing DEF Refused, SessionInv

LEMMA ReadOwn ==
  ASSUME SessionInv, Read
  PROVE  OwnRowsOnly
<1>1. /\ Reached("none") /\ Answer("none", {request.task} \ {None}, NoPage) /\ db' = db
      /\ request.op \in {"GetTask", "SubscribeToTask", "GetConfig", "GetExtendedAgentCard"}
  BY DEF Read
<1>2. ClientInv
  BY DEF SessionInv
<1>3. CASE request.task = None
  <2>1. {request.task} \ {None} = {}
    BY <1>3
  <2>2. QED
    BY <1>1, <1>2, <2>1, OwnListing
<1>4. CASE request.task # None
  <2>1. request.op \in OnTask
    BY <1>1, <1>2, <1>4 DEF ClientInv, Reached, Asked, IsRequest, OnTask, Configs
  <2>2. OwnRow(db[request.task])
    BY <1>1, <1>4, <2>1, SeenIsOwn
  <2>3. \A u \in TaskIds : u \in {request.task} \ {None} => OwnRow(db[u])
    BY <2>2
  <2>4. QED
    BY <1>1, <1>2, <2>3, OwnListing
<1>5. QED
  BY <1>3, <1>4

LEMMA TurnOwn ==
  ASSUME SessionInv, Turn
  PROVE  OwnRowsOnly
<1>1. Reached("none") /\ request.op \in Sends
  BY DEF Turn
<1>2. TableInv /\ ClientInv
  BY DEF SessionInv
<1>3. PICK t \in TaskIds, state \in Outcomes :
        /\ IF request.task = None THEN db[t] = None ELSE t = request.task
        /\ db' = [db EXCEPT ![t] =
             [tenant  |-> request.tenant,
              owner   |-> Owner(server, request),
              state   |-> state,
              key     |-> now',
              configs |-> (IF db[t] = None THEN {} ELSE db[t].configs)
                            \cup (IF request.twist = "inline"
                                  THEN {request.config} ELSE {})]]
        /\ Answer("none", {t}, NoPage)
  BY DEF Turn
<1> DEFINE configs == (IF db[t] = None THEN {} ELSE db[t].configs)
                            \cup (IF request.twist = "inline"
                                  THEN {request.config} ELSE {})
           row == [tenant  |-> request.tenant, owner |-> Owner(server, request),
                   state   |-> state, key |-> now', configs |-> configs]
<1>4. db' = [db EXCEPT ![t] = row]
  BY <1>3
<1>5. Owner(server, request) \in Principals(request.cred)
  BY <1>1, ReachedIs, OwnerIs DEF Reached, Asked
<1>6. OwnRow(row)
  BY <1>5 DEF OwnRow
<1> HIDE DEF row
<1>7. db = [u \in TaskIds |-> db[u]]
  BY <1>2 DEF TableInv, IsTable
<1>8. db'[t] = row /\ \A u \in TaskIds : u # t => db'[u] = db[u]
  BY <1>4, <1>7
<1>9. OwnRow(db[t])
  <2>1. CASE request.task = None
    BY <1>3, <2>1 DEF OwnRow
  <2>2. CASE request.task # None
    BY <1>1, <1>3, <2>2, SeenIsOwn
  <2>3. QED
    BY <2>1, <2>2
<1>10. QED
  BY <1>2, <1>3, <1>6, <1>8, <1>9, OwnStep

LEMMA CancelOwn ==
  ASSUME SessionInv, Cancel
  PROVE  OwnRowsOnly
<1>1. /\ Reached("none") /\ request.op = "CancelTask"
      /\ Answer("none", {request.task}, NoPage)
  BY DEF Cancel
<1>2. TableInv /\ ClientInv
  BY DEF SessionInv
<1>3. PICK state \in TERMINAL_STATES :
        db' = [db EXCEPT ![request.task].state = state, ![request.task].key = now']
  BY DEF Cancel
<1> DEFINE old == db[request.task]
           mid == [old EXCEPT !.state = state]
           row == [mid EXCEPT !.key = now']
<1>4. request.task # None /\ request.op \in OnTask
  BY <1>1, <1>2 DEF ClientInv, Reached, Asked, IsRequest, OnTask
<1>5. request.task \in TaskIds /\ OwnRow(old) /\ old # None
  BY <1>1, <1>4, SeenIsOwn
<1>6. db = [u \in TaskIds |-> db[u]]
  BY <1>2 DEF TableInv, IsTable
<1>7. db'[request.task] = row /\ \A u \in TaskIds : u # request.task => db'[u] = db[u]
  BY <1>3, <1>5, <1>6
<1>8. IsRow(old)
  BY <1>2, <1>5, RowOf DEF TableInv
<1>9. row.owner = old.owner /\ row.tenant = old.tenant
  <2>1. mid.owner = old.owner /\ mid.tenant = old.tenant /\ IsRow(mid)
    BY <1>8 DEF IsRow
  <2> HIDE DEF mid
  <2>2. QED
    BY <2>1 DEF IsRow
<1> HIDE DEF row
<1>10. OwnRow(row)
  BY <1>5, <1>9 DEF OwnRow
<1>11. QED
  BY <1>1, <1>2, <1>5, <1>7, <1>10, OwnStep

LEMMA WriteConfigOwn ==
  ASSUME SessionInv, WriteConfig
  PROVE  OwnRowsOnly
<1> DEFINE old == db[request.task]
           configs == IF request.op = "CreateConfig" THEN old.configs \cup {request.config}
                      ELSE old.configs \ {request.config}
           row == [old EXCEPT !.configs = configs]
<1>1. /\ Reached("none") /\ request.op \in {"CreateConfig", "DeleteConfig"}
      /\ Answer("none", {request.task}, NoPage)
  BY DEF WriteConfig
<1>2. TableInv /\ ClientInv
  BY DEF SessionInv
<1>3. request.task # None /\ request.op \in OnTask
  BY <1>1, <1>2 DEF ClientInv, Reached, Asked, IsRequest, OnTask, Configs
<1>4. request.task \in TaskIds /\ OwnRow(old) /\ old # None
  BY <1>1, <1>3, SeenIsOwn
<1>5. db = [u \in TaskIds |-> db[u]]
  BY <1>2 DEF TableInv, IsTable
<1>6. db'[request.task] = row /\ \A u \in TaskIds : u # request.task => db'[u] = db[u]
  BY <1>4, <1>5 DEF WriteConfig
<1>7. IsRow(old)
  BY <1>2, <1>4, RowOf DEF TableInv
<1> HIDE DEF configs
<1>8. row.owner = old.owner /\ row.tenant = old.tenant
  BY <1>7 DEF IsRow
<1> HIDE DEF row
<1>9. OwnRow(row)
  BY <1>4, <1>8 DEF OwnRow
<1>10. QED
  BY <1>1, <1>2, <1>4, <1>6, <1>9, OwnStep

LEMMA ListOwn ==
  ASSUME SessionInv, List
  PROVE  OwnRowsOnly
<1> DEFINE page == Paging!PageOf(server.backend, Kind(request), Listed(db),
                                 request.token, request.size)
           ids == {page.rows[i].id : i \in DOMAIN page.rows}
           shown == IF request.op = "ListTasks" THEN ids ELSE {request.task}
<1>1. /\ Reached("none") /\ client.phase \in Asked
      /\ request.op \in {"ListConfigs", "ListTasks"} /\ db' = db
      /\ Answer("none", shown, page)
  BY DEF List, Reached, Asked
<1>2. TableInv /\ ClientInv
  BY DEF SessionInv
<1>3. CASE request.op = "ListConfigs"
  <2>1. request.task # None /\ request.op \in OnTask
    BY <1>1, <1>2, <1>3 DEF ClientInv, IsRequest, OnTask, Configs
  <2>2. OwnRow(db[request.task])
    BY <1>1, <2>1, SeenIsOwn
  <2>3. shown = {request.task}
    BY <1>3
  <2> HIDE DEF shown, page
  <2>4. QED
    BY <1>1, <1>2, <2>2, <2>3, OwnListing
<1>4. CASE request.op = "ListTasks"
  <2>1. Listed(db) = TaskRows(db) /\ shown = ids
    BY <1>4 DEF Listed
  <2>2. Orderable(Kind(request), TaskRows(db))
    BY <1>2, <1>4, <2>1, ListedIs DEF TableInv
  <2>3. IsCursor(request.token) /\ request.size \in Nat \ {0}
    BY <1>1, AskedIs
  <2>4. IsPage(Kind(request), TaskRows(db), request.token, page)
    BY <2>1, <2>2, <2>3, PageIs
  <2>5. Owner(server, request) \in Principals(request.cred)
    BY <1>1, ReachedIs, OwnerIs
  <2>6. \A row \in TaskRows(db) : /\ db[row.id].owner = Owner(server, request)
                                  /\ db[row.id].tenant = request.tenant
    BY <1>2, TaskRowsAre DEF TableInv
  <2> HIDE DEF page
  <2>7. \A i \in DOMAIN page.rows : page.rows[i] \in TaskRows(db)
    BY <2>4 DEF IsPage
  <2>8. \A u \in TaskIds : u \in ids => OwnRow(db[u])
    BY <2>5, <2>6, <2>7 DEF OwnRow
  <2> HIDE DEF shown, ids
  <2>9. QED
    BY <1>1, <1>2, <2>1, <2>8, OwnListing
<1>5. QED
  BY <1>1, <1>3, <1>4

LEMMA ScanEndsOwn ==
  ASSUME SessionInv, ScanEnds
  PROVE  OwnRowsOnly
<1> DEFINE page == Paging!PageOf("dynamodb", "tasks", scan.read, request.token, request.size)
           ids == {page.rows[i].id : i \in DOMAIN page.rows}
<1>1. client.phase = "scanning" /\ Answer("none", ids, page) /\ db' = db
  BY DEF ScanEnds
<1>2. TableInv /\ ClientInv
  BY DEF SessionInv
<1>3. /\ Authenticated
      /\ scan.read \subseteq [id : TaskIds, key : Nat]
      /\ \A a, b \in scan.read : a.id = b.id => a = b
  BY <1>1 DEF SessionInv, ScanInv
<1>4. Orderable("tasks", scan.read)
  BY <1>3, TablesAssumption, OrderableIs
<1>5. IsCursor(request.token) /\ request.size \in Nat \ {0}
  BY <1>1, AskedIs DEF Asked
<1>6. IsPage("tasks", scan.read, request.token, page)
  BY <1>4, <1>5, PageIs
<1>7. Owner(server, request) \in Principals(request.cred)
  BY <1>1, <1>3, OwnerIs DEF Asked
<1>8. \A row \in scan.read :
          \/ db[row.id] = None
          \/ /\ db[row.id].owner = Owner(server, request)
             /\ db[row.id].tenant = request.tenant
  BY <1>1 DEF SessionInv, ScanInv
<1> HIDE DEF page
<1>9. \A i \in DOMAIN page.rows : page.rows[i] \in scan.read
  BY <1>6 DEF IsPage
<1>10. \A u \in TaskIds : u \in ids => OwnRow(db[u])
  BY <1>7, <1>8, <1>9 DEF OwnRow
<1> HIDE DEF ids
<1>11. QED
  BY <1>1, <1>2, <1>10, OwnListing

\* Whatever a client asks on whichever binding, with whatever credentials, it
\* is shown and it changes only tasks of its own, in the tenant it names.
THEOREM OnlyOwnAlways == Spec => OnlyOwn
<1>1. SessionInv /\ [Next]_vars => [OwnRowsOnly]_vars
  <2> SUFFICES ASSUME SessionInv, Next
               PROVE  OwnRowsOnly
    OBVIOUS
  <2>1. ClientInv
    BY DEF SessionInv
  <2>2. CASE BuildServer \/ Discover \/ SendProbe \/ (\E r \in Walks : StartWalk(r)) \/ Receive
    <3>1. client.phase \notin {"sent", "scanning"}
      BY <2>2 DEF BuildServer, Discover, SendProbe, StartWalk, Receive
    <3>2. QED
      BY <3>1 DEF OwnRowsOnly
  <2>3. CASE ScanStarts
    <3>1. client'.phase = "scanning"
      BY <2>1, <2>3 DEF ScanStarts, ClientInv
    <3>2. QED
      BY <3>1 DEF OwnRowsOnly
  <2>4. CASE ScanReads \/ \E t \in TaskIds : Others(t)
    <3>1. client' = client
      BY <2>4 DEF ScanReads, Others, StatusWritten, TaskCreated, TaskRemoved,
                  ConfigWritten, Disturbs
    <3>2. QED
      BY <3>1 DEF OwnRowsOnly
  <2>5. QED
    BY <2>2, <2>3, <2>4, RefusedOwn, ReadOwn, TurnOwn, CancelOwn, WriteConfigOwn,
       ListOwn, ScanEndsOwn DEF Next, Server
<1>2. QED
  BY <1>1, SessionInvAlways, PTL DEF OnlyOwn, Spec

-------------------------------------------------------------------------------
(* The bindings agree *)

\* The order in which a binding checks changes nothing of what it decides.
LEMMA AlikeIs ==
  ASSUME NEW b \in Bindings, NEW c \in Bindings, NEW d, NEW s, NEW r,
         IsStack(s.stack), IsCredential(r.cred), r.op \in Operations,
         r.twist \notin BindingTwists
  PROVE  Refusal(b, d, s, r) = Refusal(c, d, s, r)
BY RefusalIs, SMT

\* Every binding decides a request alike, and whoever sent it learns the same.
THEOREM SameEverywhereAlways == Spec => []SameEverywhere
<1>1. SessionInv => SameEverywhere
  <2> SUFFICES ASSUME SessionInv, client.phase = "sent", request.twist \notin BindingTwists,
                      NEW b \in Bindings, NEW c \in Bindings
               PROVE  Decode(b, Encode(b, Refusal(b, db, server, request)))
                        = Decode(c, Encode(c, Refusal(c, db, server, request)))
    BY DEF SameEverywhere
  <2>1. /\ IsStack(server.stack) /\ IsCredential(request.cred)
        /\ request.op \in Operations
    BY AskedIs DEF Asked
  <2>2. /\ Refusal(b, db, server, request) \in Kinds
        /\ Refusal(c, db, server, request) \in Kinds
    BY <2>1, KindsIs, Zenon
  <2>3. Refusal(b, db, server, request) = Refusal(c, db, server, request)
    BY <2>1, AlikeIs, SMT
  <2>4. /\ Decode(b, Encode(b, Refusal(b, db, server, request)))
             = Heard(Refusal(b, db, server, request))
        /\ Decode(c, Encode(c, Refusal(c, db, server, request)))
             = Heard(Refusal(c, db, server, request))
    BY <2>2, HeardIs, Zenon
  <2>5. QED
    BY <2>3, <2>4
<1>2. QED
  BY <1>1, SessionInvAlways, PTL

-------------------------------------------------------------------------------
(* The card *)

BuildKinds == {"INTERNAL", "INVALID_REQUEST"}

\* A long-lived server is built only when middleware agree on every scheme and
\* both cards declare every scheme they name.
LEMMA BuildIs ==
  ASSUME NEW b, ServerRefusal(b) = "none"
  PROVE  /\ ~Collide(b.stack)
         /\ ~Undeclared(Augment(b.card, Merge(b.stack)))
         /\ b.extended # None => ~Undeclared(Augment(b.extended, Merge(b.stack)))
<1> DEFINE c1 == Refuse("INTERNAL", ~b.executor)
           c2 == Refuse("INTERNAL", \E t \in Timers : b.timer[t] = "zero")
           c3 == Refuse("INTERNAL", (\E t \in Timers : b.timer[t] = "set") /\ ~b.runtime)
           c4 == Refuse("INTERNAL", Mismatched(b))
           c5 == Refuse("INTERNAL", HalfWired(b))
           d1 == Refuse("INTERNAL", b.delivery # None /\ b.delivery # BackendOf(b, "task"))
           d2 == Refuse("INTERNAL", b.delivery # None
                                    /\ b.claim_expiry <= b.backoff_cap * b.max_attempts)
           e1 == Refuse("INTERNAL", Collide(b.stack))
           e2 == Refuse("INVALID_REQUEST", Undeclared(Augment(b.card, Merge(b.stack))))
           e3 == Refuse("INVALID_REQUEST",
                        IF b.extended = None THEN FALSE
                        ELSE Undeclared(Augment(b.extended, Merge(b.stack))))
           first == <<c1, c2, c3, c4, c5>>
           delivery == <<d1, d2>>
           last == <<e1, e2, e3>>
<1>1. ServerRefusal(b) = FirstRefusal((first \o delivery) \o last)
  BY DEF ServerRefusal, DeliveryChecks
<1>2. /\ c1 \in Check(BuildKinds) /\ c2 \in Check(BuildKinds) /\ c3 \in Check(BuildKinds)
      /\ c4 \in Check(BuildKinds) /\ c5 \in Check(BuildKinds)
  BY DEF BuildKinds, Refuse, Check, Mismatched, HalfWired
<1>3. d1 \in Check(BuildKinds) /\ d2 \in Check(BuildKinds)
  BY DEF BuildKinds, Refuse, Check
<1>4. e1 \in Check(BuildKinds) /\ e2 \in Check(BuildKinds) /\ e3 \in Check(BuildKinds)
  BY DEF BuildKinds, Refuse, Check, Collide, Undeclared
<1>5. e1.fails = Collide(b.stack)
      /\ e2.fails = Undeclared(Augment(b.card, Merge(b.stack)))
      /\ e3.fails = IF b.extended = None THEN FALSE
                    ELSE Undeclared(Augment(b.extended, Merge(b.stack)))
  BY DEF Refuse
<1> HIDE DEF c1, c2, c3, c4, c5, d1, d2, e1, e2, e3
<1>6. first \in Path(BuildKinds)
  BY <1>2 DEF Path
<1>7. delivery \in Path(BuildKinds) /\ last \in Path(BuildKinds)
  BY <1>3, <1>4, TwoPath, ThreePath
<1>8. 1 \in DOMAIN last /\ 2 \in DOMAIN last /\ 3 \in DOMAIN last
      /\ last[1] = e1 /\ last[2] = e2 /\ last[3] = e3
  OBVIOUS
<1> HIDE DEF first, delivery, last
<1>9. first \o delivery \in Path(BuildKinds)
  BY <1>6, <1>7, LongPath
<1>10. "none" \notin BuildKinds
  BY DEF BuildKinds
<1>11. IsPath(first \o delivery) /\ IsPath(last)
  BY <1>7, <1>9, <1>10, PathIs
<1>12. After(FirstRefusal(first \o delivery), FirstRefusal(last)) = "none"
  BY <1>1, <1>11, PathsJoin, Zenon
<1>13. FirstRefusal(last) = "none"
  BY <1>12 DEF After
<1>14. \A m \in DOMAIN last : ~last[m].fails
  BY <1>11, <1>13, NoneFails, Zenon
<1>15. QED
  BY <1>5, <1>8, <1>14

\* The card in the client's hands, of a long-lived server.
LEMMA CardIs ==
  ASSUME ServerInv, server # None, builder.adapter = "server"
  PROVE  /\ server = Built(builder)
         /\ AgentCard(server) = Augment(builder.card, Merge(builder.stack))
         /\ server.extended = builder.extended
         /\ ExtendedCard(server) = Augment(builder.extended, Merge(builder.stack))
         /\ ServerRefusal(builder) = "none"
<1>1. server = Built(builder) /\ BuildRefusal(builder) = "none"
  BY DEF ServerInv
<1>2. /\ server.card = builder.card /\ server.extended = builder.extended
      /\ server.merged = Merge(builder.stack)
  BY <1>1 DEF Built
<1>3. QED
  BY <1>1, <1>2 DEF AgentCard, ExtendedCard, BuildRefusal

\* Both cards define every scheme they name.
THEOREM PublishedRequirementsResolveAlways == Spec => []PublishedRequirementsResolve
<1>1. SessionInv => PublishedRequirementsResolve
  <2> SUFFICES ASSUME ServerInv, server # None, builder.adapter = "server"
               PROVE  PublishedRequirementsResolve
    BY DEF SessionInv, PublishedRequirementsResolve
  <2>1. ~Undeclared(AgentCard(server))
    BY CardIs, BuildIs
  <2>2. server.extended # None => ~Undeclared(ExtendedCard(server))
    BY CardIs, BuildIs
  <2>3. QED
    BY <2>1, <2>2 DEF PublishedRequirementsResolve, Undeclared
<1>2. QED
  BY <1>1, SessionInvAlways, PTL

\* What one scheme of an alternative asks of the credentials.
Meets(cred, card, name, scopes) ==
  IF name = "apiKey" THEN cred.key = "good" /\ cred.header = card.schemes[name]
  ELSE cred.token = "good" /\ scopes \subseteq cred.scopes

\* Joined requirements ask what each of them asks.
LEMMA JoinIs ==
  ASSUME NEW picked, NEW cred, NEW card
  PROVE  Satisfies(cred, card, Join(picked))
           <=> \A i \in DOMAIN picked : Satisfies(cred, card, picked[i])
<1> DEFINE names == UNION {DOMAIN picked[i] : i \in DOMAIN picked}
           With(name) == {j \in DOMAIN picked : name \in DOMAIN picked[j]}
           scopes(name) == UNION {picked[i][name] : i \in With(name)}
<1>1. DOMAIN Join(picked) = names /\ \A name \in names : Join(picked)[name] = scopes(name)
  BY DEF Join
<1>2. Satisfies(cred, card, Join(picked)) <=>
         \A name \in names : Meets(cred, card, name, scopes(name))
  BY <1>1 DEF Satisfies, Meets
<1>3. \A i \in DOMAIN picked : Satisfies(cred, card, picked[i]) <=>
         \A name \in DOMAIN picked[i] : Meets(cred, card, name, picked[i][name])
  BY DEF Satisfies, Meets
<1>4. \A name \in names : With(name) # {} /\ With(name) \subseteq DOMAIN picked
  OBVIOUS
<1>5. ASSUME NEW name \in names
      PROVE  Meets(cred, card, name, scopes(name)) <=>
               \A i \in With(name) : Meets(cred, card, name, picked[i][name])
  <2>1. scopes(name) \subseteq cred.scopes <=>
          \A i \in With(name) : picked[i][name] \subseteq cred.scopes
    OBVIOUS
  <2>2. With(name) # {}
    BY <1>4
  <2> HIDE DEF With, scopes
  <2>3. QED
    BY <2>1, <2>2 DEF Meets
<1>6. \A i \in DOMAIN picked : \A name :
         name \in DOMAIN picked[i] <=> name \in names /\ i \in With(name)
  OBVIOUS
<1> HIDE DEF scopes, names, With
<1>7. QED
  BY <1>2, <1>3, <1>4, <1>5, <1>6

\* The card defines a stack's scheme the way the stack's middleware read it.
LEMMA SchemeIs ==
  ASSUME NEW b, ~Collide(b.stack), OpenlyGuarded(b), IsCard(b.card),
         NEW scheme \in SchemesOf(b.stack)
  PROVE  Augment(b.card, Merge(b.stack)).schemes[scheme[1]] = scheme[2]
<1> DEFINE merged == Merge(b.stack)
           card == Augment(b.card, merged)
           names == {s[1] : s \in merged.schemes}
           def(name) == IF name \in DOMAIN b.card.schemes THEN b.card.schemes[name]
                        ELSE (CHOOSE s \in merged.schemes : s[1] = name)[2]
           it == CHOOSE s \in merged.schemes : s[1] = scheme[1]
<1>1. merged.schemes = SchemesOf(b.stack)
  BY DEF Merge
<1>2. card.schemes = [name \in DOMAIN b.card.schemes \cup names |-> def(name)]
  BY DEF Augment, IsCard
<1>3. scheme[1] \in names /\ scheme[1] \notin DOMAIN b.card.schemes
  BY <1>1 DEF OpenlyGuarded
<1>4. it \in merged.schemes /\ it[1] = scheme[1]
  BY <1>1
<1>5. it[2] = scheme[2]
  BY <1>1, <1>4 DEF Collide
<1>6. def(scheme[1]) = it[2]
  BY <1>3
<1> HIDE DEF it, merged, def
<1>7. card.schemes[scheme[1]] = scheme[2]
  BY <1>2, <1>3, <1>5, <1>6
<1>8. QED
  BY <1>7 DEF merged

\* What a middleware asks for is what the card says it asks for.
LEMMA LeafMeets ==
  ASSUME NEW b, ~Collide(b.stack), OpenlyGuarded(b), IsCard(b.card), IsStack(b.stack),
         NEW i \in DOMAIN b.stack, NEW leaf \in Range(b.stack[i]), NEW cred
  PROVE  /\ Contributes(leaf)
         /\ Admits(leaf, cred)
              <=> Satisfies(cred, Augment(b.card, Merge(b.stack)),
                            [name \in {leaf.kind} |-> leaf.scopes])
<1> DEFINE card == Augment(b.card, Merge(b.stack))
           req == [name \in {leaf.kind} |-> leaf.scopes]
           layer == b.stack[i]
<1>1. layer \in Range(b.stack) /\ IsLayer(layer)
  BY DEF IsStack, Range
<1>2. Contributes(leaf)
  BY <1>1 DEF OpenlyGuarded, ToSet, Range
<1>3. leaf = ApiKey(leaf.def) \/ leaf = Bearer(leaf.scopes)
  BY <1>1, <1>2 DEF IsLayer, Contributes, Authorizer
<1>4. DOMAIN req = {leaf.kind} /\ req[leaf.kind] = leaf.scopes
  OBVIOUS
<1> HIDE DEF req
<1>5. CASE leaf = ApiKey(leaf.def)
  <2>1. leaf.kind = "apiKey"
    BY <1>5 DEF ApiKey
  <2>2. <<leaf.kind, leaf.def>> \in Contribution(layer).schemes
    BY <1>2 DEF Contribution, ToSet, Range
  <2>3. <<leaf.kind, leaf.def>> \in SchemesOf(b.stack)
    BY <1>1, <2>2 DEF SchemesOf, ToSet, Range
  <2>4. card.schemes["apiKey"] = leaf.def
    BY <2>1, <2>3, SchemeIs
  <2> HIDE DEF card
  <2>5. Satisfies(cred, card, req) <=> cred.key = "good" /\ cred.header = leaf.def
    BY <1>4, <2>1, <2>4 DEF Satisfies
  <2>6. QED
    BY <1>2, <2>1, <2>5 DEF Admits, card, req
<1>6. CASE leaf = Bearer(leaf.scopes)
  <2>1. leaf.kind = "bearer"
    BY <1>6 DEF Bearer
  <2> HIDE DEF card
  <2>2. Satisfies(cred, card, req) <=> cred.token = "good" /\ leaf.scopes \subseteq cred.scopes
    BY <1>4, <2>1 DEF Satisfies
  <2>3. QED
    BY <1>2, <2>1, <2>2 DEF Admits, card, req
<1>7. QED
  BY <1>3, <1>5, <1>6

\* What a stack that publishes everything contributes to the card.
LEMMA MergeIs ==
  ASSUME NEW b, OpenlyGuarded(b), IsStack(b.stack)
  PROVE  \E offers :
            /\ DOMAIN offers = DOMAIN b.stack
            /\ \A i \in DOMAIN b.stack :
                  offers[i] = {[name \in {leaf.kind} |-> leaf.scopes] :
                                  leaf \in Range(b.stack[i])}
            /\ \A i \in DOMAIN b.stack : offers[i] # {}
            /\ Merge(b.stack).requirements =
                  IF DOMAIN b.stack = {} THEN {} ELSE Conjoin(offers)
<1> DEFINE stack == b.stack
           requires(i) == Contribution(stack[i]).requirements
           D == {j \in DOMAIN stack : requires(j) # {}}
           offers == [i \in D |-> requires(i)]
<1>1. Merge(stack).requirements = IF DOMAIN offers = {} THEN {} ELSE Conjoin(offers)
  BY DEF Merge
<1>2. ASSUME NEW i \in DOMAIN stack
      PROVE  /\ requires(i) = {[name \in {leaf.kind} |-> leaf.scopes] :
                                  leaf \in Range(stack[i])}
             /\ requires(i) # {}
  <2> DEFINE layer == stack[i]
             leaves == {leaf \in ToSet(layer) : Contributes(leaf)}
  <2>1. layer \in Range(stack) /\ IsLayer(layer)
    BY DEF IsStack, Range
  <2>2. leaves = Range(layer)
    BY <2>1 DEF OpenlyGuarded, ToSet, Range
  <2>3. requires(i) = {[name \in {leaf.kind} |-> leaf.scopes] : leaf \in leaves}
    BY DEF Contribution
  <2>4. Range(layer) # {}
    <3>1. layer \in Seq(Range(layer)) /\ layer # <<>>
      BY <2>1 DEF IsLayer
    <3> HIDE DEF layer
    <3>2. 1 \in DOMAIN layer
      BY <3>1
    <3>3. QED
      BY <3>2 DEF Range
  <2> HIDE DEF requires, layer, leaves
  <2>5. requires(i) = {[name \in {leaf.kind} |-> leaf.scopes] : leaf \in Range(layer)}
    BY <2>2, <2>3
  <2>6. requires(i) # {}
    <3>1. PICK leaf \in Range(layer) : TRUE
      BY <2>4
    <3>2. [name \in {leaf.kind} |-> leaf.scopes] \in requires(i)
      BY <2>5
    <3>3. QED
      BY <3>2
  <2>7. QED
    BY <2>5, <2>6 DEF layer
<1>3. D = DOMAIN stack
  BY <1>2
<1>4. DOMAIN offers = D /\ \A i \in D : offers[i] = requires(i)
  OBVIOUS
<1> HIDE DEF offers, requires, D
<1>5. QED
  BY <1>1, <1>2, <1>3, <1>4, Zenon

\* The card of a guarded server advertises what its stack lets pass.
LEMMA AdvertisedIs ==
  ASSUME NEW b, ~Collide(b.stack), OpenlyGuarded(b), IsCard(b.card), IsStack(b.stack),
         NEW cred, NEW card, card = Augment(b.card, Merge(b.stack))
  PROVE  Passes(b.stack, cred) <=>
           \/ card.requirements = {}
           \/ \E a \in card.requirements : Satisfies(cred, card, a)
<1> DEFINE stack == b.stack
           D == DOMAIN stack
           Req(leaf) == [name \in {leaf.kind} |-> leaf.scopes]
<1>1. card.requirements = Merge(b.stack).requirements
  BY DEF Augment, IsCard, OpenlyGuarded
<1>2. PICK offers :
            /\ DOMAIN offers = D
            /\ \A i \in D : offers[i] = {Req(leaf) : leaf \in Range(stack[i])}
            /\ \A i \in D : offers[i] # {}
            /\ Merge(b.stack).requirements = IF D = {} THEN {} ELSE Conjoin(offers)
  BY MergeIs
<1> DEFINE choices == {f \in [D -> UNION Range(offers)] : \A i \in D : f[i] \in offers[i]}
<1>3. card.requirements = IF D = {} THEN {} ELSE {Join(picked) : picked \in choices}
  BY <1>1, <1>2 DEF Conjoin
<1>4. \A i \in D : \A leaf \in Range(stack[i]) :
         Admits(leaf, cred) <=> Satisfies(cred, card, Req(leaf))
  BY LeafMeets
<1>5. \A i \in D : offers[i] \subseteq UNION Range(offers)
  BY <1>2 DEF Range
<1>6. \A picked \in choices : DOMAIN picked = D
  OBVIOUS
<1>7. CASE D = {}
  <2>1. Passes(stack, cred)
    BY <1>7 DEF Passes
  <2>2. QED
    BY <1>3, <1>7, <2>1
<1>8. CASE D # {}
  <2>1. choices # {}
    <3> DEFINE f == [i \in D |-> CHOOSE r \in offers[i] : TRUE]
    <3>1. \A i \in D : f[i] \in offers[i]
      BY <1>2
    <3>2. f \in [D -> UNION Range(offers)]
      BY <1>5, <3>1
    <3> HIDE DEF f, D
    <3>3. QED
      BY <3>1, <3>2
  <2>2. ASSUME Passes(stack, cred)
        PROVE  \E picked \in choices : Satisfies(cred, card, Join(picked))
    <3> DEFINE Leaf(i) == CHOOSE leaf \in Range(stack[i]) : Admits(leaf, cred)
               f == [i \in D |-> Req(Leaf(i))]
    <3>1. \A i \in D : Leaf(i) \in Range(stack[i]) /\ Admits(Leaf(i), cred)
      BY <2>2 DEF Passes
    <3> HIDE DEF Leaf
    <3>2. \A i \in D : Req(Leaf(i)) \in offers[i]
      <4>1. ASSUME NEW i \in D
            PROVE  Req(Leaf(i)) \in offers[i]
        <5>1. offers[i] = {Req(leaf) : leaf \in Range(stack[i])}
          BY <1>2
        <5>2. QED
          BY <3>1, <5>1
      <4>2. QED
        BY <4>1
    <3>3. \A i \in D : Satisfies(cred, card, Req(Leaf(i)))
      BY <1>4, <3>1
    <3> HIDE DEF Req
    <3>4. f \in [D -> UNION Range(offers)]
      BY <1>5, <3>2
    <3>5. f \in choices
      BY <3>2, <3>4
    <3>6. \A i \in DOMAIN f : Satisfies(cred, card, f[i])
      BY <3>3
    <3> HIDE DEF f, choices
    <3>7. Satisfies(cred, card, Join(f))
      BY <3>6, JoinIs
    <3>8. QED
      BY <3>5, <3>7
  <2>3. ASSUME NEW picked \in choices, Satisfies(cred, card, Join(picked))
        PROVE  Passes(stack, cred)
    <3>1. \A i \in D : Satisfies(cred, card, picked[i])
      BY <1>6, <2>3, JoinIs
    <3>2. ASSUME NEW i \in D
          PROVE  \E leaf \in Range(stack[i]) : Admits(leaf, cred)
      <4>1. picked[i] \in offers[i]
        OBVIOUS
      <4> HIDE DEF Req, choices
      <4>2. PICK leaf \in Range(stack[i]) : picked[i] = Req(leaf)
        BY <1>2, <4>1
      <4>3. Satisfies(cred, card, Req(leaf))
        BY <3>1, <4>2
      <4>4. QED
        BY <1>4, <4>3
    <3>3. QED
      BY <3>2 DEF Passes
  <2> HIDE DEF choices, D
  <2>4. card.requirements = {Join(picked) : picked \in choices}
    BY <1>3, <1>8
  <2>5. card.requirements # {}
    BY <2>1, <2>4
  <2>6. QED
    BY <2>2, <2>3, <2>4, <2>5
<1>9. QED
  BY <1>7, <1>8

\* The discovered card tells the truth about the stack.
THEOREM AdvertisedCredentialsAdmitAlways == Spec => []AdvertisedCredentialsAdmit
<1>1. SessionInv => AdvertisedCredentialsAdmit
  <2> SUFFICES ASSUME SessionInv, client.phase = "answered", server.adapter = "server",
                      OpenlyGuarded(builder), request.twist = "none"
               PROVE  AdvertisedCredentialsAdmit
    BY DEF AdvertisedCredentialsAdmit
  <2>1. ServerInv /\ ClientInv /\ AnswerInv
    BY DEF SessionInv
  <2>2. server = Built(builder) /\ BuildRefusal(builder) = "none" /\ builder \in Builders
    BY <2>1 DEF ServerInv, Served
  <2>3. /\ server.adapter = builder.adapter /\ server.stack = builder.stack
        /\ server.card = builder.card /\ builder.adapter = "server"
        /\ server.merged = Merge(builder.stack)
    BY <2>2 DEF Built
  <2>4. client.card = Augment(builder.card, Merge(builder.stack))
    BY <2>1, <2>3 DEF ClientInv, Served, AgentCard
  <2>5. ~Collide(builder.stack)
    BY <2>2, <2>3, BuildIs DEF BuildRefusal
  <2>6. IsStack(builder.stack) /\ IsCard(builder.card)
    BY <2>2, BuildersAssumption
  <2>7. Passes(builder.stack, request.cred) <=>
           \/ client.card.requirements = {}
           \/ \E a \in client.card.requirements : Satisfies(request.cred, client.card, a)
    BY <2>4, <2>5, <2>6, AdvertisedIs
  <2>8. IsCredential(request.cred)
    BY AskedIs DEF Asked
  <2>9. Authenticated <=> Passes(builder.stack, request.cred)
    BY <2>3, <2>6, <2>8, StackVerdictIs, Zenon DEF Authenticated
  <2>10. (client.answer.refusal \in AuthKinds) <=> ~Authenticated
    BY <2>1 DEF AnswerInv
  <2>11. QED
    BY <2>7, <2>9, <2>10 DEF AdvertisedCredentialsAdmit
<1>2. QED
  BY <1>1, SessionInvAlways, PTL

-------------------------------------------------------------------------------
(* A walk is complete *)

NotListed(listed, id) == \A j \in DOMAIN listed : listed[j] # id
ListedOnce(listed, id) ==
  \E i \in DOMAIN listed : \A j \in DOMAIN listed : listed[j] = id <=> j = i

Cursors == [id : Nat, key : Nat]

\* How a page deals with a row it had the chance to show.
Serves(kind, cursor, page, row) ==
  /\ \A i \in DOMAIN page.rows : page.rows[i].id = row.id => page.rows[i] = row
  /\ \A i, j \in DOMAIN page.rows : page.rows[i] = row /\ page.rows[j] = row => i = j
  /\ OnPage(page, row) => Paging!PastCursor(kind, cursor, row)
  /\ page.next = None => (Paging!PastCursor(kind, cursor, row) => OnPage(page, row))
  /\ page.next # None =>
        (Paging!PastCursor(kind, page.next, row)
           <=> Paging!PastCursor(kind, cursor, row) /\ ~OnPage(page, row))

\* A row of the caller's that no other of its listing shares an id with is
\* shown, or left to the next page.
LEMMA ServesIs ==
  ASSUME NEW kind, NEW rows, Orderable(kind, rows), NEW cursor, IsCursor(cursor),
         NEW page, IsPage(kind, rows, cursor, page),
         NEW row \in rows, \A r \in rows : r.id = row.id => r = row
  PROVE  Serves(kind, cursor, page, row)
<1>1. /\ \A i \in DOMAIN page.rows : page.rows[i] \in rows
      /\ \A i \in DOMAIN page.rows : Paging!PastCursor(kind, cursor, page.rows[i])
      /\ \A i, j \in DOMAIN page.rows : page.rows[i] = page.rows[j] => i = j
  BY DEF IsPage
<1>2. \A i \in DOMAIN page.rows : page.rows[i].id = row.id => page.rows[i] = row
  BY <1>1
<1>3. \A i, j \in DOMAIN page.rows : page.rows[i] = row /\ page.rows[j] = row => i = j
  BY <1>1
<1>4. OnPage(page, row) => Paging!PastCursor(kind, cursor, row)
  BY <1>1 DEF OnPage
<1>5. None \notin rows
  BY PagesAssumption DEF Orderable
<1>6. page.next = None => (Paging!PastCursor(kind, cursor, row) => OnPage(page, row))
  BY <1>5 DEF IsPage
<1>7. ASSUME page.next # None
      PROVE  Paging!PastCursor(kind, page.next, row)
               <=> Paging!PastCursor(kind, cursor, row) /\ ~OnPage(page, row)
  <2>1. /\ page.next \in rows /\ Paging!PastCursor(kind, cursor, page.next)
        /\ Paging!PastCursor(kind, cursor, row) =>
              (OnPage(page, row) <=> ~Paging!Follows(kind, page.next, row))
    BY <1>7 DEF IsPage
  <2>2. Paging!PastCursor(kind, page.next, row) <=> Paging!Follows(kind, page.next, row)
    BY <1>7 DEF Paging!PastCursor
  <2>3. Paging!Follows(kind, page.next, row) => Paging!PastCursor(kind, cursor, row)
    BY <2>1, PastIs
  <2>4. QED
    BY <2>1, <2>2, <2>3
<1>8. QED
  BY <1>2, <1>3, <1>4, <1>6, <1>7, Zenon DEF Serves

\* One list after another.
LEMMA ListedAfter ==
  ASSUME NEW listed \in Seq(Nat), NEW ids \in Seq(Nat), NEW id
  PROVE  /\ NotListed(listed, id) /\ NotListed(ids, id) => NotListed(listed \o ids, id)
         /\ ListedOnce(listed, id) /\ NotListed(ids, id) => ListedOnce(listed \o ids, id)
         /\ NotListed(listed, id) /\ ListedOnce(ids, id) => ListedOnce(listed \o ids, id)
<1> DEFINE m == Len(listed)
           n == Len(ids)
           more == listed \o ids
           at(k) == m + k
<1>1. m \in Nat /\ n \in Nat /\ DOMAIN listed = 1..m /\ DOMAIN ids = 1..n
      /\ DOMAIN more = 1..(m + n)
  OBVIOUS
<1>2. \A i \in DOMAIN listed : i \in DOMAIN more
  BY <1>1
<1>3. \A i \in DOMAIN listed : more[i] = listed[i]
  OBVIOUS
<1>4. \A k \in DOMAIN ids : at(k) \in DOMAIN more
  BY <1>1
<1>5. \A k \in DOMAIN ids : more[at(k)] = ids[k]
  OBVIOUS
<1>6. \A k \in DOMAIN ids : at(k) \notin DOMAIN listed
  BY <1>1
<1>7. \A i, k \in DOMAIN ids : at(i) = at(k) => i = k
  BY <1>1
<1>8. \A i \in DOMAIN more : i \in DOMAIN listed \/ \E k \in DOMAIN ids : i = at(k)
  <2>1. TAKE i \in DOMAIN more
  <2>2. CASE i <= m
    BY <1>1, <2>2
  <2>3. CASE i > m
    <3>1. i - m \in DOMAIN ids /\ i = at(i - m)
      BY <1>1, <2>3
    <3>2. QED
      BY <3>1
  <2>4. QED
    BY <1>1, <2>2, <2>3
<1> HIDE DEF m, n, more, at
<1>9. ASSUME NotListed(listed, id), NotListed(ids, id)
      PROVE  NotListed(more, id)
  BY <1>3, <1>5, <1>8, <1>9, Zenon DEF NotListed
<1>10. ASSUME ListedOnce(listed, id), NotListed(ids, id)
       PROVE  ListedOnce(more, id)
  <2>1. PICK i \in DOMAIN listed : \A j \in DOMAIN listed : listed[j] = id <=> j = i
    BY <1>10 DEF ListedOnce
  <2>2. \A k \in DOMAIN ids : ids[k] # id
    BY <1>10 DEF NotListed
  <2>3. ASSUME NEW j \in DOMAIN more
        PROVE  more[j] = id <=> j = i
    <3>1. CASE j \in DOMAIN listed
      BY <1>3, <2>1, <3>1, Zenon
    <3>2. CASE \E k \in DOMAIN ids : j = at(k)
      BY <1>5, <1>6, <2>1, <2>2, <3>2, Zenon
    <3>3. QED
      BY <1>8, <3>1, <3>2, Zenon
  <2>4. QED
    BY <1>2, <2>1, <2>3, Zenon DEF ListedOnce
<1>11. ASSUME NotListed(listed, id), ListedOnce(ids, id)
       PROVE  ListedOnce(more, id)
  <2>1. PICK i \in DOMAIN ids : \A j \in DOMAIN ids : ids[j] = id <=> j = i
    BY <1>11 DEF ListedOnce
  <2>2. \A k \in DOMAIN listed : listed[k] # id
    BY <1>11 DEF NotListed
  <2>3. ASSUME NEW j \in DOMAIN more
        PROVE  more[j] = id <=> j = at(i)
    <3>1. CASE j \in DOMAIN listed
      BY <1>3, <1>6, <2>2, <3>1, Zenon
    <3>2. ASSUME NEW k \in DOMAIN ids, j = at(k)
          PROVE  more[j] = id <=> j = at(i)
      BY <1>5, <1>7, <2>1, <3>2, Zenon
    <3>3. QED
      BY <1>8, <3>1, <3>2, Zenon
  <2>4. QED
    BY <1>4, <2>3, Zenon DEF ListedOnce
<1>12. QED
  BY <1>9, <1>10, <1>11 DEF more

\* The ids of a page.
Ids(rows) == [i \in DOMAIN rows |-> rows[i].id]

LEMMA IdsAre ==
  ASSUME NEW rows \in Seq(Cursors)
  PROVE  /\ Ids(rows) \in Seq(Nat) /\ DOMAIN Ids(rows) = DOMAIN rows
         /\ \A i \in DOMAIN rows : Ids(rows)[i] = rows[i].id
<1> DEFINE n == Len(rows)
<1>1. n \in Nat /\ DOMAIN rows = 1..n
  OBVIOUS
<1>2. \A i \in 1..n : rows[i] \in Cursors
  OBVIOUS
<1> HIDE DEF n
<1>3. \A i \in 1..n : rows[i].id \in Nat
  BY <1>2 DEF Cursors
<1>4. Ids(rows) = [i \in 1..n |-> rows[i].id]
  BY <1>1 DEF Ids
<1>5. Ids(rows) \in [1..n -> Nat]
  BY <1>3, <1>4
<1>6. Ids(rows) \in Seq(Nat)
  BY <1>1, <1>5
<1>7. QED
  BY <1>1, <1>4, <1>6

\* A row that was not past the cursor, or that this page leaves out, is listed
\* as often after the page as before; one that is on the page is listed once.
LEMMA ServedOnce ==
  ASSUME NEW listed \in Seq(Nat), NEW kind, NEW cursor, NEW page, NEW row,
         page.rows \in Seq(Cursors), Serves(kind, cursor, page, row),
         IF Paging!PastCursor(kind, cursor, row) THEN NotListed(listed, row.id)
         ELSE ListedOnce(listed, row.id)
  PROVE  IF page.next # None /\ Paging!PastCursor(kind, page.next, row)
         THEN NotListed(listed \o Ids(page.rows), row.id)
         ELSE ListedOnce(listed \o Ids(page.rows), row.id)
<1> DEFINE rows == page.rows
           ids == Ids(rows)
<1>1. ids \in Seq(Nat) /\ DOMAIN ids = DOMAIN rows
  BY IdsAre
<1>2. \A i \in DOMAIN rows : ids[i] = rows[i].id
  BY IdsAre
<1>3. /\ NotListed(listed, row.id) /\ NotListed(ids, row.id)
            => NotListed(listed \o ids, row.id)
      /\ ListedOnce(listed, row.id) /\ NotListed(ids, row.id)
            => ListedOnce(listed \o ids, row.id)
      /\ NotListed(listed, row.id) /\ ListedOnce(ids, row.id)
            => ListedOnce(listed \o ids, row.id)
  BY <1>1, ListedAfter
<1>4. \A i \in DOMAIN rows : rows[i].id = row.id => rows[i] = row
  BY DEF Serves
<1>5. \A i, j \in DOMAIN rows : rows[i] = row /\ rows[j] = row => i = j
  BY DEF Serves
<1>6. /\ OnPage(page, row) => Paging!PastCursor(kind, cursor, row)
      /\ page.next = None => (Paging!PastCursor(kind, cursor, row) => OnPage(page, row))
      /\ page.next # None =>
            (Paging!PastCursor(kind, page.next, row)
               <=> Paging!PastCursor(kind, cursor, row) /\ ~OnPage(page, row))
  BY DEF Serves
<1>7. OnPage(page, row) <=> \E i \in DOMAIN rows : rows[i] = row
  BY DEF OnPage
<1> HIDE DEF ids, rows
<1>8. CASE OnPage(page, row)
  <2>1. PICK i \in DOMAIN rows : rows[i] = row
    BY <1>7, <1>8
  <2>2. \A j \in DOMAIN ids : ids[j] = row.id <=> j = i
    BY <1>1, <1>2, <1>4, <1>5, <2>1
  <2>3. ListedOnce(ids, row.id)
    BY <1>1, <2>2 DEF ListedOnce
  <2>4. QED
    BY <1>3, <1>6, <1>8, <2>3 DEF ids, rows
<1>9. CASE ~OnPage(page, row)
  <2>1. NotListed(ids, row.id)
    BY <1>1, <1>2, <1>4, <1>7, <1>9 DEF NotListed
  <2>2. QED
    BY <1>3, <1>6, <1>9, <2>1 DEF ids, rows
<1>10. QED
  BY <1>8, <1>9

\* A walk is under way.
OnWalk == client.plan # "probe" /\ client.phase \in Asked

WalkRequest ==
  /\ request.op \in {"ListTasks", "ListConfigs"} /\ request.twist = "none"
  /\ request.task \in TaskIds

\* The client has listed the steady rows up to its cursor, each once.
SoFar ==
  \A row \in walk.steady :
     IF Paging!PastCursor(Kind(request), request.token, row)
     THEN NotListed(walk.listed, row.id) ELSE ListedOnce(walk.listed, row.id)

\* A steady row is ahead of the scan, or was read as it still is.
ScanMeets ==
  client.phase = "scanning" =>
    \A row \in walk.steady :
       /\ row.id \in scan.left \/ row \in scan.read
       /\ \A r \in scan.read : r.id = row.id => r = row

\* The answer on its way is what the client will hear, and its page serves every
\* steady row.
PageServes ==
  client.phase = "answered" =>
    /\ client.answer.refusal \in Kinds
    /\ client.answer.wire = Encode(request.binding, client.answer.refusal)
    /\ client.answer.page.rows \in Seq(Cursors)
    /\ client.answer.refusal = "none" =>
          \A row \in walk.steady :
             Serves(Kind(request), request.token, client.answer.page, row)

WalkInv ==
  /\ walk = [listed |-> walk.listed, steady |-> walk.steady]
  /\ client.phase \in {"unbuilt", "ready", "discovered"} => walk.listed = <<>>
  /\ OnWalk => /\ WalkRequest /\ walk.steady \subseteq Listed(db)
               /\ walk.listed \in Seq(Nat)
               /\ SoFar /\ ScanMeets /\ PageServes
  /\ client.phase = "walked" =>
        \A row \in walk.steady : ListedOnce(walk.listed, row.id)

LEMMA InitWalk == Init => WalkInv
BY DEF Init, WalkInv, OnWalk, Asked

\* A step of a client that only probes, or has not asked yet.
LEMMA IdleWalk ==
  ASSUME WalkInv, walk' = walk, ~OnWalk', client'.phase # "walked",
         client'.phase \in {"unbuilt", "ready", "discovered"} => 
            client.phase \in {"unbuilt", "ready", "discovered"}
  PROVE  WalkInv'
BY DEF WalkInv

LEMMA BuildServerWalk ==
  ASSUME SessionInv, WalkInv, BuildServer
  PROVE  WalkInv'
<1>1. /\ client.phase = "unbuilt" /\ walk' = walk
      /\ \/ client' = [client EXCEPT !.phase = "ready"]
         \/ client' = [client EXCEPT !.phase = "unserved"]
  BY DEF BuildServer
<1>2. client'.phase \in {"ready", "unserved"}
  BY <1>1 DEF SessionInv, ClientInv
<1>3. QED
  BY <1>1, <1>2, IdleWalk DEF OnWalk, Asked

LEMMA DiscoverWalk ==
  ASSUME SessionInv, WalkInv, Discover
  PROVE  WalkInv'
<1>1. client.phase = "ready" /\ walk' = walk /\ client'.phase = "discovered"
  BY DEF Discover, SessionInv, ClientInv
<1>2. QED
  BY <1>1, IdleWalk DEF OnWalk, Asked

LEMMA SendProbeWalk ==
  ASSUME SessionInv, WalkInv, SendProbe
  PROVE  WalkInv'
<1>1. /\ client.plan = "probe" /\ walk' = walk
      /\ client'.phase = "sent" /\ client'.plan = client.plan
  BY DEF SendProbe, SessionInv, ClientInv
<1>2. QED
  BY <1>1, IdleWalk DEF OnWalk

LEMMA StartWalkWalk ==
  ASSUME SessionInv, WalkInv, NEW r \in Walks, StartWalk(r)
  PROVE  WalkInv'
<1>1. /\ client.phase = "discovered" /\ walk.listed = <<>>
      /\ walk = [listed |-> walk.listed, steady |-> walk.steady]
  BY DEF StartWalk, WalkInv
<1>2. /\ client'.phase = "sent" /\ request' = r
      /\ walk' = [walk EXCEPT !.steady = Listed(db)']
  BY DEF StartWalk, SessionInv, ClientInv, request
<1>3. /\ walk' = [listed |-> walk'.listed, steady |-> walk'.steady]
      /\ walk'.listed = <<>> /\ walk'.steady = Listed(db)'
  BY <1>1, <1>2
<1>4. /\ r.token = None /\ r.task \in TaskIds /\ r.twist = "none"
      /\ r.op \in {"ListTasks", "ListConfigs"}
  BY WalksAre
<1>5. WalkRequest'
  BY <1>2, <1>4 DEF WalkRequest
<1>6. \A row : NotListed(walk'.listed, row.id)
  BY <1>3 DEF NotListed
<1>7. \A row : Paging!PastCursor(Kind(r), r.token, row)
  BY <1>4 DEF Paging!PastCursor
<1>8. SoFar'
  BY <1>2, <1>6, <1>7, Zenon DEF SoFar
<1>9. walk'.listed \in Seq(Nat)
  BY <1>3
<1>10. (ScanMeets /\ PageServes)' /\ client'.phase \notin {"walked", "unbuilt", "ready", "discovered"}
  BY <1>2 DEF ScanMeets, PageServes
<1>11. QED
  BY <1>3, <1>5, <1>8, <1>9, <1>10 DEF WalkInv

\* A walk's request is none of those that only read or write one task.
LEMMA OnlyLists ==
  ASSUME WalkInv, client.phase \in Asked,
         request.op \notin {"ListTasks", "ListConfigs"}
  PROVE  client.plan = "probe"
BY DEF WalkInv, WalkRequest, OnWalk

\* An answer to a probe is no matter of a walk's.
LEMMA ProbeAnswerWalk ==
  ASSUME SessionInv, WalkInv, client.plan = "probe",
         NEW refusal, NEW shown, NEW page, Answer(refusal, shown, page), walk' = walk
  PROVE  WalkInv'
<1>1. client'.phase = "answered" /\ client'.plan = client.plan
  BY DEF Answer, SessionInv, ClientInv
<1>2. QED
  BY <1>1, IdleWalk DEF OnWalk

\* The answer to a walk's request.
LEMMA AnswerWalk ==
  ASSUME SessionInv, WalkInv, client.phase \in {"sent", "scanning"},
         NEW refusal \in Kinds, NEW shown, NEW page, Answer(refusal, shown, page),
         page.rows \in Seq(Cursors),
         OnWalk /\ refusal = "none" =>
            \A row \in walk.steady : Serves(Kind(request), request.token, page, row),
         UNCHANGED <<server, db, walk>>
  PROVE  WalkInv'
<1>1. CASE client.plan = "probe"
  BY <1>1, ProbeAnswerWalk
<1>2. CASE client.plan # "probe"
  <2>1. OnWalk
    BY <1>2 DEF OnWalk, Asked
  <2> DEFINE answer == [refusal |-> refusal, wire |-> Reply(refusal),
                        shown |-> shown, page |-> page]
  <2>2. client' = [client EXCEPT !.phase = "answered", !.answer = answer]
    BY DEF Answer
  <2>3. answer.refusal = refusal /\ answer.wire = Reply(refusal) /\ answer.page = page
    OBVIOUS
  <2> HIDE DEF answer
  <2>4. /\ client'.phase = "answered" /\ request' = request /\ client'.answer = answer
    BY <2>2 DEF SessionInv, ClientInv, request
  <2>5. /\ walk = [listed |-> walk.listed, steady |-> walk.steady]
        /\ WalkRequest /\ walk.steady \subseteq Listed(db)
        /\ walk.listed \in Seq(Nat) /\ SoFar
    BY <2>1 DEF WalkInv
  <2>6. Listed(db)' = Listed(db)
    BY <2>4 DEF Listed, TaskRows, ConfigRows, Owner
  <2>7. Reply(refusal) = Encode(request.binding, refusal)
    BY <2>5 DEF Reply, WalkRequest
  <2>8. PageServes'
    BY <2>1, <2>3, <2>4, <2>7 DEF PageServes
  <2>9. WalkRequest' /\ SoFar'
    BY <2>4, <2>5 DEF WalkRequest, SoFar
  <2>10. ScanMeets'
    BY <2>4 DEF ScanMeets
  <2>11. client'.phase \notin {"walked", "unbuilt", "ready", "discovered"}
    BY <2>4
  <2>12. QED
    BY <2>5, <2>6, <2>8, <2>9, <2>10, <2>11 DEF WalkInv
<1>3. QED
  BY <1>1, <1>2

LEMMA RefusedWalk ==
  ASSUME SessionInv, WalkInv, Refused
  PROVE  WalkInv'
<1> DEFINE refusal == Refusal(request.binding, db, server, request)
<1>1. /\ client.phase = "sent" /\ Answer(refusal, {}, NoPage) /\ refusal # "none"
      /\ UNCHANGED <<server, db, walk>>
  BY DEF Refused
<1>2. CASE client.plan = "probe"
  <2> HIDE DEF refusal
  <2>1. QED
    BY <1>1, <1>2, ProbeAnswerWalk
<1>3. CASE client.plan # "probe"
  <2>1. client.phase \in Asked /\ request.twist = "none"
    BY <1>1, <1>3 DEF WalkInv, OnWalk, WalkRequest, Asked
  <2>2. "none" \notin BindingTwists /\ "none" # "version"
    BY DEF BindingTwists
  <2>3. refusal \in Kinds
    BY <2>1, <2>2, AskedIs, KindsIs, Zenon
  <2>4. NoPage.rows \in Seq(Cursors)
    BY DEF NoPage
  <2> HIDE DEF refusal
  <2>5. QED
    BY <1>1, <2>3, <2>4, AnswerWalk
<1>4. QED
  BY <1>2, <1>3

\* Nothing else than a listing is let through for a walk.
LEMMA ServedWalk ==
  ASSUME SessionInv, WalkInv, Read \/ Turn \/ Cancel \/ WriteConfig
  PROVE  WalkInv'
<1>1. /\ client.phase \in Asked /\ walk' = walk
      /\ request.op \notin {"ListTasks", "ListConfigs"}
  BY DEF Read, Turn, Cancel, WriteConfig, Reached, Asked, Sends
<1>2. client.plan = "probe"
  BY <1>1, OnlyLists
<1>3. \E shown, page : Answer("none", shown, page)
  <2>1. CASE Read
    BY <2>1 DEF Read
  <2>2. CASE Turn
    BY <2>2 DEF Turn
  <2>3. CASE Cancel
    BY <2>3 DEF Cancel
  <2>4. CASE WriteConfig
    BY <2>4 DEF WriteConfig
  <2>5. QED
    BY <2>1, <2>2, <2>3, <2>4
<1>4. QED
  BY <1>1, <1>2, <1>3, ProbeAnswerWalk

\* A page of orderable rows is one a client can read.
LEMMA RowsAreCursors ==
  ASSUME NEW kind, NEW rows, Orderable(kind, rows), NEW cursor, NEW page,
         IsPage(kind, rows, cursor, page)
  PROVE  page.rows \in Seq(Cursors)
<1>1. page.rows \in Seq(rows) /\ rows \subseteq Cursors
  BY DEF IsPage, Orderable, Cursors
<1>2. QED
  BY <1>1

LEMMA NoneIsKind == "none" \in Kinds
BY DEF Kinds, CoreKinds

LEMMA ListWalk ==
  ASSUME SessionInv, WalkInv, List
  PROVE  WalkInv'
<1> DEFINE page == Paging!PageOf(server.backend, Kind(request), Listed(db),
                                 request.token, request.size)
           ids == {page.rows[i].id : i \in DOMAIN page.rows}
           shown == IF request.op = "ListTasks" THEN ids ELSE {request.task}
<1>1. /\ client.phase = "sent"
      /\ request.op \in {"ListConfigs", "ListTasks"} /\ UNCHANGED <<server, db, walk>>
      /\ Answer("none", shown, page)
  BY DEF List, Reached
<1>2. TableInv /\ ClientInv
  BY DEF SessionInv
<1>3. request.op = "ListTasks" \/ request.task \in TaskIds
  BY <1>1, <1>2 DEF ClientInv, Asked, IsRequest, OnTask, Configs
<1>4. /\ Orderable(Kind(request), Listed(db))
      /\ \A a, b \in Listed(db) : a.id = b.id => a = b
  BY <1>2, <1>3, ListedIs DEF TableInv
<1>5. IsCursor(request.token) /\ request.size \in Nat \ {0}
  BY <1>1, AskedIs DEF Asked
<1>6. IsPage(Kind(request), Listed(db), request.token, page)
  BY <1>4, <1>5, PageIs
<1> HIDE DEF page, shown
<1>7. page.rows \in Seq(Cursors)
  BY <1>4, <1>6, RowsAreCursors
<1>8. ASSUME OnWalk, NEW row \in walk.steady
      PROVE  Serves(Kind(request), request.token, page, row)
  <2>1. row \in Listed(db)
    BY <1>8 DEF WalkInv
  <2>2. QED
    BY <1>4, <1>5, <1>6, <2>1, ServesIs
<1>9. QED
  BY <1>1, <1>7, <1>8, NoneIsKind, AnswerWalk

LEMMA ScanStartsWalk ==
  ASSUME SessionInv, WalkInv, ScanStarts
  PROVE  WalkInv'
<1>1. /\ client.phase = "sent" /\ UNCHANGED <<server, db, walk>>
      /\ request.op = "ListTasks" /\ client' = [client EXCEPT !.phase = "scanning"]
      /\ scan' = [left |-> TaskIds, read |-> {}]
  BY DEF ScanStarts, Reached
<1>2. /\ client'.phase = "scanning" /\ client'.plan = client.plan /\ request' = request
  BY <1>1 DEF SessionInv, ClientInv, request
<1>3. OnWalk' => OnWalk
  BY <1>1, <1>2 DEF OnWalk, Asked
<1>4. Listed(db)' = Listed(db)
  BY <1>1, <1>2 DEF Listed, TaskRows, ConfigRows, Owner
<1>5. IsTable(db)
  BY DEF SessionInv, TableInv
<1>6. \A row \in Listed(db) : row.id \in TaskIds
  BY <1>1, <1>5, TaskRowsAre DEF Listed
<1>7. OnWalk => ScanMeets'
  BY <1>1, <1>6 DEF ScanMeets, WalkInv
<1>8. PageServes'
  BY <1>2 DEF PageServes
<1>9. OnWalk => (WalkRequest /\ SoFar)'
  BY <1>1, <1>2 DEF WalkInv, WalkRequest, SoFar
<1>10. QED
  BY <1>1, <1>2, <1>3, <1>4, <1>7, <1>8, <1>9 DEF WalkInv

LEMMA ScanReadsWalk ==
  ASSUME SessionInv, WalkInv, ScanReads
  PROVE  WalkInv'
<1>1. /\ client.phase = "scanning" /\ UNCHANGED <<server, db, client, walk>>
  BY DEF ScanReads
<1>2. PICK t \in scan.left :
        scan' = [left |-> scan.left \ {t},
                 read |-> scan.read \cup {row \in TaskRows(db) : row.id = t}]
  BY DEF ScanReads
<1>3. /\ scan'.left = scan.left \ {t}
      /\ scan'.read = scan.read \cup {row \in TaskRows(db) : row.id = t}
  BY <1>2
<1>4. request' = request /\ Listed(db)' = Listed(db) /\ OnWalk' = OnWalk
  BY <1>1 DEF request, Listed, TaskRows, ConfigRows, Owner, OnWalk
<1>5. request.op = "ListTasks" /\ Listed(db) = TaskRows(db)
  BY <1>1 DEF SessionInv, ScanInv, Listed
<1>6. \A a, b \in TaskRows(db) : a.id = b.id => a = b
  BY TaskRowsAre DEF SessionInv, TableInv
<1>7. ASSUME OnWalk PROVE ScanMeets'
  <2>1. walk.steady \subseteq TaskRows(db)
    BY <1>5, <1>7 DEF WalkInv
  <2>2. \A row \in walk.steady : row.id \in scan.left \/ row \in scan.read
    BY <1>1, <1>7 DEF WalkInv, ScanMeets
  <2>3. \A row \in walk.steady : \A r \in scan.read : r.id = row.id => r = row
    BY <1>1, <1>7 DEF WalkInv, ScanMeets
  <2>4. \A row \in walk.steady : row.id \in scan'.left \/ row \in scan'.read
    BY <1>3, <2>1, <2>2
  <2>5. \A row \in walk.steady : \A r \in scan'.read : r.id = row.id => r = row
    BY <1>3, <1>6, <2>1, <2>3
  <2>6. QED
    BY <1>1, <2>4, <2>5 DEF ScanMeets
<1>8. PageServes' /\ (SoFar => SoFar') /\ (WalkRequest => WalkRequest')
  BY <1>1, <1>4 DEF PageServes, SoFar, WalkRequest
<1>9. QED
  BY <1>1, <1>4, <1>7, <1>8 DEF WalkInv

LEMMA ScanEndsWalk ==
  ASSUME SessionInv, WalkInv, ScanEnds
  PROVE  WalkInv'
<1> DEFINE page == Paging!PageOf("dynamodb", "tasks", scan.read, request.token, request.size)
           ids == {page.rows[i].id : i \in DOMAIN page.rows}
<1>1. /\ client.phase = "scanning" /\ scan.left = {} /\ Answer("none", ids, page)
      /\ UNCHANGED <<server, db, walk>>
  BY DEF ScanEnds
<1>2. /\ request.op = "ListTasks"
      /\ scan.read \subseteq [id : TaskIds, key : Nat]
      /\ \A a, b \in scan.read : a.id = b.id => a = b
  BY <1>1 DEF SessionInv, ScanInv
<1>3. Orderable("tasks", scan.read)
  BY <1>2, TablesAssumption, OrderableIs
<1>4. IsCursor(request.token) /\ request.size \in Nat \ {0}
  BY <1>1, AskedIs DEF Asked
<1>5. IsPage("tasks", scan.read, request.token, page)
  BY <1>3, <1>4, PageIs
<1> HIDE DEF page
<1>6. page.rows \in Seq(Cursors)
  BY <1>3, <1>5, RowsAreCursors
<1> HIDE DEF ids
<1>7. Kind(request) = "tasks"
  BY <1>2 DEF Kind
<1>8. ASSUME OnWalk, NEW row \in walk.steady
      PROVE  Serves(Kind(request), request.token, page, row)
  <2>1. row \in scan.read /\ \A r \in scan.read : r.id = row.id => r = row
    BY <1>1, <1>8 DEF WalkInv, ScanMeets
  <2>2. QED
    BY <1>3, <1>4, <1>5, <1>7, <2>1, ServesIs
<1>9. QED
  BY <1>1, <1>6, <1>8, NoneIsKind, AnswerWalk

LEMMA ReceiveWalk ==
  ASSUME SessionInv, WalkInv, Receive
  PROVE  WalkInv'
<1> DEFINE heard == Decode(request.binding, client.answer.wire)
           page == client.answer.page
           more == ~heard.failed /\ page.next # None
           phase == CASE more -> "sent"
                      [] ~more /\ client.plan = "probe" -> "done"
                      [] OTHER -> IF heard.failed THEN "done" ELSE "walked"
           token == IF more THEN page.next ELSE request.token
           next == [request EXCEPT !.token = token]
           listed == IF client.plan = "probe" THEN walk.listed
                     ELSE walk.listed \o Ids(page.rows)
<1>1. client.phase = "answered" /\ UNCHANGED <<server, db>>
  BY DEF Receive
<1>2. client' = [client EXCEPT !.heard = heard, !.phase = phase,
                               !.request = next, !.answer = None]
  BY DEF Receive, SessionInv, ClientInv, request
<1>3. walk' = [walk EXCEPT !.listed = listed]
  BY DEF Receive, Ids
<1>4. IsRequest(request)
  BY <1>1 DEF SessionInv, ClientInv, Asked
<1>5. phase = CASE more -> "sent"
                [] ~more /\ client.plan = "probe" -> "done"
                [] OTHER -> IF heard.failed THEN "done" ELSE "walked"
  OBVIOUS
<1> HIDE DEF heard, phase, token, listed
<1>6. /\ next.token = token /\ next.task = request.task /\ next.op = request.op
      /\ next.twist = request.twist /\ next.tenant = request.tenant
      /\ next.cred = request.cred
  BY <1>4 DEF IsRequest
<1> HIDE DEF next
<1>7. /\ client'.phase = phase /\ client'.plan = client.plan /\ request' = next
  BY <1>2 DEF SessionInv, ClientInv, request
<1>8. /\ walk' = [listed |-> walk'.listed, steady |-> walk'.steady]
      /\ walk'.listed = listed /\ walk'.steady = walk.steady
  BY <1>3 DEF WalkInv
<1>9. CASE client.plan = "probe"
  <2>1. phase \in {"sent", "done"}
    BY <1>5, <1>9
  <2>2. QED
    BY <1>7, <1>8, <1>9, <2>1 DEF WalkInv, OnWalk
<1>10. CASE client.plan # "probe"
  <2>1. OnWalk
    BY <1>1, <1>10 DEF OnWalk, Asked
  <2>2. /\ WalkRequest /\ walk.steady \subseteq Listed(db)
        /\ walk.listed \in Seq(Nat) /\ SoFar /\ PageServes
    BY <2>1 DEF WalkInv
  <2>3. /\ client.answer.refusal \in Kinds
        /\ client.answer.wire = Encode(request.binding, client.answer.refusal)
        /\ page.rows \in Seq(Cursors)
        /\ client.answer.refusal = "none" =>
             \A row \in walk.steady : Serves(Kind(request), request.token, page, row)
    BY <1>1, <2>2 DEF PageServes
  <2>4. request.binding \in Bindings
    BY <1>4, RequestIs
  <2>5. heard.failed <=> client.answer.refusal # "none"
    <3>1. heard = Decode(request.binding, Encode(request.binding, client.answer.refusal))
      BY <2>3 DEF heard
    <3>2. heard = Heard(client.answer.refusal)
      BY <2>3, <2>4, <3>1, HeardIs
    <3>3. QED
      BY <3>2 DEF Heard
  <2> HIDE DEF page
  <2>6. listed = walk.listed \o Ids(page.rows)
    BY <1>10 DEF listed
  <2>7. listed \in Seq(Nat)
    BY <2>2, <2>3, <2>6, IdsAre
  <2>8. ~heard.failed =>
          \A row \in walk.steady :
             IF page.next # None /\ Paging!PastCursor(Kind(request), page.next, row)
             THEN NotListed(listed, row.id) ELSE ListedOnce(listed, row.id)
    <3>1. SUFFICES ASSUME ~heard.failed, NEW row \in walk.steady
                   PROVE  IF page.next # None /\ Paging!PastCursor(Kind(request), page.next, row)
                          THEN NotListed(listed, row.id) ELSE ListedOnce(listed, row.id)
      OBVIOUS
    <3>2. Serves(Kind(request), request.token, page, row)
      BY <2>3, <2>5, <3>1
    <3>3. IF Paging!PastCursor(Kind(request), request.token, row)
          THEN NotListed(walk.listed, row.id) ELSE ListedOnce(walk.listed, row.id)
      BY <2>2 DEF SoFar
    <3>4. QED
      BY <2>2, <2>3, <2>6, <3>2, <3>3, ServedOnce
  <2>9. CASE more
    <3>1. phase = "sent" /\ page.next # None /\ ~heard.failed
      BY <1>5, <2>9 DEF page
    <3>2. token = page.next
      BY <2>9 DEF token, page
    <3>3. Kind(next) = Kind(request)
      BY <1>6 DEF Kind
    <3>4. Listed(db)' = Listed(db)
      <4>1. Owner(server, request)' = Owner(server, request)
        BY <1>1, <1>6, <1>7 DEF Owner
      <4>2. TaskRows(db)' = TaskRows(db)
        BY <1>1, <1>6, <1>7, <4>1 DEF TaskRows
      <4>3. ConfigRows(db)' = ConfigRows(db)
        BY <1>1, <1>6, <1>7 DEF ConfigRows
      <4>4. QED
        BY <1>1, <1>6, <1>7, <4>2, <4>3 DEF Listed
    <3>5. WalkRequest'
      BY <1>6, <1>7, <2>2 DEF WalkRequest
    <3>6. \A row \in walk.steady :
             IF Paging!PastCursor(Kind(next), token, row)
             THEN NotListed(listed, row.id) ELSE ListedOnce(listed, row.id)
      BY <2>8, <3>1, <3>2, <3>3
    <3>7. SoFar'
      BY <1>6, <1>7, <1>8, <3>6 DEF SoFar
    <3>8. (ScanMeets /\ PageServes)'
      BY <1>7, <3>1 DEF ScanMeets, PageServes
    <3>9. QED
      BY <1>7, <1>8, <2>2, <2>7, <3>1, <3>4, <3>5, <3>7, <3>8 DEF WalkInv
  <2>10. CASE ~more /\ heard.failed
    <3>1. phase = "done"
      BY <1>5, <1>10, <2>10
    <3>2. QED
      BY <1>7, <1>8, <3>1 DEF WalkInv, OnWalk, Asked
  <2>11. CASE ~more /\ ~heard.failed
    <3>1. phase = "walked" /\ page.next = None
      BY <1>5, <1>10, <2>11 DEF page
    <3>2. \A row \in walk.steady : ListedOnce(listed, row.id)
      BY <2>8, <2>11, <3>1
    <3>3. QED
      BY <1>7, <1>8, <3>1, <3>2 DEF WalkInv, OnWalk, Asked
  <2>12. QED
    BY <2>9, <2>10, <2>11
<1>11. QED
  BY <1>9, <1>10

\* What other clients write only takes rows off those the walk owes.
LEMMA OthersWalk ==
  ASSUME SessionInv, WalkInv, NEW t \in TaskIds, Others(t)
  PROVE  WalkInv'
<1>1. Walking /\ Disturbs
  BY DEF Others, StatusWritten, TaskCreated, TaskRemoved, ConfigWritten
<1>2. /\ walk' = [walk EXCEPT !.steady = @ \cap Listed(db')]
      /\ UNCHANGED <<server, client, scan>>
  BY <1>1 DEF Disturbs
<1>3. OnWalk
  BY <1>1 DEF Walking, OnWalk, Asked
<1>4. /\ walk = [listed |-> walk.listed, steady |-> walk.steady]
      /\ WalkRequest /\ walk.listed \in Seq(Nat)
      /\ SoFar /\ ScanMeets /\ PageServes
  BY <1>3 DEF WalkInv
<1>5. /\ walk' = [listed |-> walk'.listed, steady |-> walk'.steady]
      /\ walk'.listed = walk.listed /\ walk'.steady = walk.steady \cap Listed(db')
  BY <1>2, <1>4
<1>6. request' = request /\ Listed(db)' = Listed(db')
  BY <1>2 DEF request, Listed, TaskRows, ConfigRows, Owner
<1>7. walk'.steady \subseteq walk.steady /\ walk'.steady \subseteq Listed(db)'
  BY <1>5, <1>6
<1>8. SoFar'
  BY <1>4, <1>5, <1>6, <1>7 DEF SoFar
<1>9. ScanMeets'
  BY <1>2, <1>4, <1>7 DEF ScanMeets
<1>10. PageServes'
  BY <1>2, <1>4, <1>6, <1>7 DEF PageServes
<1>11. WalkRequest' /\ OnWalk' /\ client'.phase \in Asked
  BY <1>2, <1>3, <1>4, <1>6 DEF WalkRequest, OnWalk
<1>12. QED
  BY <1>4, <1>5, <1>7, <1>8, <1>9, <1>10, <1>11 DEF WalkInv, Asked

LEMMA StutterWalk ==
  ASSUME WalkInv, UNCHANGED vars
  PROVE  WalkInv'
<1>1. UNCHANGED <<server, client, db, walk, scan>>
  BY DEF vars
<1>2. request' = request /\ Listed(db)' = Listed(db) /\ OnWalk' = OnWalk
  BY <1>1 DEF request, Listed, TaskRows, ConfigRows, Owner, OnWalk
<1>3. /\ WalkRequest' = WalkRequest /\ SoFar' = SoFar /\ ScanMeets' = ScanMeets
      /\ PageServes' = PageServes
  BY <1>1, <1>2 DEF WalkRequest, SoFar, ScanMeets, PageServes
<1>4. QED
  BY <1>1, <1>2, <1>3 DEF WalkInv

\* At every moment of a walk the client has listed the steady rows up to its
\* cursor once each, and the scan or the answer under way will serve the rest.
THEOREM WalkInvAlways == Spec => []WalkInv
<1>1. Init => WalkInv
  BY InitWalk
<1>2. SessionInv /\ WalkInv /\ [Next]_vars => WalkInv'
  <2> SUFFICES ASSUME SessionInv, WalkInv, [Next]_vars PROVE WalkInv'
    OBVIOUS
  <2>1. ASSUME Server PROVE WalkInv'
    BY <2>1, RefusedWalk, ServedWalk, ListWalk, ScanStartsWalk, ScanReadsWalk,
       ScanEndsWalk DEF Server
  <2>2. QED
    BY <2>1, BuildServerWalk, DiscoverWalk, SendProbeWalk, StartWalkWalk, ReceiveWalk,
       OthersWalk, StutterWalk DEF Next
<1>3. QED
  BY <1>1, <1>2, SessionInvAlways, PTL DEF Spec

LEMMA OnceIs ==
  ASSUME NEW listed, NEW id, ListedOnce(listed, id)
  PROVE  Cardinality({i \in DOMAIN listed : listed[i] = id}) = 1
<1>1. PICK i \in DOMAIN listed : \A j \in DOMAIN listed : listed[j] = id <=> j = i
  BY DEF ListedOnce
<1>2. {j \in DOMAIN listed : listed[j] = id} = {i}
  BY <1>1
<1>3. QED
  BY <1>2, FS_Singleton

\* For any tables, page sizes, backend and number of writes in between, a client
\* that follows the page tokens to the end has seen each row that stayed in place
\* exactly once.
THEOREM WalkIsCompleteAlways == Spec => []WalkIsComplete
<1>1. WalkInv => WalkIsComplete
  BY OnceIs DEF WalkInv, WalkIsComplete
<1>2. QED
  BY <1>1, WalkInvAlways, PTL
=============================================================================
