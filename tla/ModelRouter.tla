----------------------------- MODULE ModelRouter -----------------------------
(***************************************************************************)
(* Which backend and which model a call goes to (core/model_router.py,     *)
(* LearnedModelRouter of intelligence/routing_recommendations.py, and the  *)
(* resolution and the build's lock of LLMClient, adapters/llm.py).  The    *)
(* router keeps a snapshot of the provider's catalog, primed by the        *)
(* dashboard's own, and the model it last picked for a tier; settings      *)
(* change under it, a build keeps those of its submission.  The properties *)
(* speak of every answer it could give at the moment.                      *)
(*                                                                         *)
(* A price is <<input, output, request>>: -1 unknown, 0 nothing, 1 at most *)
(* the ceiling of a cheap model, 2 above it.  Ids stand for a kind of id.  *)
(***************************************************************************)
EXTENDS Integers, Sequences, FiniteSets

CONSTANTS
    Asked,      \* the tiers that are asked for, with the profile they are asked under
    Installable,  \* the command line agents that are installed at first, and may come and go
    Policies,   \* the settings an operator may choose
    Catalogs,   \* what the endpoint may list
    Pins,       \* the locks of a tier
    TTL,        \* of a snapshot; the errors' and the dashboard's are 1
    MaxTime, MaxChanges     \* bounds on the clock, and on everything that changes

Tier == {"cheap", "ui", "backend", "strong", "docs"}
None == "none"
Empty == [m \in {} |-> 0]

VARIABLES
    now,
    endpoint,   \* [up, list]: what the provider's endpoint would answer
    live,       \* the process's snapshots: cat, catAt, free, freeAt, the last errors;
                \* history: a catalog that lists something was seen
    web,        \* the dashboard's snapshot: [list, ts], list empty before the first
    settings,
    clis,       \* the command line agents on the path
    pin,        \* [tier, source, kind, name]: a tier's lock
    cache,      \* of the client's router: the model it last picked for a tier
    disk,       \* the file of it
    build,      \* a build's settings, backends and cache; [at |-> "none"]
    changes

vars == <<now, endpoint, live, web, settings, clis, pin, cache, disk, build, changes>>

-----------------------------------------------------------------------------
(* Ids and prices. *)

FreeDefault == [t \in Tier |-> IF t = "strong" THEN "next:free" ELSE "coder:free"]
OpenFree == "openrouter:free"
PaidFamily == [cheap |-> "qwen", ui |-> "codestral", backend |-> "kimi",
               strong |-> "llama", docs |-> "deepseek"]
PaidOffline == [cheap |-> "qwen", ui |-> "codestral", backend |-> "kimi",
                strong |-> "glm", docs |-> "deepseek"]
CheapOffline == [cheap |-> "flash", ui |-> "qwen-next", backend |-> "glm",
                 strong |-> "glm", docs |-> "flash"]
CoderFamilies == {"kimi", "qwen", "deepseek", "glm", "codestral"}

FreeIds == {"coder:free", "next:free", "gone:free", OpenFree}
ClaudeIds == {"claude", "claude_cli"}
Values(f) == {f[t] : t \in DOMAIN f}

Free(m) == m \in FreeIds
Claude(m) == m \in ClaudeIds
Premium(m) == m = "grok"            \* never picked where a low price is promised
Junk(m) == m = "thinker"            \* excluded from every automatic pick
Routable(m) == m \notin {"codex-cli"} \* a label of the command line agents is no id

Unpriced == <<-1, -1, -1>>
Price(cat, m) ==
    IF Free(m) THEN <<0, 0, -1>> ELSE IF m \in DOMAIN cat THEN cat[m].price ELSE Unpriced

\* model_price_info: input and output must be known, and a fee per request is not cheap.
Class(cat, m) ==
    LET p == Price(cat, m)
        upTo(n) == p[1] \in 0 .. n /\ p[2] \in 0 .. n /\ p[3] \in {-1, 0}
    IN  IF Free(m) \/ upTo(0) THEN "free"
        ELSE IF upTo(1) THEN "cheap"
        ELSE IF p[1] >= 0 /\ p[2] >= 0 THEN "expensive" ELSE "unknown"

\* A tier or a profile that promises a low price.
Promise(t, profile) == t = "cheap" \/ profile = "cheap_learned"

-----------------------------------------------------------------------------
(* The catalog. *)

\* What the score weighs: the evidence of quality, the age and the price.
Weights == [cheap_learned |-> <<62, 20, 115>>, fast |-> <<58, 18, 95>>,
            balanced |-> <<100, 22, 38>>, best_quality |-> <<115, 14, 4>>]
Cost(p) == IF p[1] < 0 /\ p[2] < 0 THEN p[3]
           ELSE (IF p[1] > 0 THEN 55 * p[1] ELSE 0) + (IF p[2] > 0 THEN 45 * p[2] ELSE 0)
Score(cat, m, profile) ==
    LET w == Weights[profile]
    IN  cat[m].quality * w[1] + cat[m].created * w[2] - Cost(cat[m].price) * w[3]

\* A model without text, without a price or without evidence of quality has no score,
\* and a promised price is a boundary, not a weight.
\* Mutant of Scored: the price is only weighed.
Scored_Soft(cat, m, t, profile) ==
    /\ ~Free(m) /\ ~Junk(m) /\ cat[m].text /\ cat[m].price # Unpriced /\ cat[m].quality > 0
Scored(cat, m, t, profile) ==
    /\ ~Free(m) /\ ~Junk(m) /\ cat[m].text /\ cat[m].price # Unpriced /\ cat[m].quality > 0
    /\ Promise(t, profile) => ~Premium(m) /\ Class(cat, m) \in {"free", "cheap"}

Paid(cat, t, profile, noClaude) ==
    {m \in DOMAIN cat : Scored(cat, m, t, profile) /\ ~(noClaude /\ Claude(m))}
Best(cat, S, profile) == CHOOSE m \in S : \A n \in S : Score(cat, n, profile) <= Score(cat, m, profile)

FreeListed(cat) == {m \in DOMAIN cat : Free(m) /\ cat[m].text}

Family(m) == m                      \* an id names its family
InFamily(cat, family) == {m \in DOMAIN cat : Family(m) = family /\ ~Free(m) /\ ~Junk(m)}

\* live_catalog: a snapshot is kept for its time, through an error, and through an
\* answer that lists nothing; a fresh one feeds the list of free models too.
Fresh(l, at) == at > 0 /\ now - at < TTL
\* Mutant of LiveCatalog: an answer that lists nothing is a snapshot like another.
LiveCatalog_Any(l) ==
    IF Fresh(l, l.catAt) \/ (l.err > 0 /\ now = l.err) THEN l
    ELSE IF ~endpoint.up THEN [l EXCEPT !.err = now]
    ELSE [l EXCEPT !.cat = endpoint.list, !.catAt = now, !.err = 0,
                   !.seen = @ \/ endpoint.list # Empty]
LiveCatalog(l) ==
    IF Fresh(l, l.catAt) \/ (l.err > 0 /\ now = l.err) THEN l
    ELSE IF ~endpoint.up \/ (endpoint.list = Empty /\ l.cat # Empty) THEN [l EXCEPT !.err = now]
    ELSE LET new == [l EXCEPT !.cat = endpoint.list, !.catAt = now, !.err = 0]
         IN  IF endpoint.list = Empty THEN new
             ELSE [new EXCEPT !.seen = TRUE,
                              !.free = FreeListed(endpoint.list), !.freeAt = now]

LiveFree(l) ==
    IF Fresh(l, l.freeAt) \/ (l.freeErr > 0 /\ now = l.freeErr) THEN l
    ELSE IF l.cat # Empty /\ Fresh(l, l.catAt)
    THEN [l EXCEPT !.free = FreeListed(l.cat), !.freeAt = now]
    ELSE IF ~endpoint.up \/ (FreeListed(endpoint.list) = {} /\ l.free # {})
    THEN [l EXCEPT !.freeErr = now]
    ELSE [l EXCEPT !.free = FreeListed(endpoint.list), !.freeAt = now, !.freeErr = 0]

\* prime_live_catalog: a list is not replaced by nothing, nor by an older one.
Primed(l, list, stamp) ==
    IF list = Empty \/ stamp < l.catAt THEN l
    ELSE [l EXCEPT !.cat = list, !.catAt = stamp, !.seen = TRUE,
                   !.free = FreeListed(list), !.freeAt = stamp]

-----------------------------------------------------------------------------
(* A resolution: what it is asked in, e, holds the settings s, the cache c, the       *)
(* catalog it sees and whether it may look.  It gives a model and the cache after it. *)

\* auto_model_allowed: without a catalog, the last known cheap models stay allowed.
Allowed(e, m, t, profile) ==
    Promise(t, profile) =>
        /\ ~Premium(m)
        /\ \/ Class(e.cat, m) \in {"free", "cheap"}
           \/ Class(e.cat, m) = "unknown" /\ m \in Values(CheapOffline) /\ e.cat = Empty

Answer(m, c) == [model |-> m, cache |-> c, saved |-> FALSE]
Saved(m, c) == [model |-> m, cache |-> c, saved |-> TRUE]

\* A pick is kept for its tier, unless the tier is cheap and the pick is not.
Pick(e, t, m) ==
    IF Allowed(e, m, t, "balanced") THEN Saved(m, [e.c EXCEPT ![t] = m]) ELSE Answer(m, e.c)

\* _resolve_newest_model: the newest of a family, or what was kept for the tier if it
\* still passes, or a paid default; what does not pass is not kept any longer.
Newest(e, t, family, profile) ==
    LET found == InFamily(e.cat, family)
        old == e.c[t]
    IN  IF found # {}
        THEN LET m == CHOOSE m \in found : \A n \in found : e.cat[n].created <= e.cat[m].created
             IN  Pick(e, t, m)
        ELSE IF old # None /\ Allowed(e, old, t, profile) THEN Answer(old, e.c)
        ELSE LET m == IF Promise(t, profile) THEN CheapOffline[t] ELSE PaidOffline[t]
             IN  IF old = None THEN Answer(m, e.c) ELSE Saved(m, [e.c EXCEPT ![t] = None])

\* _default_model: the best of the catalog; where a low price is promised and the
\* catalog has none, a free model, and only without a catalog a last known cheap one.
\* Mutant of Default: a catalog without a cheap model is taken for none.
Default_Stale(e, t, profile) ==
    LET paid == Paid(e.cat, t, profile, e.s.no_claude)
    IN  IF e.s.free_only THEN Answer(FreeDefault[t], e.c)
        ELSE IF paid # {}
        THEN Pick(e, t, Best(e.cat, paid, profile))
        ELSE IF Promise(t, profile) THEN Answer(CheapOffline[t], e.c)
        ELSE Newest(e, t, PaidFamily[t], profile)
Default(e, t, profile) ==
    LET paid == Paid(e.cat, t, profile, e.s.no_claude)
    IN  IF e.s.free_only THEN Answer(FreeDefault[t], e.c)
        ELSE IF paid # {}
        THEN Pick(e, t, Best(e.cat, paid, profile))
        ELSE IF Promise(t, profile)
        THEN Answer(IF e.cat # Empty THEN OpenFree ELSE CheapOffline[t], e.c)
        ELSE Newest(e, t, PaidFamily[t], profile)

\* _apply_policy: without Claude the tier's default, and free only is free only.
Policy(e, a, t, profile) ==
    LET b == IF e.s.no_claude /\ Claude(a.model)
             THEN IF e.s.free_only THEN Answer(FreeDefault[t], a.cache)
                                   ELSE Default([e EXCEPT !.c = a.cache], t, profile)
             ELSE a
    IN  [b EXCEPT !.model = IF e.s.free_only /\ ~Free(b.model) THEN FreeDefault[t] ELSE @,
                  !.saved = @ \/ a.saved]

Pinned(t) == pin.source # None /\ pin.tier = t

\* resolve: a lock of the tier before its default; a runtime lock escapes every policy
\* but free only; a free model that the provider gave up is replaced by one it lists.
Base(e, t, profile) ==
    LET asked == IF ~Pinned(t) THEN Default(e, t, profile)
                 ELSE IF pin.kind = "newest" THEN Newest(e, t, pin.name, profile)
                 ELSE Answer(pin.name, e.c)
        held == IF Pinned(t) /\ pin.source = "runtime" /\ ~e.s.free_only THEN asked
                ELSE Policy(e, asked, t, profile)
    IN  IF e.s.free_only /\ e.looks /\ e.free # {} /\ held.model \notin e.free
        THEN [held EXCEPT !.model = CHOOSE m \in e.free : TRUE] ELSE held

\* The learned router: what won is preferred, if the policies admit it.
\* Mutant of Forbidden: a winner is not priced.
Forbidden_Unpriced(e, m, t, profile) ==
    \/ ~Routable(m) \/ (e.s.no_claude /\ Claude(m)) \/ (e.s.free_only /\ ~Free(m))
Forbidden(e, m, t, profile) ==
    \/ ~Routable(m) \/ (e.s.no_claude /\ Claude(m)) \/ (e.s.free_only /\ ~Free(m))
    \/ ~Allowed(e, m, t, profile)
Preferred(e, base, t, profile, learned) ==
    IF Pinned(t) \/ learned = None \/ Forbidden(e, learned, t, profile) THEN base
    ELSE [base EXCEPT !.model = learned]
Resolve(e, t, profile, learned) == Preferred(e, Base(e, t, profile), t, profile, learned)

\* _resolve_pinned_model: what the caller asks for, unless free only forbids it.
Called(e, t, profile, learned, asked) ==
    IF asked # None /\ (e.s.free_only => Free(asked)) THEN Answer(asked, e.c)
    ELSE Resolve(e, t, profile, learned)

\* fallback_candidates, as a set: the catalog's first, then the defaults of all tiers;
\* the caller leaves out the model that failed.
Candidates(e, t, profile) ==
    IF ~e.looks
    THEN IF e.s.free_only THEN Values(FreeDefault)
         ELSE {Default(e, u, profile).model : u \in Tier}
    ELSE IF e.s.free_only
    THEN FreeListed(e.cat) \cup Values(FreeDefault) \cup IF e.cat = Empty THEN e.free ELSE {}
    ELSE Paid(e.cat, t, profile, e.s.no_claude) \cup
         IF Promise(t, profile)
         THEN IF e.cat # Empty THEN FreeListed(e.cat) \cup {OpenFree} ELSE Values(CheapOffline)
         ELSE UNION {InFamily(e.cat, f) : f \in CoderFamilies}
              \cup {Default(e, u, profile).model : u \in Tier}
\* Mutant of Fallbacks: a candidate is not priced again.
Fallbacks_Unpriced(e, t, profile) ==
    {Policy(e, Answer(m, e.c), t, profile).model : m \in Candidates(e, t, profile)}
Fallbacks(e, t, profile) ==
    {m \in {Policy(e, Answer(n, e.c), t, profile).model : n \in Candidates(e, t, profile)} :
        Allowed(e, m, t, profile)}

\* The model of a call with an image, and whether the image is sent.
Vision(s, resolved, sees) ==
    IF sees THEN <<resolved, TRUE>>
    ELSE IF s.vision # None
    THEN IF s.no_claude /\ Claude(s.vision) THEN <<resolved, FALSE>> ELSE <<s.vision, TRUE>>
    ELSE IF s.free_only THEN <<resolved, FALSE>> ELSE <<"vision", TRUE>>

-----------------------------------------------------------------------------
(* Backends. *)

Priority == <<"codex_cli", "claude_cli">>
Key(s) == s.key

\* _resolve_backend: what cannot be used becomes the stub, never another provider.
Resolved(s, pref) ==
    LET usable == {i \in 1 .. Len(Priority) :
                      Priority[i] \in clis /\ ~(s.no_claude /\ Claude(Priority[i]))}
    IN  CASE pref = "stub" -> "stub"
          [] pref = "openrouter" -> IF Key(s) THEN "openrouter" ELSE "stub"
          [] pref \in {"codex_cli", "claude_cli"} ->
                IF pref \in clis /\ ~(s.no_claude /\ Claude(pref)) THEN pref ELSE "stub"
          [] OTHER -> IF usable # {} THEN Priority[CHOOSE i \in usable : \A j \in usable : i <= j]
                      ELSE IF s.opt_in /\ Key(s) THEN "openrouter" ELSE "stub"
Backend == Resolved(settings, settings.backend)

\* The backend of a build's code stage: the codegen pin, but never beside an offline
\* backend that was asked for.
\* Mutant of Codegen: a pin survives the offline backend.
Codegen_Unfenced(s) ==
    IF s.codegen = None THEN Resolved(s, s.backend)
    ELSE IF s.codegen \in clis THEN s.codegen ELSE "stub"
Codegen(s) ==
    IF s.codegen = None \/ s.backend = "stub" THEN Resolved(s, s.backend)
    ELSE IF s.codegen \in clis THEN s.codegen ELSE "stub"

\* explicit_routing_lock_error, of the route that is asked for, under the settings in force.
\* Mutant of Usable: an automatic backend needs no agent.
Usable_Auto(backend, codegen) ==
    /\ backend = "openrouter" => Key(settings)
    /\ backend \in {"codex_cli", "claude_cli"} => backend \in clis
    /\ codegen # None => codegen \in clis /\ ~(settings.no_claude /\ Claude(codegen))
Usable(backend, codegen) ==
    /\ backend = "openrouter" => Key(settings)
    /\ backend \in {"codex_cli", "claude_cli"} => backend \in clis
    /\ codegen # None => codegen \in clis /\ ~(settings.no_claude /\ Claude(codegen))
    /\ backend = "auto" => clis # {} \/ (settings.opt_in /\ Key(settings))

\* The router may look at the provider's catalog without being told to.
Consents(s) ==
    (s.backend = "openrouter" \/ (s.backend = "auto" /\ s.opt_in)) /\ Key(s)

-----------------------------------------------------------------------------
(* The steps. *)

\* What the endpoint would answer.
Answers == [up : {TRUE}, list : Catalogs] \cup {[up |-> FALSE, list |-> Empty]}

NoBuild == [at |-> "none"]
NoSnapshot == [cat |-> Empty, catAt |-> 0, seen |-> FALSE, free |-> {}, freeAt |-> 0, err |-> 0, freeErr |-> 0]

Init ==
    /\ now = 1 /\ endpoint \in Answers
    /\ live = NoSnapshot /\ web = [list |-> Empty, ts |-> 0]
    /\ settings \in Policies /\ clis = Installable /\ pin \in Pins
    /\ cache = [t \in Tier |-> None] /\ disk = cache /\ build = NoBuild /\ changes = 0

Tick == now < MaxTime /\ now' = now + 1
        /\ UNCHANGED <<endpoint, live, web, settings, clis, pin, cache, disk, build, changes>>

Changing == changes < MaxChanges /\ changes' = changes + 1
Provider ==
    /\ Changing /\ endpoint' \in Answers \ {endpoint}
    /\ UNCHANGED <<now, live, web, settings, clis, pin, cache, disk, build>>
Configure ==
    /\ Changing /\ settings' \in Policies \ {settings}
    /\ UNCHANGED <<now, endpoint, live, web, clis, pin, cache, disk, build>>
Install ==
    /\ Changing /\ clis' \in SUBSET Installable \ {clis}
    /\ UNCHANGED <<now, endpoint, live, web, settings, pin, cache, disk, build>>

\* The dashboard's catalog: a failure counts as a load of what it had.
Load ==
    /\ \/ /\ web.list # Empty /\ now = web.ts
          /\ live' = Primed(live, web.list, web.ts) /\ UNCHANGED web
       \/ /\ endpoint.up
          /\ web' = [list |-> endpoint.list, ts |-> now]
          /\ live' = Primed(live, endpoint.list, now)
       \/ /\ ~endpoint.up
          /\ live' = Primed(live, web.list, IF web.ts > 0 THEN web.ts ELSE now)
          /\ web' = [web EXCEPT !.ts = now]
    /\ UNCHANGED <<now, endpoint, settings, clis, pin, cache, disk, build, changes>>

\* Whose settings and whose cache a call has: the build's, or the client's.
Sides == {"client"} \cup IF build.at = "none" THEN {} ELSE {"build"}
SettingsOf(side) == IF side = "build" THEN build.settings ELSE settings
CacheOf(side) == IF side = "build" THEN build.cache ELSE cache

\* A call looks at the catalog for its default, a lock that is no free model, and a
\* list of the free ones.
Looked(s, t, looks) ==
    LET once == IF looks /\ (IF Pinned(t) THEN pin.kind = "newest" \/ ~Free(pin.name)
                                          ELSE ~s.free_only)
                THEN LiveCatalog(live) ELSE live
    IN  IF looks /\ s.free_only THEN LiveFree(once) ELSE once
Env(side, t, looks) ==
    LET l == Looked(SettingsOf(side), t, looks)
    IN  [s |-> SettingsOf(side), c |-> CacheOf(side), looks |-> looks, free |-> l.free,
         cat |-> IF looks THEN l.cat ELSE Empty]

\* A dispatch to OpenRouter looks, a label of another backend does not, and the
\* planner looks unless free only.
LooksOf(side) ==
    LET s == SettingsOf(side)
    IN  {(IF side = "build" THEN build.backend ELSE Backend) = "openrouter",
         ~s.free_only \/ Consents(s)}

\* A call is resolved: what it picks for a tier is kept, and the file is rewritten with
\* all that this router keeps.
Ask(side, t, profile) ==
    \E looks \in LooksOf(side) :
        LET a == Base(Env(side, t, looks), t, profile)
        IN  /\ live' = Looked(SettingsOf(side), t, looks)
            /\ disk' = IF a.saved THEN a.cache ELSE disk
            /\ IF side = "build" THEN build' = [build EXCEPT !.cache = a.cache] /\ UNCHANGED cache
                                 ELSE cache' = a.cache /\ UNCHANGED build
    /\ UNCHANGED <<now, endpoint, web, settings, clis, pin, changes>>

\* A build keeps the route it is submitted with, and begins if that can still be used.
Locked(s) == IF s.backend = "stub" THEN None ELSE s.codegen
Submit ==
    /\ build.at = "none" /\ Usable(settings.backend, settings.codegen)
    /\ build' = [at |-> "submitted", settings |-> settings, cache |-> cache,
                 backend |-> Backend, codegen |-> Codegen(settings)]
    /\ UNCHANGED <<now, endpoint, live, web, settings, clis, pin, cache, disk, changes>>
Begin ==
    /\ build.at = "submitted"
    /\ build' = IF Usable(build.settings.backend, Locked(build.settings))
                THEN [build EXCEPT !.at = "running"] ELSE NoBuild
    /\ UNCHANGED <<now, endpoint, live, web, settings, clis, pin, cache, disk, changes>>
End ==
    /\ build.at = "running" /\ build' = NoBuild
    /\ UNCHANGED <<now, endpoint, live, web, settings, clis, pin, cache, disk, changes>>

Restart ==
    /\ Changing /\ live' = NoSnapshot /\ web' = [list |-> Empty, ts |-> 0]
    /\ cache' = disk /\ build' = NoBuild
    /\ UNCHANGED <<now, endpoint, settings, clis, pin, disk>>

Next ==
    \/ Tick \/ Provider \/ Configure \/ Install \/ Load \/ Submit \/ Begin \/ End \/ Restart
    \/ \E side \in Sides, asked \in Asked : Ask(side, asked[1], asked[2])

Spec == Init /\ [][Next]_vars

-----------------------------------------------------------------------------
TypeOK ==
    /\ now \in 1 .. MaxTime /\ changes \in 0 .. MaxChanges
    /\ live.catAt \in 0 .. now /\ live.freeAt \in 0 .. now /\ web.ts \in 0 .. now
    /\ settings \in Policies /\ DOMAIN cache = Tier /\ DOMAIN disk = Tier

\* Every answer that can be given now: of a side, to a tier and a profile, with or
\* without a look, whatever won before; P has the answers, and what may replace them.
Learnable == {None, "claude", "grok", "glm", "flash", "coder:free", "codex-cli"}
Everywhere(P(_, _, _, _, _)) ==
    \A side \in Sides, asked \in Asked :
        \A looks \in LooksOf(side) :
            LET t == asked[1]
                profile == asked[2]
                e == Env(side, t, looks)
                base == Base(e, t, profile)
                answers == {Preferred(e, base, t, profile, learned).model : learned \in Learnable}
            IN  P(e, t, profile, answers, Fallbacks(e, t, profile))

\* Free only is free only: of every answer and of every fallback, whatever is locked,
\* kept, learned or listed, and though the settings changed since it was kept.
FreeStaysFree(e, t, profile, answers, others) ==
    e.s.free_only =>
        /\ \A n \in answers \cup others : Free(n)
        /\ \A n \in {"claude", "coder:free"} : Free(Called(e, t, profile, None, n).model)

\* Where a low price is promised and nothing is locked, what is called is free, or
\* cheap by the catalog in hand, or without one among the last known cheap models.
PriceKept(e, t, profile, answers, others) ==
    Promise(t, profile) =>
        \A n \in others \cup IF Pinned(t) THEN {} ELSE answers :
            \/ Class(e.cat, n) \in {"free", "cheap"} /\ ~Premium(n)
            \/ e.cat = Empty /\ n \in Values(CheapOffline)

\* Without Claude no model of it is called, unless a lock names it, or the tier kept
\* it from before and no catalog is at hand.
ClaudeAvoided(e, t, profile, answers, others) ==
    e.s.no_claude => \A n \in answers \cup others :
        Claude(n) => (Pinned(t) /\ n \in answers) \/ Claude(e.c[t])

\* When a model fails and no catalog is at hand, a free or cheap route has another.
SomethingLeft(e, t, profile, answers, others) ==
    e.looks /\ e.cat = Empty /\ (e.s.free_only \/ Promise(t, profile))
        => \A m \in answers : others \ {m} # {}

\* Nor does its image go to Claude, nor its build, by the backend or the pin it was
\* submitted with.
AgentAvoided ==
    /\ \A side \in Sides : SettingsOf(side).no_claude =>
          ~Claude(Vision(SettingsOf(side), "coder:free", FALSE)[1])
    /\ build.at # "none" /\ build.settings.no_claude =>
          ~Claude(build.backend) /\ ~Claude(build.codegen)

\* A catalog that was seen is not lost to an outage or an answer that lists nothing.
SnapshotKept == live.seen => live.cat # Empty

\* An offline build launches no agent; and a build that began is offline only if that
\* was asked for, or if its only agent is Claude, which is not paid for.
AdmittedRuns ==
    build.at = "running" =>
        /\ build.settings.backend = "stub" => {build.backend, build.codegen} = {"stub"}
        /\ build.codegen = "stub" =>
              build.settings.backend = "stub" \/ build.settings.no_claude

RouteHolds ==
    /\ Everywhere(LAMBDA e, t, profile, answers, others :
          /\ FreeStaysFree(e, t, profile, answers, others)
          /\ PriceKept(e, t, profile, answers, others)
          /\ ClaudeAvoided(e, t, profile, answers, others)
          /\ SomethingLeft(e, t, profile, answers, others))
    /\ AgentAvoided /\ SnapshotKept /\ AdmittedRuns
=============================================================================
