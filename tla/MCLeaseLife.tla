----------------------------- MODULE MCLeaseLife -----------------------------
(* Gates and deployments, files that deploy a runner, alone and beside      *)
(* another one, and workflows that clean up: each differs from a good one   *)
(* in what one rule looks at.                                               *)
EXTENDS LeaseLife

CONSTANTS p1, p2

MCProvider == {p1, p2}
MCFleet == {p1}

GoodGate == [kind |-> "funding", parses |-> TRUE, how |-> "primitive", quantity |-> "right",
             apart |-> FALSE, names |-> TRUE, needs |-> {}, waits |-> TRUE, words |-> TRUE,
             threshold |-> "literal", failed |-> "told"]

GoodDeploy == [via |-> "pool", as |-> "command", named |-> {}, preferred |-> {p1},
               denied |-> {p2}, select |-> "emptiest", source |-> "stamped",
               agrees |-> TRUE, ranked |-> "no"]

(* The gate's job behind the preflight's, at one remove, or behind nothing. *)
Behind == {{}, {<<"gate", "preflight">>}, {<<"gate", "helper">>, <<"helper", "preflight">>},
           {<<"helper", "preflight">>}}

Gates ==
    {GoodGate, [GoodGate EXCEPT !.parses = FALSE]}
    \cup {[GoodGate EXCEPT !.kind = k, !.how = "output", !.names = FALSE, !.needs = b] :
            k \in {"funding", "capacity"}, b \in Behind \ {{}}}
    \cup {[GoodGate EXCEPT !.kind = k, !.how = h, !.quantity = q, !.apart = a, !.names = n,
                           !.needs = b] :
            k \in {"funding", "capacity"}, h \in {"level", "projection"},
            q \in {"right", "other"}, a \in BOOLEAN, n \in BOOLEAN, b \in Behind}
    \cup {[GoodGate EXCEPT !.how = "projection", !.waits = w, !.words = o] :
            w \in BOOLEAN, o \in BOOLEAN}
    \cup {[GoodGate EXCEPT !.how = "level", !.threshold = t] :
            t \in {"validated", "bare", "braced", "another_validated"}}
    \cup {[GoodGate EXCEPT !.kind = k, !.how = h, !.apart = a, !.names = n, !.needs = b,
                           !.failed = v] :
            k \in {"funding", "capacity"}, h \in {"primitive", "output", "level", "projection"},
            a \in BOOLEAN, n \in BOOLEAN, b \in {{}, {<<"gate", "preflight">>}},
            v \in {"allow", "refuse"}}

Deploys ==
    {[GoodDeploy EXCEPT !.via = v, !.select = s, !.source = o, !.agrees = a, !.ranked = r] :
        v \in {"pool", "direct"}, s \in {"emptiest", "other"},
        o \in {"stamped", "unstamped", "floating"}, a \in BOOLEAN, r \in {"no", "known"}}
    \cup {[GoodDeploy EXCEPT !.via = v, !.as = w, !.select = s, !.ranked = r] :
            v \in {"pool", "direct"}, w \in {"command", "behind", "unparsed"},
            s \in {"emptiest", "other"}, r \in {"no", "other"}}
    \cup {[GoodDeploy EXCEPT !.preferred = f, !.denied = e] :
            f \in SUBSET MCProvider, e \in SUBSET MCProvider}
    \cup {[GoodDeploy EXCEPT !.via = "direct", !.named = n, !.select = "other"] :
            n \in SUBSET MCProvider}
    \cup {[GoodDeploy EXCEPT !.via = "script"]}

MCPlans ==
    {[gate |-> g, deploys |-> {GoodDeploy}] : g \in Gates}
    \cup {[gate |-> GoodGate, deploys |-> {d}] : d \in Deploys}
    \cup {[gate |-> GoodGate, deploys |-> {GoodDeploy, d}] : d \in Deploys}

-----------------------------------------------------------------------------
(* old: before the distrust, at the floor; new: after it; stale: after it,  *)
(* below the floor; late: published from an old branch after the list.      *)
MCDigest == {"old", "new", "stale", "late"}
MCFixed == {"new", "stale"}
MCDenyList == {"old"}
MCBinary == [d \in MCDigest |-> IF d = "stale" THEN 1 ELSE 2]
MCFloors == {<<"myoung34", "github-runner">>}

MCNames == {<<"myoung34", "github-runner">>, <<"registry", "myoung34", "github-runner">>,
            <<"notmyoung34", "github-runner">>, <<"mirror", "runner">>}

MCRefs == [name: MCNames, tag: {0, 1, 2}, digest: MCDigest \cup {None}, at: {"code"}]

Pinned(d, at) == [name |-> <<"myoung34", "github-runner">>, tag |-> 2, digest |-> d, at |-> at]

Base == [place |-> "workflow", parses |-> TRUE, refs |-> {Pinned("new", "code")},
         runner |-> TRUE, disable |-> "absent", policy |-> "always",
         restarts |-> {}, reads |-> {1}, projects |-> {2}, acts |-> TRUE]

Places == {"workflow", "nested", "sdl", "code", "test", "other"}

(* What the image rules look at.                                            *)
ImageFiles ==
    {[Base EXCEPT !.place = p, !.refs = {r}] : p \in Places, r \in MCRefs}
    \cup {[Base EXCEPT !.place = p, !.refs = {Pinned("new", "code"), Pinned(d, at)}] :
            p \in {"workflow", "code"}, d \in {"old", "new"},
            at \in {"code", "quoted", "comment", "trailing", "allowed", "control"}}
    \cup {[Base EXCEPT !.place = "code", !.refs = {Pinned("old", "allowed"), Pinned("old", "code")}]}

(* What the other two look at.                                              *)
PumpFiles ==
    {f \in {[Base EXCEPT !.place = p, !.disable = d, !.policy = q, !.restarts = R,
                         !.reads = l, !.projects = v, !.acts = a] :
              p \in {"workflow", "code"}, d \in {"comment", "item", "mapping", "quoted"},
              q \in {"always", "on-failure", "no"},
              R \in {{}, {"always"}, {"on-failure"}, {"no"}},
              l \in {{}, {1}}, v \in {{2}, {9}}, a \in BOOLEAN} :
        f.policy = "always" \/ f.policy \in f.restarts}

Beside == {[Base EXCEPT !.place = "sdl"],
           [Base EXCEPT !.runner = FALSE, !.refs = {}, !.parses = FALSE]}

MCRepos == {{f} : f \in ImageFiles \cup PumpFiles}
           \cup {{f, g} : f \in PumpFiles, g \in Beside}

-----------------------------------------------------------------------------
SafeMode == [guard |-> "none", input |-> "==true", default |-> "none",
             literal |-> "true", grouped |-> FALSE, place |-> "braces"]
GoodFlow == [shape |-> "reaper", on |-> {"schedule", "dispatch"}, dseqs |-> "absent",
         flag |-> "execute", mode |-> [SafeMode EXCEPT !.input = "none", !.default = "true"],
         lists |-> "leases", list |-> "plain", install |-> "loud", target |-> "tool",
         via |-> "tool", close |-> "plain"]
(* The literal is that of an expression that asks for a schedule; where a   *)
(* guard is not false the parentheses change nothing.                       *)
Modes == {m \in Expr :
            /\ m.guard = "==schedule" \/ m.literal = "true"
            /\ m.guard \in {"==dispatch", "!=schedule&&"} \/ ~m.grouped}

MCFlows ==
    {[GoodFlow EXCEPT !.shape = s, !.on = o, !.dseqs = d] :
        s \in {"reaper", "close-orphans", "other"}, o \in SUBSET {"schedule", "dispatch", "call"},
        d \in {"required", "default", "absent"}}
    \cup {[GoodFlow EXCEPT !.flag = f, !.mode = m] : f \in {"dry_run", "execute"}, m \in Modes}
    \cup {f \in {[GoodFlow EXCEPT !.lists = k, !.list = l, !.install = i, !.target = t,
                              !.via = v, !.close = c] :
                   k \in {"runners", "leases"}, l \in ListForm,
                   i \in {"none", "loud", "silenced"}, t \in {"tool", "opaque", "other"},
                   v \in {"tool", "curl"},
                   c \in SilencedClose \cup MissedClose \cup AnnouncedClose \cup FailingClose} :
            /\ f.lists = "runners" => f.install = "none" /\ f.via = "tool"
            /\ f.install = "none" \/ f.list = "plain"
            /\ f.target = "tool" \/ f.install = "silenced"
            /\ f.via = "curl" => f.install = "none" /\ f.close # "when_installed"}
=============================================================================
