--------------------------- MODULE MCPoolHandoff ----------------------------
(* Documents for PoolHandoff: the two fixtures, and what becomes of them     *)
(* when a need, a condition or a piece of wiring changes.                    *)
EXTENDS PoolHandoff

CONSTANTS pool_job, w1, w2, t1, gate, r1, r2

WithNeeds(gated, n2, nt) ==
    [j \in Job |->
        IF j = pool_job THEN gated
        ELSE IF j = w1 THEN {pool_job}
        ELSE IF j = w2 THEN n2
        ELSE IF j = t1 THEN nt ELSE {}]

WithConds(ofPool, ofWork, ofClose) ==
    [j \in Job |->
        IF j = pool_job THEN ofPool
        ELSE IF j = w1 THEN ofWork
        ELSE IF j \in Closer THEN ofClose ELSE {}]

Gated(cond) == [needs |-> {gate}, cond |-> cond]
Ungated == [needs |-> {}, cond |-> {}]

Gates == {Ungated} \cup {Gated(c) : c \in {{"not_cancelled"}, {"always"}, {}}}
OddGates ==
    {Gated(c) : c \in {{"cancelled"}, {"not_failure"}, {"success"}, {"not_cancelled", "other"}}}
Siblings == {{pool_job}, {pool_job, gate}, {pool_job, w1}}

CallersWith(gates, works, closes, name) ==
    {[needs |-> WithNeeds(g.needs, n2, nt),
      cond |-> WithConds(g.cond, cw, ct),
      named |-> [k \in Closer |-> name],
      receives |-> [k \in Closer |-> rc],
      agrees |-> [k \in Closer |-> TRUE]] :
        g \in gates, n2 \in Siblings,
        nt \in {{pool_job, w1, w2}, {pool_job, w1}},
        cw \in works, ct \in closes, rc \in BOOLEAN}
Closes ==
    {{"always"}, {"always", "identity"}, {"always", "not_cancelled"},
     {"always", "producer_failed"}, {}}
FixtureCallers ==
    CallersWith(Gates, {{}}, Closes, TRUE)
    \cup CallersWith(Gates, {{"always"}}, {{"always"}, {"always", "not_cancelled"}}, TRUE)
    \cup CallersWith(Gates, {{}}, {{"always", "work_succeeded"}}, FALSE)
    \cup CallersWith(OddGates, {{}}, {{"always"}}, TRUE)

-----------------------------------------------------------------------------
Rollbacks ==
    {[there |-> TRUE, canonical |-> TRUE, needs |-> TRUE, cond |-> c, receives |-> rc] :
        c \in {{"always", "producer_failed"}, {"always"}, {"failure"}},
        rc \in BOOLEAN}
ProofCloser ==
    [there |-> TRUE, canonical |-> TRUE, needs |-> TRUE,
     cond |-> {"always", "manual", "identity"}, receives |-> TRUE]
NoCloser ==
    [there |-> FALSE, canonical |-> FALSE, needs |-> FALSE, cond |-> {},
     receives |-> FALSE]

(* The run block: what the rule sees of it, and what it does.                *)
Seen == {"this"} \X {"level", "deeper"} \X {"nothing", "escape", "command"}
Unseen == {<<"none", "never", "nothing">>, <<"other", "deeper", "nothing">>}

PoolsWith(blocks, closers) ==
    {[output |-> o, exports |-> x, seen |-> b[1], emits |-> b[2], between |-> b[3],
      dispatchOnly |-> d, closer |-> [k \in Inner |-> IF k = r1 THEN c1 ELSE c2]] :
        o \in {"absent", "unresolved", "producer"}, x \in BOOLEAN, b \in blocks,
        d \in BOOLEAN, c1 \in Rollbacks, c2 \in closers}
FixturePools == PoolsWith(Seen, {NoCloser, ProofCloser})
    \cup {p \in PoolsWith(Unseen, {NoCloser}) : p.dispatchOnly}
=============================================================================
