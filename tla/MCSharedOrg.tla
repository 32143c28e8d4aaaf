---------------------------- MODULE MCSharedOrg ----------------------------
(* Instances of SharedOrg for TLC: three literals, one of them an extension *)
(* of another, and a catalogue of workflows the rules tell apart.           *)
EXTENDS SharedOrg

Letters == {"a", "b"}
A  == <<"a">>
AB == <<"a", "b">>
B  == <<"b">>
Literals == {A, AB, B}
Names == {<<"a", "a">>, <<"a", "b">>, <<"b", "a">>}

(* A list of entries, and one with white space before the second.           *)
All(ps) == [k \in 1..Len(ps) |-> [p |-> ps[k], spaced |-> FALSE]]
Spaced(p, q) == <<[p |-> p, spaced |-> FALSE], [p |-> q, spaced |-> TRUE]>>

Idle == [reads |-> "ok", on |-> {}, creates |-> FALSE, emits |-> {},
         reaper |-> "none", scope |-> "literal", prefixes |-> <<>>,
         export |-> "no_secret", dryRun |-> FALSE, orgText |-> FALSE]

Maker(ps) == [Idle EXCEPT !.creates = TRUE, !.emits = ps, !.orgText = TRUE]
QuietMaker(ps) == [Maker(ps) EXCEPT !.orgText = FALSE]

Cron(list) ==
    [Idle EXCEPT !.on = {"schedule"}, !.reaper = "pinned", !.prefixes = list]
Local(list) == [Cron(list) EXCEPT !.reaper = "safe", !.orgText = TRUE]
SweepsAll   == [Local(<<>>) EXCEPT !.scope = "everything"]
Unsafe(list) == [Local(list) EXCEPT !.reaper = "unsafe"]
Elsewhere(list) == [Local(list) EXCEPT !.reaper = "elsewhere"]
Reports(list) == [Cron(list) EXCEPT !.dryRun = TRUE]
FromVariable(list) == [Cron(list) EXCEPT !.scope = "expression"]
Export(list, how) ==
    [Cron(list) EXCEPT !.on = {"workflow_call"}, !.export = how]
Teardown(list) == [Local(list) EXCEPT !.on = {"workflow_call"}]

-----------------------------------------------------------------------------
(* One of everything; those the enforced rules refuse never merge.          *)
Catalogue ==
    {{Maker({A}), Cron(All(<<A>>))},
     {Maker({A}), Cron(All(<<AB>>))},
     {Maker({AB}), Cron(All(<<AB>>))},
     {Maker({B}), Cron(Spaced(B, A))},
     {Maker({B}), Local(All(<<B>>))},
     {Maker({B}), SweepsAll},
     {Maker({B}), Elsewhere(All(<<B>>))},
     {Maker({B}), Cron(All(<<B>>)), Unsafe(All(<<B>>))},
     {Maker({A}), FromVariable(All(<<A>>))},
     {Maker({}), Cron(All(<<B>>))},
     {QuietMaker({A}), Cron(All(<<A>>))},
     {Maker({A}), Export(All(<<A>>), "ok")},
     {Maker({A}), Export(All(<<A>>), "own_secret")},
     {Maker({A}), [Cron(All(<<A>>)) EXCEPT !.reaper = "moving"]},
     {Maker({A}), [Cron(All(<<A>>)) EXCEPT !.reads = "unparsed"]},
     {Maker({A, B}), Cron(All(<<B>>)), Teardown(All(<<A>>))},
     {Maker({B}), Reports(All(<<B>>))}}
=============================================================================
