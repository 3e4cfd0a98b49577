---- MODULE MCAgentHome ----
EXTENDS AgentHome

Segments == {<<Text(1)>>, Block("rules", 0), Block("notes", 1), Block("retired", 0),
             <<Begin("rules")>>, <<End("rules")>>, <<End("retired")>>,
             <<Begin("rules"), Text(2), Begin("notes"), End("rules"), End("notes")>>}
Markdowns(n) == {FlattenSeq(s) : s \in UNION {[1..k -> Segments] : k \in 0..n}}
Before == <<Text(1)>> \o Block("retired", 0)
Orders == {<<"retired", "rules", "notes">>, <<"notes", "retired", "rules">>}

(* In the last lines of each, a line in a value looks like something else. *)
Stanzas ==
  {<<Table(<<"features">>), OpenKey("memories", <<"mine", 0>>), Rest, Close>>,
   <<Table(<<"features">>), Note, Key("memories", <<"mine", 0>>), Key("other", <<"mine", 0>>)>>,
   <<Table(<<"memories">>)>>,
   <<Table(<<"memories">>), Key("use", <<"use", 0>>), Note>>,
   <<Table(<<"mcp", "vinsight">>), Key("command", <<"mine", 0>>)>>,
   <<Table(<<"mcp", "vinsight", "write">>), OpenKey("approve", <<"mine", 0>>), Close>>,
   <<Table(<<"mcp", "vinsights">>), Key("command", <<"mine", 0>>), Note>>,
   <<Table(<<"tail">>), OpenKey("text", <<"mine", 0>>), Key("use", <<"mine", 1>>), Close>>,
   <<Table(<<"tail">>), OpenKey("text", <<"mine", 0>>), Table(<<"mcp", "vinsight">>), Close>>,
   <<Table(<<"memories">>), OpenKey("text", <<"mine", 0>>), Key("use", <<"mine", 1>>), Close>>,
   <<Table(<<"features">>), OpenKey("memories", <<"mine", 0>>), OpenKey("other", <<"mine", 0>>)>>,
   <<Table(<<"memories">>), OpenKey("use", <<"mine", 0>>), OpenKey("other", <<"mine", 0>>)>>}
Roots == {<<>>, <<Note, Key("model", <<"mine", 0>>)>>, <<Key("notify", <<"notify", 0>>)>>,
          <<OpenKey("model", <<"mine", 0>>), Rest, Close>>, <<Key("notify", <<"mine", 0>>)>>,
          <<OpenKey("model", <<"mine", 0>>), Table(<<"features">>), Close>>}
Tomls == {t \in {r \o FlattenSeq(s) : r \in Roots, s \in UNION {[1..k -> Stanzas] : k \in 0..3}} : Valid(t)}

Groups == {[matcher |-> m, hooks |-> h] : m \in {"any", "Bash"},
            h \in {<<Notify(0)>>, <<Other(1), Notify(1)>>, <<LegacyPing>>, <<Other(2), LegacyPing>>}}
Lists == {<<>>} \cup {<<g>> : g \in Groups} \cup {<<g, h>> : g, h \in Groups}
Docs == {[rendered |-> b, hooks |-> [e \in Asking \cup Turns |-> IF e = f THEN l ELSE k]] :
          b \in BOOLEAN, f \in {"PermissionRequest", "Notification", "Stop"}, l \in Lists, k \in {<<>>, <<[matcher |-> "any", hooks |-> <<Other(3)>>]>>}}
AnyDoc == CHOOSE d \in Docs : TRUE

Budget(starts, writes, kills) == [starts |-> starts, writes |-> writes, kills |-> kills]
MCScenarios ==
  { [kind |-> "markdown", jobs |-> Orders, files |-> Markdowns(3) \cup {Symlink}, left |-> Budget(1, 0, 0)],
    [kind |-> "markdown", jobs |-> {<<"retired", "rules">>}, files |-> {<<>>, Before},
       left |-> Budget(1, 2, 1)],
    [kind |-> "markdown", jobs |-> {<<"retired", "rules">>}, files |-> {Before},
       left |-> Budget(2, 1, 1)],
    [kind |-> "markdown", jobs |-> {<<"retired", "rules">>}, files |-> {Before},
       left |-> Budget(2, 0, 2)],
    [kind |-> "toml", jobs |-> {<<"settings">>}, files |-> Tomls, left |-> Budget(1, 0, 0)],
    [kind |-> "codex", jobs |-> {<<"hooks">>}, files |-> Docs, left |-> Budget(1, 0, 0)],
    [kind |-> "claude", jobs |-> {<<"hooks">>}, files |-> Docs, left |-> Budget(1, 0, 0)],
    [kind |-> "claude", jobs |-> {<<"hooks">>}, files |-> {AnyDoc}, left |-> Budget(0, 0, 0)] }
MCManaged == <<<<<<>>, "notify">>, <<<<"features">>, "memories">>, <<<<"memories">>, "use">>>>
MCRetired == <<<<"mcp", "vinsight">>>>

Limit(days, writes, prompts, runs, kills) ==
  [days |-> days, writes |-> writes, prompts |-> prompts, runs |-> runs, kills |-> kills]
MCLimits ==
  {Limit(0, 0, 0, 0, 0), Limit(6, 2, 0, 3, 0), Limit(6, 1, 0, 3, 1), Limit(6, 0, 2, 2, 1)}
====
