---------------------------- MODULE ManagedMerges ----------------------------
(***************************************************************************)
(* The merges a home activation makes into files that an agent owns:       *)
(*   scripts/merge-markdown-block.py     a block between markers           *)
(*   scripts/merge-toml-settings.py      keys, line by line                *)
(*   scripts/merge-codex-notification-hooks.py,                            *)
(*   scripts/merge-claude-notification-hooks.py    hook handlers           *)
(* and what scripts/remove-codex-compound-engineering.py takes out.        *)
(* A generation of the managed configuration is a number; a user's own     *)
(* text, keys and handlers are ids.  Blank lines and quoting are left out. *)
(***************************************************************************)
EXTENDS Sublists, SequencesExt

CONSTANTS
  Refused,     \* the merge raises
  Generation,  \* the generations of the managed configuration
  Managed,     \* TOML: sequence of <<section, key>> to set, in order
  Retired,     \* TOML: sections to remove, as sequences of their parts
  NotifyKey    \* TOML: the root key that may hold somebody else's command

-----------------------------------------------------------------------------
(* Markdown: a file is a sequence of marks.                                *)

Text(t) == [at |-> "text", of |-> t]
Begin(name) == [at |-> "begin", of |-> name]
End(name) == [at |-> "end", of |-> name]
Body(name, gen) == [at |-> "body", of |-> <<name, gen>>]
Block(name, gen) == <<Begin(name), Body(name, gen), End(name)>>
Marks == [at : {"text"}, of : Nat] \cup [at : {"begin", "end"}, of : STRING]
          \cup [at : {"body"}, of : STRING \X Generation]

Places(file, mark) == {i \in DOMAIN file : file[i] = mark}
Balanced(file, name) ==
  Cardinality(Places(file, Begin(name))) = Cardinality(Places(file, End(name)))
(* Reading on, a begin always meets its end before another begin.          *)
InOrder(file, name) ==
  \A i \in Places(file, Begin(name)) : \E e \in Places(file, End(name)) :
    i < e /\ \A b \in Places(file, Begin(name)) : b \in i..e => b = i

(* The markers and what is between: from a begin to the first end after.   *)
Covered(file, name) ==
  {i \in DOMAIN file : \E b \in Places(file, Begin(name)) : \E e \in Places(file, End(name)) :
     i \in b..e /\ \A f \in Places(file, End(name)) : f > b => f >= e}
Without(file, name, first) ==
  LET gone == Covered(file, name)
      start == Min(gone)
  IN  IF gone = {} THEN file
      ELSE SubSeq(file, 1, start - 1) \o first
             \o Sublist(file, {i \in DOMAIN file : i > start /\ i \notin gone})

(* The first block gives its place to the new one, the others go.          *)
MergeAnyway(file, name, gen) ==
  file \o Block(name, gen)
MergeBlock(file, name, gen) ==
  IF ~(Balanced(file, name) /\ InOrder(file, name)) THEN Refused
  ELSE IF Places(file, Begin(name)) = {} THEN file \o Block(name, gen)
  ELSE Without(file, name, Block(name, gen))

RemoveBlock(file, name) ==
  IF Balanced(file, name) THEN Without(file, name, <<>>) ELSE Refused
-----------------------------------------------------------------------------
(* TOML: a file is a sequence of lines, each what the script's patterns    *)
(* take it for: a table's header, a key's value, a note, or some of a      *)
(* value.  A line that turns has the quotes or the bracket that open or    *)
(* close a value of several lines.  In such a value any line may stand,    *)
(* and look like a header or a key.  Quoted and dotted keys, inline tables *)
(* and arrays of tables are left out.                                      *)

Table(name) == [at |-> "table", of |-> name, turns |-> FALSE]
Key(key, val) == [at |-> "key", of |-> key, val |-> val, turns |-> FALSE]
OpenKey(key, val) == [Key(key, val) EXCEPT !.turns = TRUE]
Rest == [at |-> "rest", turns |-> FALSE]
Close == [at |-> "rest", turns |-> TRUE]
Note == [at |-> "note", turns |-> FALSE]
TableName == Seq(STRING) \ {<<>>}
TomlLine == [at : {"table"}, of : TableName, turns : {FALSE}]
            \cup [at : {"key"}, of : STRING, val : STRING \X (Nat \cup Generation), turns : BOOLEAN]
            \cup {Rest, Close, Note}

(* TABLE_RE and key_re: the lines that look like it. *)
Headers(lines) == {i \in DOMAIN lines : lines[i].at = "table"}
HeaderOf(lines, i) == Max({0} \cup {h \in Headers(lines) : h <= i})
TableOf(lines, i) == IF HeaderOf(lines, i) = 0 THEN <<>> ELSE lines[HeaderOf(lines, i)].of
KeyLines(lines) == {i \in DOMAIN lines : lines[i].at = "key"}

(* What tomllib makes of it: below which lines a value goes on, and so     *)
(* which lines are in one; the headers and the keys are the others.        *)
GoesOn(lines) ==
  LET on[n \in 0..Len(lines)] == n # 0 /\ (lines[n].turns <=> ~on[n - 1]) IN on
Inside(lines) == {i \in DOMAIN lines : GoesOn(lines)[i - 1]}
RealHeaders(lines) == Headers(lines) \ Inside(lines)
RealKeys(lines) == KeyLines(lines) \ Inside(lines)
RealTable(lines, i) ==
  LET h == Max({0} \cup {x \in RealHeaders(lines) : x <= i})
  IN  IF h = 0 THEN <<>> ELSE lines[h].of

Valid(lines) ==
  /\ \A i, j \in RealHeaders(lines) : lines[i].of = lines[j].of => i = j
  /\ \A i, j \in RealKeys(lines) :
       (lines[i].of = lines[j].of /\ RealTable(lines, i) = RealTable(lines, j)) => i = j
  /\ \A i \in DOMAIN lines \ Inside(lines) : lines[i].at # "rest"
  /\ ~GoesOn(lines)[Len(lines)]

(* The lines of a value below its key's. *)
Below(lines, i) ==
  [d \in {n \in 1..(Len(lines) - i) : \A x \in i..(i + n - 1) : GoesOn(lines)[x]} |-> lines[i + d]]
Values(lines) ==
  [k \in {<<RealTable(lines, i), lines[i].of>> : i \in RealKeys(lines)} |->
     LET i == CHOOSE n \in RealKeys(lines) : <<RealTable(lines, n), lines[n].of>> = k
     IN  <<lines[i].val, Below(lines, i)>>]

ManagedValue(key, gen) == <<key, gen>>

(* Exactly the retired tables and their descendants. *)
ExactlyRetired(name) == name \in Range(Retired)
IsRetired(name) == \E s \in Range(Retired) : IsPrefix(s, name)
(* What is managed is not retired as well (home/utils/common.nix).         *)
ASSUME ManagedAssumption ==
  /\ Managed \in Seq(Seq(STRING) \X STRING) /\ Retired \in Seq(TableName)
  /\ \A m \in Range(Managed) : ~IsRetired(m[1])

RemoveTables(lines) ==
  Sublist(lines, {i \in DOMAIN lines : HeaderOf(lines, i) = 0 \/ ~IsRetired(TableOf(lines, i))})

(* The lines of a section: below its first header, or above all headers    *)
(* for the root (table_bounds).                                            *)
FirstHeader(lines, section) ==
  IF section = <<>> THEN 0 ELSE Min({i \in DOMAIN lines : lines[i] = Table(section)})
SectionLines(lines, section) ==
  {i \in DOMAIN lines : HeaderOf(lines, i) = FirstHeader(lines, section)} \ {FirstHeader(lines, section)}
WithSection(lines, section) ==
  IF section = <<>> \/ \E i \in DOMAIN lines : lines[i] = Table(section)
  THEN lines ELSE Append(lines, Table(section))
SetKey(lines, section, key, gen) ==
  LET here == WithSection(lines, section)
      old == {i \in SectionLines(here, section) : here[i].at = "key" /\ here[i].of = key}
      new == Key(key, ManagedValue(key, gen))
      end == Max({FirstHeader(here, section)} \cup SectionLines(here, section))
  IN  IF old # {} THEN ReplaceAt(here, Min(old), new) ELSE InsertAt(here, end + 1, new)

(* Somebody's own notify command is not replaced, nor is a file replaced   *)
(* by one that does not parse.                                             *)
Unrelated(lines) ==
  LET notify == <<<<>>, NotifyKey>>
  IN  notify \in Range(Managed) /\ notify \in DOMAIN Values(lines) /\
      Values(lines)[notify][1] \notin {ManagedValue(NotifyKey, g) : g \in Generation}
SetAll(lines, gen) ==
  LET after[n \in 0..Len(Managed)] ==
        IF n = 0 THEN RemoveTables(lines) ELSE SetKey(after[n - 1], Managed[n][1], Managed[n][2], gen)
  IN  after[Len(Managed)]
MergeSettings(lines, gen) ==
  IF ~Valid(lines) \/ Unrelated(lines) \/ ~Valid(SetAll(lines, gen)) THEN Refused ELSE SetAll(lines, gen)
-----------------------------------------------------------------------------
(* Hooks: an event has groups, a group a matcher and handlers.  The text   *)
(* of the file is as this script renders it, or not.                       *)

Notify(gen) == <<"notify", gen>>
Other(h) == <<"other", h>>
LegacyPing == <<"ping", 0>>
IsNewest(h) == h = Notify(Max(Generation))
IsManaged(h) == h[1] = "notify"
IsLegacy(h) == h = LegacyPing

Asking == {"PermissionRequest", "Elicitation", "Notification"}
Turns == {"UserPromptSubmit", "Stop"}

(* The files the scripts do not refuse, with any number of groups of any   *)
(* handlers under any matchers, ours among them.                           *)
Matcher == STRING \cup {"any", "agent_needs_input"}
Handler == {"notify"} \X Generation \cup {"other", "ping"} \X Nat
Group == [matcher : Matcher, hooks : Seq(Handler)]
Document == [rendered : BOOLEAN, hooks : [Asking \cup Turns -> Seq(Group)]]

(* Without the handlers to remove, and without groups left empty. *)
FilterHandlers(groups, remove(_)) ==
  LET keeps(h) == ~remove(h)
      less(g) == [g EXCEPT !.hooks = Keep(@, keeps)]
      some(g) == g.hooks # <<>>
  IN  Keep([k \in DOMAIN groups |-> less(groups[k])], some)
NewGroup(matcher, gen) == [matcher |-> matcher, hooks |-> <<Notify(gen)>>]

MatcherOf(event) == IF event = "Notification" THEN "agent_needs_input" ELSE "any"

MergeCodex(doc, gen) ==
  [ rendered |-> TRUE,
    hooks |-> [e \in DOMAIN doc.hooks |->
      IF e = "PermissionRequest"
      THEN Append(FilterHandlers(doc.hooks[e], IsManaged), NewGroup("any", gen))
      ELSE doc.hooks[e]] ]
MergeClaude(doc, gen) ==
  [ rendered |-> TRUE,
    hooks |-> [e \in DOMAIN doc.hooks |->
      IF e \in Asking
      THEN Append(FilterHandlers(doc.hooks[e], IsManaged), NewGroup(MatcherOf(e), gen))
      ELSE IF e \in Turns THEN FilterHandlers(doc.hooks[e], IsLegacy)
      ELSE doc.hooks[e]] ]
=============================================================================
