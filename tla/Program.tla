------------------------------- MODULE Program -------------------------------
(***************************************************************************)
(* An investigation program, from its statements to what is collected and  *)
(* selected for it: compiler/investigation.py reads and validates it,      *)
(* compiler/plan.py plans it for one platform, backend/plan_runner.py and  *)
(* endpoint/agent.py run the plan, analysis/selection.py answers its       *)
(* filters.  The grammar is not modelled: a statement is a record.         *)
(***************************************************************************)
EXTENDS Lists, SequencesExt

CONSTANTS
    Statement,      \* the statements an investigator may write next
    Node,           \* every statement of a text, with those inside its blocks
    Predicate,      \* the predicates of its filters, with those inside them
    Ticked,         \* the lists of sources a client may tick instead
    Listed,         \* the rows a report may hold, each with the candidates of its fields
    Starting,       \* <<value, text>>: the text starts with the value
    Relative,       \* the paths that are not absolute
    MaxStatements,  \* bound: statements of a program
    MaxRows,        \* bound: rows of the report that is selected from
    MaxDepth,       \* MAX_PLAYBOOK_DEPTH
    MaxBlocks,      \* bound: blocks of a text, one inside the other
    MaxCollections, \* MAX_COLLECTIONS
    MaxFilters,     \* MAX_FILTERS
    MaxSelected     \* MAX_PER_KIND * 8

(* A predicate is a tree, read from a finite text: of any set of them, one *)
(* has no part in the set.                                                 *)
Parts(p) == IF p.type = "comparison" THEN {} ELSE ToSet(p.operands)

ASSUME ProgramAssumption ==
    /\ Statement \subseteq Node /\ \A names \in Ticked : names \in Seq(ToSet(names))
    /\ \A n \in Node : /\ n.kind \in {"when", "define"} => n.body \in Seq(Node)
                       /\ n.kind = "filter" => n.predicate \in Predicate
    /\ \A p \in Predicate :
          /\ p.type \in {"and", "or", "not", "comparison"} /\ Parts(p) \subseteq Predicate
          /\ p.type = "not" => DOMAIN p.operands = {1}
          /\ p.type = "comparison" => /\ p.operator \in {"EQUALS", "ONEOF", "STARTS"}
                                      /\ p.value.list \/ DOMAIN p.value.items = {1}
    /\ \A n \in Node : n.kind \in {"when", "define"} =>
          \A i \in DOMAIN n.body :
             n.body[i].kind \in {"collect", "filter", "correlate", "run", "when"}
    /\ \A P \in SUBSET Predicate : P # {} => \E p \in P : Parts(p) \cap P = {}
    /\ \A p \in Predicate : p.type = "comparison" /\ p.operator = "STARTS" =>
          \A v \in ToSet(p.value.items) : <<v, v>> \in Starting
    /\ {MaxStatements, MaxRows, MaxDepth, MaxBlocks} \subseteq Nat
    /\ {MaxCollections, MaxFilters, MaxSelected} \subseteq Nat

VARIABLES
    written,    \* the statements of the program, as far as they are read
    frames,     \* the blocks being read: their nodes, conditions and stack
    variables, definitions, collections, filters, correlations,    \* the AST
    phase,      \* "reading", "rejected", "compiled", "planned" or "ran"
    plan,       \* the execution plan
    steps,      \* what running the plan did, by the number of the task
    rows        \* the report the filters are answered against

ast == <<variables, definitions, collections, filters, correlations>>
pvars == <<written, frames, ast, phase, plan, steps, rows>>

Linux == [SYSTEM |-> "system_info", PROCESSES |-> "snapshot", EXECUTION |-> "history",
          FILES |-> "artifacts", NETWORK |-> "network", BROWSER |-> "browser", USB |-> "media",
          DRIVERS |-> "drivers", MEMORY |-> "image", SERVICES |-> "services"]
Windows == [SYSTEM |-> "system_info", PROCESSES |-> "snapshot", EXECUTION |-> "history",
            FILES |-> "artifacts", NETWORK |-> "network", MEMORY |-> "image"]
Supported(platform) == IF platform = "linux" THEN Linux ELSE Windows

Registry == [SYSTEM |-> "system_info", PROCESSES |-> "snapshot", EXECUTION |-> "history",
             FILES |-> "artifacts", NETWORK |-> "network", BROWSER |-> "browser",
             USB |-> "media", DRIVERS |-> "drivers", MEMORY |-> "image",
             SERVICES |-> "services"]
Baseline == {"SYSTEM", "PROCESSES", "EXECUTION", "FILES"}
Selectable == DOMAIN Registry \ Baseline

Needed(subject) == IF subject = "ARTIFACTS" THEN "FILES" ELSE subject

PInit ==
    /\ written = <<>> /\ frames = <<>> /\ phase = "reading"
    /\ variables = <<>> /\ definitions = <<>>
    /\ collections = <<>> /\ filters = <<>> /\ correlations = <<>>
    /\ plan = [platform |-> "none"] /\ steps = <<>> /\ rows = <<>>

-----------------------------------------------------------------------------
(* Reading: _statements, one statement at a time.                          *)

Rejects ==
    /\ phase' = "rejected" /\ frames' = <<>>
    /\ UNCHANGED <<written, ast, plan, steps, rows>>

(* The next statement of the text; the rest of it is not written yet.      *)
Writes(s) ==
    /\ phase = "reading" /\ frames = <<>> /\ Len(written) < MaxStatements
    /\ written' = Append(written, s)
    /\ frames' = <<[nodes |-> <<s>>, conditions |-> <<>>, stack |-> <<>>]>>
    /\ UNCHANGED <<ast, phase, plan, steps, rows>>

(* _resolve_program: sources ticked in the client become a program.        *)
Ticks(names) ==
    /\ phase = "reading" /\ written = <<>>
    /\ LET lines == [i \in DOMAIN names |->
                        [kind |-> "collect", source |-> names[i], arguments |-> <<>>,
                         from |-> names[i] = "MEMORY"]]
       IN  IF \A i \in DOMAIN names : names[i] \in Selectable
           THEN /\ written' = <<[kind |-> "case"]>> \o lines
                /\ frames' = <<[nodes |-> written', conditions |-> <<>>, stack |-> <<>>]>>
                /\ UNCHANGED <<ast, phase, plan, steps, rows>>
           ELSE Rejects

Innermost == Last(frames)
Read == Head(Innermost.nodes)
Rest == [frames EXCEPT ![Len(frames)].nodes = Tail(@)]
Reading(kind) ==
    /\ phase = "reading" /\ frames # <<>> /\ Innermost.nodes # <<>> /\ Read.kind = kind
Goes == frames' = Rest /\ UNCHANGED <<written, phase, plan, steps, rows>>
Enters(frame) == frames' = Append(Rest, frame) /\ UNCHANGED <<written, ast, phase, plan, steps, rows>>

Leaves ==
    /\ frames # <<>> /\ Innermost.nodes = <<>>
    /\ frames' = Front(frames)
    /\ UNCHANGED <<written, ast, phase, plan, steps, rows>>

(* _value: a name is looked up when the statement is read.                 *)
Known(v) == "name" \in DOMAIN v => v.name \in DOMAIN variables
Value(v) == IF "name" \in DOMAIN v THEN variables[v.name] ELSE v

Bind(names, name, v) == [n \in {name} \cup DOMAIN names |-> IF n = name THEN v ELSE names[n]]

ReadsTarget ==
    /\ \E kind \in {"case", "target"} : Reading(kind)
    /\ Goes /\ UNCHANGED ast

Lets ==
    /\ Reading("let")
    /\ IF Known(Read.value)
       THEN /\ variables' = Bind(variables, Read.name, Value(Read.value))
            /\ Goes /\ UNCHANGED <<definitions, collections, filters, correlations>>
       ELSE Rejects

Defines ==
    /\ Reading("define")
    /\ IF Read.name \in DOMAIN definitions THEN Rejects
       ELSE /\ definitions' = Bind(definitions, Read.name, Read.body)
            /\ Goes /\ UNCHANGED <<variables, collections, filters, correlations>>

RunsUnlessLast(name) ==
    /\ name \in DOMAIN definitions
    /\ Innermost.stack # <<>> => name # Last(Innermost.stack)
    /\ Len(Innermost.stack) < MaxDepth
MayRun(name) ==
    /\ name \in DOMAIN definitions
    /\ name \notin ToSet(Innermost.stack)
    /\ Len(Innermost.stack) < MaxDepth

PlaybookAfresh(name) ==
    [nodes |-> definitions[name], conditions |-> <<>>, stack |-> Append(Innermost.stack, name)]
Playbook(name) ==
    [nodes |-> definitions[name], conditions |-> Innermost.conditions,
     stack |-> Append(Innermost.stack, name)]

Runs ==
    /\ Reading("run")
    /\ IF MayRun(Read.name) THEN Enters(Playbook(Read.name)) ELSE Rejects

Whens ==
    /\ Reading("when")
    /\ Enters([nodes |-> Read.body, conditions |-> Append(Innermost.conditions, Read.guard),
               stack |-> Innermost.stack])

Collects ==
    /\ Reading("collect")
    /\ IF \A i \in DOMAIN Read.arguments : Known(Read.arguments[i])
       THEN /\ collections' = Append(collections,
                   [source |-> Read.source, from |-> Read.from,
                    arguments |-> [i \in DOMAIN Read.arguments |-> Value(Read.arguments[i])],
                    conditions |-> Innermost.conditions])
            /\ Goes /\ UNCHANGED <<variables, definitions, filters, correlations>>
       ELSE Rejects

Filters ==
    /\ Reading("filter")
    /\ filters' = Append(filters, [predicate |-> Read.predicate,
                                   conditions |-> Innermost.conditions])
    /\ Goes /\ UNCHANGED <<variables, definitions, collections, correlations>>

RelatesSubjects ==
    /\ Reading("correlate")
    /\ correlations' = Append(correlations, [left |-> Read.left, right |-> Read.right,
                                             conditions |-> Innermost.conditions])
    /\ Goes /\ UNCHANGED <<variables, definitions, collections, filters>>

-----------------------------------------------------------------------------
(* validate: what parses and cannot mean anything is rejected.             *)

Times(c, conditions) == Len(SelectSeq(conditions, LAMBDA d : d = c))
SameKey(k, l) == \A c \in ToSet(k) \cup ToSet(l) : Times(c, k) = Times(c, l)
Repeated(c, d) ==
    c.source = d.source /\ c.arguments = d.arguments /\ SameKey(c.conditions, d.conditions)

Collectable(c) ==
    /\ c.source \in {"FILES", "MEMORY"} => c.arguments # <<>> \/ c.from
    /\ c.source = "FILES" =>
         \A i \in DOMAIN c.arguments : ToSet(c.arguments[i].items) \cap Relative = {}

Requested == {collections[i].source : i \in DOMAIN collections}
AnswerableLeft(c) == Needed(c.left) \in Requested /\ c.left # c.right
Answerable(c) == {Needed(c.left), Needed(c.right)} \subseteq Requested /\ c.left # c.right

Comparisons[p \in Predicate] ==
    IF p.type = "comparison" THEN {p} ELSE UNION {Comparisons[q] : q \in Parts(p)}
Comparable(p) ==
    IF p.operator = "ONEOF" THEN p.value.list /\ p.value.items # <<>> ELSE ~p.value.list

Valid ==
    /\ \E i \in DOMAIN written : written[i].kind = "case"
    /\ collections # <<>>
    /\ Len(collections) <= MaxCollections /\ Len(filters) <= MaxFilters
    /\ \A i, j \in DOMAIN collections : i < j => ~Repeated(collections[i], collections[j])
    /\ \A i \in DOMAIN collections : Collectable(collections[i])
    /\ \A i \in DOMAIN correlations : Answerable(correlations[i])
    /\ \A i \in DOMAIN filters : \A p \in Comparisons[filters[i].predicate] : Comparable(p)

(* compile_program, once the text ends.                                    *)
Compiles ==
    /\ phase = "reading" /\ frames = <<>> /\ written # <<>>
    /\ phase' = IF Valid THEN "compiled" ELSE "rejected"
    /\ UNCHANGED <<written, frames, ast, plan, steps, rows>>

-----------------------------------------------------------------------------
(* build_plan for one platform.                                            *)

GuardHolds(platform, guard) ==
    \/ guard.kind = "platform_is" /\ guard.platform \in {"any", platform}
    \/ guard.kind = "source_supported" /\ guard.source \in DOMAIN Supported(platform)
UnmetInnermost(platform, conditions) ==
    {c \in ToSet(conditions) : c = Last(conditions) /\ ~GuardHolds(platform, c)}
Unmet(platform, conditions) == {c \in ToSet(conditions) : ~GuardHolds(platform, c)}

TaskFor(platform, c) ==
    [source |-> c.source, arguments |-> c.arguments, from |-> c.from,
     status |-> IF Unmet(platform, c.conditions) # {} THEN "SKIPPED_CONDITION"
                ELSE IF c.source \notin DOMAIN Supported(platform) THEN "UNSUPPORTED" ELSE "READY"]
Collector(platform, task) == Supported(platform)[task.source]

(* The filters or correlations that no guard of this platform removes.     *)
Active(platform, clauses) ==
    Where(clauses, {c \in ToSet(clauses) : Unmet(platform, c.conditions) = {}})

Compatible(platform) ==
    \A i \in DOMAIN written :
        written[i].kind = "target" => written[i].platform \in {"any", platform}

Plans(platform) ==
    /\ phase = "compiled"
    /\ IF Compatible(platform)
       THEN /\ phase' = "planned"
            /\ plan' = [platform |-> platform,
                        tasks |-> [i \in DOMAIN collections |-> TaskFor(platform, collections[i])],
                        filters |-> Active(platform, filters),
                        correlations |-> Active(platform, correlations)]
       ELSE phase' = "rejected" /\ UNCHANGED plan
    /\ UNCHANGED <<written, frames, ast, steps, rows>>

-----------------------------------------------------------------------------
(* Running it: runnable_tasks and call on the workstation, run_task on an  *)
(* endpoint, which takes every ready task and checks the same registry.    *)

Ready == {i \in DOMAIN plan.tasks : plan.tasks[i].status = "READY"}
Runnable(i) ==
    /\ plan.tasks[i].source \in DOMAIN Registry
    /\ Registry[plan.tasks[i].source] = Collector(plan.platform, plan.tasks[i])

Called(i) ==
    IF plan.tasks[i].source = "MEMORY" /\ plan.tasks[i].arguments = <<>>
    THEN "NOT_COLLECTED" ELSE "collected"

RunsPlan(here) ==
    /\ phase = "planned"
    /\ LET chosen == {i \in Ready : here => plan.tasks[i].source \notin Baseline}
           done == {i \in chosen : Runnable(i)}
       IN  \E failing \in SUBSET done :
             steps' = [i \in IF here THEN done ELSE chosen |->
                         IF i \notin done THEN "refused"
                         ELSE IF i \in failing THEN "failed" ELSE Called(i)]
    /\ phase' = "ran"
    /\ UNCHANGED <<written, frames, ast, plan, rows>>

(* The report of the investigation lists another row.                      *)
Lists(r) ==
    /\ phase = "ran" /\ filters # <<>> /\ Len(rows) < MaxRows
    /\ rows' = Append(rows, r)
    /\ UNCHANGED <<written, frames, ast, phase, plan, steps>>

PNext ==
    \/ \E s \in Statement : Writes(s)
    \/ \E names \in Ticked : Ticks(names)
    \/ ReadsTarget \/ Lets \/ Defines \/ Runs \/ Whens
    \/ Collects \/ Filters \/ RelatesSubjects \/ Leaves \/ Compiles
    \/ \E platform \in {"linux", "windows"} : Plans(platform)
    \/ \E here \in BOOLEAN : RunsPlan(here)
    \/ \E r \in Listed : Lists(r)
PSpec == PInit /\ [][PNext]_pvars

-----------------------------------------------------------------------------
(* The selection: evaluate, and select_for_program over the filters of the *)
(* IR.  A row maps a field to its candidates, any of which may match.      *)

Matches(p, candidate) ==
    CASE p.operator \in {"EQUALS", "ONEOF"} -> candidate \in ToSet(p.value.items)
      [] p.operator = "STARTS" -> <<p.value.items[1], candidate>> \in Starting

Evaluate[x \in Predicate \X Listed] ==
    LET p == x[1]
        row == x[2]
    IN  CASE p.type = "and" -> \A i \in DOMAIN p.operands : Evaluate[<<p.operands[i], row>>]
          [] p.type = "or" -> \E i \in DOMAIN p.operands : Evaluate[<<p.operands[i], row>>]
          [] p.type = "not" -> ~Evaluate[<<p.operands[1], row>>]
          [] OTHER -> \E candidate \in row[p.field] : Matches(p, candidate)

KeepsAny(row) == \E i \in DOMAIN filters : Evaluate[<<filters[i].predicate, row>>]
Keeps(row) == \A i \in DOMAIN filters : Evaluate[<<filters[i].predicate, row>>]

Selection == UpTo(Where(rows, {r \in ToSet(rows) : Keeps(r)}), MaxSelected)

-----------------------------------------------------------------------------
(* What a program promises.                                                *)

(* Type invariant; and the playbooks being expanded are distinct and not   *)
(* deeper than the bound, so that reading always ends ("a playbook that    *)
(* runs itself is a named error rather than a hang").                      *)
PTypeOK ==
    /\ phase \in {"reading", "rejected", "compiled", "planned", "ran"}
    /\ phase # "reading" => frames = <<>>
    /\ phase \in {"compiled", "planned", "ran"} => Len(collections) \in 1..MaxCollections
    /\ \A i \in DOMAIN frames :
         Len(frames[i].stack) <= MaxDepth /\ IsInjective(frames[i].stack)

(* A trail leads to a statement, as written, through the blocks around it: *)
(* WHEN opens its block under one more guard, RUN that of its playbook     *)
(* under the same ones.                                                    *)
Expands(n) == n.kind = "when" \/ (n.kind = "run" /\ n.name \in DOMAIN definitions)
Block(n) == IF n.kind = "when" THEN n.body ELSE definitions[n.name]
Guards(s) == IF s.node.kind = "when" THEN Append(s.conditions, s.node.guard) ELSE s.conditions
StandsIn(nodes, conditions) ==
    {[node |-> nodes[i], place |-> i, conditions |-> conditions] : i \in DOMAIN nodes}
Entered(s) == IF Expands(s.node) THEN StandsIn(Block(s.node), Guards(s)) ELSE {}
Trails[k \in 1..(MaxBlocks + 1)] ==
    IF k = 1 THEN {<<s>> : s \in StandsIn(written, <<>>)}
    ELSE UNION {{Append(t, s) : s \in Entered(Last(t))} : t \in Trails[k - 1]}
AllTrails == UNION {Trails[k] : k \in 1..MaxBlocks}

Before(t, u) ==
    \E k \in DOMAIN t \cap DOMAIN u :
        t[k].place < u[k].place /\ \A i \in 1..(k - 1) : t[i] = u[i]
AsRead(T) == {p \in T \X T : Before(p[1], p[2])}

Clauses(kind) ==
    CASE kind = "collect" -> collections
      [] kind = "filter" -> filters
      [] kind = "correlate" -> correlations
Says(c, s) ==
    /\ c.conditions = s.conditions
    /\ s.node.kind = "collect" => c.source = s.node.source /\ c.from = s.node.from
    /\ s.node.kind = "filter" => c.predicate = s.node.predicate
    /\ s.node.kind = "correlate" => c.left = s.node.left /\ c.right = s.node.right

(* RUN expands a playbook where it stands and a guard holds for everything *)
(* inside it: a compiled program has the clauses of the text with every    *)
(* playbook written out, in that order, each under all the guards around   *)
(* it.  Of a text that goes no deeper than MaxBlocks.                      *)
UnfoldsAsWritten ==
    phase = "compiled" /\ Trails[MaxBlocks + 1] = {} =>
        /\ \A i \in DOMAIN written : written[i].kind = "define" =>
              /\ written[i].name \in DOMAIN definitions
              /\ definitions[written[i].name] = written[i].body
        /\ \A t \in AllTrails : Last(t).node.kind = "run" => Expands(Last(t).node)
        /\ \A kind \in {"collect", "filter", "correlate"} :
              LET met == {t \in AllTrails : Last(t).node.kind = kind}
                  told == Ordered(met, AsRead(met))
              IN  /\ Len(Clauses(kind)) = Len(told)
                  /\ \A i \in DOMAIN told : Says(Clauses(kind)[i], Last(told[i]))

(* Nothing a program asks for is left out in silence: what its guards      *)
(* allow and the platform supports is collected, by the program or by the  *)
(* baseline, or its failure recorded; all the rest is named by the plan.   *)
(* A memory image given with FROM is the exception: it is never analysed.  *)
EveryRequestAnswered ==
    phase = "ran" =>
        \A i \in DOMAIN collections :
            LET c == collections[i]
                wanted == /\ \A j \in DOMAIN c.conditions : GuardHolds(plan.platform, c.conditions[j])
                          /\ c.source \in DOMAIN Supported(plan.platform)
            IN  IF wanted
                THEN \/ c.source \in Baseline
                     \/ i \in DOMAIN steps /\ steps[i] \in {"collected", "failed"}
                     \/ i \in DOMAIN steps /\ c.from
                ELSE plan.tasks[i].status # "READY" /\ i \notin DOMAIN steps

(* A planned correlation has something to correlate: both of its subjects  *)
(* are collected on this platform, unless the program guards a collection  *)
(* more tightly than the correlation or the platform lacks the source.     *)
CorrelationsHaveSubjects ==
    phase = "planned" =>
        \A c \in ToSet(plan.correlations) : \A s \in {Needed(c.left), Needed(c.right)} :
            \/ \E i \in Ready : plan.tasks[i].source = s
            \/ /\ s \in Requested
               /\ \/ s \notin DOMAIN Supported(plan.platform)
                  \/ \A i \in DOMAIN collections : collections[i].source = s =>
                        ~(ToSet(collections[i].conditions) \subseteq ToSet(c.conditions))

(* While no filter is guarded away on this platform, the selection is      *)
(* every row the planned filters admit together, in the order of the       *)
(* report, up to the bound.  Denotes is the meaning of a predicate.        *)
Denotes[p \in Predicate] ==
    CASE p.type = "and" -> {r \in Listed : \A q \in Parts(p) : r \in Denotes[q]}
      [] p.type = "or" -> UNION {Denotes[q] : q \in Parts(p)}
      [] p.type = "not" -> Listed \ UNION {Denotes[q] : q \in Parts(p)}
      [] OTHER -> {r \in Listed : \E v \in ToSet(p.value.items) : \E candidate \in r[p.field] :
                      v = candidate \/ (p.operator = "STARTS" /\ <<v, candidate>> \in Starting)}
SelectionAnswersProgram ==
    phase = "ran" /\ filters # <<>> /\ plan.filters = filters =>
        LET admitted == {r \in Listed : \A f \in ToSet(plan.filters) : r \in Denotes[f.predicate]}
            hits == {i \in DOMAIN rows : rows[i] \in admitted}
        IN  /\ ToSet(Selection) \subseteq admitted
            /\ \A i \in hits : Cardinality({j \in hits : j <= i}) <= MaxSelected
                              => rows[i] \in ToSet(Selection)
            /\ Len(Selection) <= Cardinality(hits)

(* What an investigator wrote is what is collected, related and selected   *)
(* (_statements, build_plan, runnable_tasks, select_for_program).          *)
ProgramCarriedOut ==
    /\ UnfoldsAsWritten /\ EveryRequestAnswered
    /\ CorrelationsHaveSubjects /\ SelectionAnswersProgram
=============================================================================
