------------------------------- MODULE Briefs -------------------------------
(***************************************************************************)
(* What is written about one investigation after it was analysed: its      *)
(* reports (report_payload, _finalize and command of backend/service.py),  *)
(* the briefs about one subject (analysis/briefs.py) and the case summary  *)
(* (analysis/case_summary.py), both made from the last report on record.   *)
(***************************************************************************)
EXTENDS Findings

CONSTANTS
    Mentions,       \* <<text, path>>: the command's text contains the path
    MaxRelated,     \* MAX_RELATED
    MaxReports,     \* bound: reports on record
    MaxBriefs       \* bound: briefs on record

ASSUME BriefsAssumption == MaxRelated \in Nat \ {0} /\ {MaxReports, MaxBriefs} \subseteq Nat

VARIABLES
    reports,        \* the reports of the investigation, oldest first
    briefs,         \* review_briefs
    narrative       \* report_narrative

bvars == <<cvars, reports, briefs, narrative>>

-----------------------------------------------------------------------------
(* report_payload: the activity is grouped again from the stored rows.  Of *)
(* a record a group keeps its reference, time, source, user and command.   *)

Row(ref) == CHOOSE i \in DOMAIN events : Reference(events, i) = ref
Slim(ref) == [reference |-> ref, stamp |-> events[Row(ref)].stamp,
              source |-> events[Row(ref)].source, command |-> events[Row(ref)].command]
GroupTold(s, g) == [key |-> g.key, class |-> g.class, confirmed |-> g.confirmed,
                    image |-> s[g.first].image.path,
                    records |-> {Slim(ref) : ref \in g.records}]
LeadTold(s, l) == [priority |-> l.priority, confirmed |-> l.confirmed, references |-> l.references,
                   groups |-> {GroupTold(s, g) : g \in l.members}]

FromRows ==
    LET s == Reread(events)
        told == Groups(s, artifact)
        leads == Leads(told)
    IN  [kind |-> "collection", stored |-> TRUE, groups |-> {GroupTold(s, g) : g \in told},
         artifacts |-> {p \in Named : artifact[p] # "none"}, findings |-> findings,
         leads |-> {LeadTold(s, leads[i]) : i \in DOMAIN leads}]

(* While there are no rows the events are those of the evidence payload,   *)
(* stored before they were numbered and before anything was recognized.    *)
NoReference == <<"none", 0>>
Collected == [i \in DOMAIN events |-> [events[i] EXCEPT !.recognized = "no"]]
Unnumbered(g) == [GroupTold(Collected, g) EXCEPT
                     !.records = {[r EXCEPT !.reference = NoReference] : r \in @}]

FromEvidence ==
    LET told == Groups(Collected, [p \in Named |-> "none"])
        leads == Leads(told)
    IN  [kind |-> "collection", stored |-> FALSE, groups |-> {Unnumbered(g) : g \in told},
         artifacts |-> {}, findings |-> {},
         leads |-> {[priority |-> leads[i].priority, confirmed |-> leads[i].confirmed,
                     references |-> {}, groups |-> {Unnumbered(g) : g \in leads[i].members}] :
                        i \in DOMAIN leads}]

ReportPayload == IF Stored THEN FromRows ELSE FromEvidence

CommandReport == [kind |-> "command", stored |-> FALSE, groups |-> {}, artifacts |-> {},
                  findings |-> {}, leads |-> {}]

(* _latest_report                                                          *)
LatestReport == IF reports = <<>> THEN ReportPayload ELSE reports[Len(reports)]

-----------------------------------------------------------------------------
(* build_brief: what the brief says, and what it cites                     *)

Records(R) == UNION {g.records : g \in R.groups}
Of(R, refs) == {r \in Records(R) : r.reference \in refs}
EventRefs(refs) == {<<"execution_event", ref>> : ref \in refs \ {NoReference}}

(* _execution_state asks the records themselves.                           *)
Holds(r, field, value) == field \in DOMAIN r /\ r[field] = value
ExecutionState(rs) ==
    IF \E r \in rs : Holds(r, "execution_confirmed", TRUE) THEN "CONFIRMED"
    ELSE IF \E r \in rs : Holds(r, "evidence_kind", "PROCESS_SNAPSHOT") THEN "CURRENT ONLY"
    ELSE "NOT ESTABLISHED"

Brief(R, subject, rs, priority, says, cites) ==
    [subject |-> subject, execution |-> ExecutionState(rs), priority |-> priority,
     says |-> says, cites |-> cites, stored |-> R.stored]

(* Mutant: what was recorded at the same time names the path too.          *)
NamesNearby(R, p) ==
    {r \in Records(R) : \E q \in Records(R) :
        <<q.command.text, p>> \in Mentions /\ q.stamp = r.stamp}

(* The records that name a path, by image or in the command.               *)
Names(R, p) == {r \in Records(R) : Holds(r, "executable", p) \/ <<r.command.text, p>> \in Mentions}

(* _artifact_brief                                                         *)
ArtifactBriefs(R) == {
    LET naming == Names(R, p)
        group == {g \in R.groups : g.records \cap naming # {}}
        citing == {f \in R.findings : ArtifactRef(p) \in f.references}
    IN  Brief(R, ArtifactRef(p), naming,
              IF group = {} THEN "not ranked" ELSE (CHOOSE g \in group : TRUE).class.priority,
              {"present"} \cup (IF naming = {} THEN {"not named"} ELSE {}),
              {ArtifactRef(p)} \cup SomeOf(MaxRelated, EventRefs({r.reference : r \in naming}))
                  \cup {<<"finding", f.category, f.about>> : f \in citing}) : p \in R.artifacts}

(* _finding_brief                                                          *)
FindingBriefs(R) == {
    Brief(R, <<"finding", f.category, f.about>>,
          {r \in Records(R) : EventRefs({r.reference}) \subseteq f.references}, f.priority, {}, f.references) : f \in R.findings}

(* Mutant: the brief of a record shows how that record alone would rank.   *)
ActivityBriefsAlone(R) == UNION {{
    Brief(R, <<"activity", r.reference>>, g.records,
          Classify(events[Row(r.reference)], 1, "none").priority, {},
          SomeOf(MaxRelated, EventRefs({q.reference : q \in g.records}))
              \cup {ArtifactRef(p) : p \in {g.image} \cap R.artifacts}) :
    r \in {r \in g.records : r.reference # NoReference}} : g \in R.groups}

(* _activity_brief: addressed by any record of the activity                *)
ActivityBriefs(R) == UNION {{
    Brief(R, <<"activity", r.reference>>, g.records, g.class.priority, {},
          SomeOf(MaxRelated, EventRefs({q.reference : q \in g.records}))
              \cup {ArtifactRef(p) : p \in {g.image} \cap R.artifacts}) :
    r \in {r \in g.records : r.reference # NoReference}} : g \in R.groups}

(* _lead_brief                                                             *)
LeadBriefs(R) == {
    LET rs == UNION {g.records : g \in l.groups}
    IN  Brief(R, <<"lead", l.references>>, rs, l.priority, {},
              EventRefs({r.reference : r \in rs})
                  \cup {ArtifactRef(p) : p \in {g.image : g \in l.groups} \cap R.artifacts}) :
    l \in R.leads}

(* build_brief; a subject that the report does not hold is not found.      *)
BriefsOf(R) == ArtifactBriefs(R) \cup FindingBriefs(R) \cup ActivityBriefs(R) \cup LeadBriefs(R)

-----------------------------------------------------------------------------
(* Mutant: what is not known to have run is no urgent lead.                *)
SummaryOfRan(R) ==
    LET first == {l \in R.leads : l.priority = "PRIORITY_1" /\ l.confirmed}
        review == {l \in R.leads : l.priority = "PRIORITY_2"}
    IN  [urgent |-> {[ran |-> l.confirmed, cites |-> l.references] : l \in first},
         review |-> Cardinality(review),
         unconfirmed |-> Cardinality({l \in review : ~l.confirmed}),
         findings |-> Cardinality(R.findings)]

(* build_case_summary: urgent leads with what they rest on                 *)
Summary(R) ==
    LET first == {l \in R.leads : l.priority = "PRIORITY_1"}
        review == {l \in R.leads : l.priority = "PRIORITY_2"}
    IN  [urgent |-> {[ran |-> l.confirmed, cites |-> l.references] : l \in first},
         review |-> Cardinality(review),
         unconfirmed |-> Cardinality({l \in review : ~l.confirmed}),
         findings |-> Cardinality(R.findings)]

-----------------------------------------------------------------------------
BInit == CInit /\ reports = <<>> /\ briefs = {} /\ narrative = {}

(* _finalize writes the report that ends the collection, also when it      *)
(* failed before its analysis was stored.                                  *)
Collecting == \A i \in DOMAIN reports : reports[i].kind = "command"
Reports ==
    /\ Collecting /\ Len(reports) < MaxReports
    /\ reports' = Append(reports, ReportPayload)
    /\ UNCHANGED <<cvars, briefs, narrative>>

(* command: a command issued within an investigation reports there too.    *)
Commands ==
    /\ Len(reports) < MaxReports
    /\ reports' = Append(reports, CommandReport)
    /\ UNCHANGED <<cvars, briefs, narrative>>

(* brief                                                                   *)
Describes ==
    /\ Cardinality(briefs) < MaxBriefs
    /\ \E b \in BriefsOf(LatestReport) : briefs' = briefs \cup {b}
    /\ UNCHANGED <<cvars, reports, narrative>>

(* case_summary replaces what was written about the same report; one that  *)
(* was assembled for the occasion (of = 0) has an identifier of its own.   *)
Summarizes ==
    LET of == Len(reports)
    IN  /\ narrative' = {n \in narrative : n.of # of \/ of = 0}
                        \cup {[of |-> of, stored |-> Stored, summary |-> Summary(LatestReport)]}
        /\ UNCHANGED <<cvars, reports, briefs>>

BNext ==
    \/ Collecting /\ CNext /\ UNCHANGED <<reports, briefs, narrative>>
    \/ Reports \/ Commands \/ Describes \/ Summarizes
BSpec == BInit /\ [][BNext]_bvars

-----------------------------------------------------------------------------
(* Properties                                                              *)

(* Every citation of a brief leads to a row of the investigation, and one  *)
(* in the brief of an artifact to a record whose command contains its path *)
(* or to a finding that cites it: being near it in time or in the same     *)
(* activity is not a link (build_brief).  Only the brief of a lead made    *)
(* before the analysis was stored, or of one that never was, cites nothing.*)
CitesSubject(b) ==
    /\ b.cites = {} => b.subject[1] = "lead" /\ ~b.stored
    /\ \A c \in b.cites :
        CASE c[1] = "execution_event" ->
                \E i \in DOMAIN events :
                    /\ Reference(events, i) = c[2]
                    /\ b.subject[1] = "artifact" =>
                          <<events[i].command.text, b.subject[2]>> \in Mentions
          [] c[1] = "artifact" -> artifact[c[2]] # "none"
          [] c[1] = "finding"  ->
                \E f \in findings : f.category = c[2] /\ f.about = c[3] /\ b.subject \in f.references
          [] OTHER -> TRUE
BriefCitesSubject == \A b \in briefs : CitesSubject(b)

(* The urgency a brief of the stored analysis states is the one stored with*)
(* its subject, although the activity was grouped again from rows in       *)
(* another order: of a record, that of its activity; of a lead, that of    *)
(* each activity it holds.                                                 *)
PriorityStored(b) ==
    b.stored => CASE b.subject[1] = "activity" ->
            \E g \in groups : b.subject[2] \in g.records /\ b.priority = g.class.priority
      [] b.subject[1] = "lead" ->
            \A g \in groups : g.records \cap b.subject[2] # {} => b.priority = g.class.priority
      [] b.subject[1] = "finding" ->
            \E f \in findings : f.category = b.subject[2] /\ f.about = b.subject[3]
                                /\ f.priority = b.priority
      [] OTHER -> TRUE
BriefPriorityStored == \A b \in briefs : PriorityStored(b)

(* The narrative of an analysed investigation says that nothing is in the  *)
(* first tier only when nothing stored is, and that a lead ran only if a   *)
(* record of it did, unless a command was the last to report in that       *)
(* investigation, in which case it is written from a report that holds no  *)
(* activity at all (build_case_summary, _latest_report).                   *)
NarrativeTellsUrgent ==
    \A n \in narrative : n.stored /\ (n.of > 0 => reports[n.of].kind # "command") =>
        /\ (n.summary.urgent = {}) <=> \A g \in groups : g.class.priority # "PRIORITY_1"
        /\ \A l \in n.summary.urgent :
              l.ran <=> \E i \in DOMAIN events :
                            Reference(events, i) \in l.cites /\ Confirmed(events[i])

(* What is written about an investigation says what is on record about it  *)
(* (build_brief, build_case_summary).                                      *)
BriefsFaithful == BriefCitesSubject /\ BriefPriorityStored /\ NarrativeTellsUrgent

(* briefs.py: "a brief may only say what some stored record supports".  A  *)
(* brief says that a file was present and hashed only if it was, and that  *)
(* no record establishes that something ran only if none does.             *)
PresenceSupported(b) ==
    "present" \in b.says => artifact[b.subject[2]] \in {"COLLECTED", "ALTERED"}
ExecutionSupported(b) ==
    b.subject[1] = "activity" /\ b.execution = "NOT ESTABLISHED" =>
        \A g \in groups : b.subject[2] \in g.records => ~g.confirmed
BriefsSupported == \A b \in briefs : PresenceSupported(b) /\ ExecutionSupported(b)
=============================================================================
