------------------------------ MODULE Activity ------------------------------
(***************************************************************************)
(* analysis/activity.py: references for the collected records, the groups  *)
(* of identical activity with one classification each, and the leads an    *)
(* investigator reads first.  The operators take the records s as a list:  *)
(* a collection works on its events, a report on the rows read back.       *)
(***************************************************************************)
EXTENDS History

CONSTANTS MaxLeads      \* MAX_LEADS
ASSUME ActivityAssumption == MaxLeads \in Nat \ {0}

VARIABLES groups        \* the groups of the last collection
avars == <<hvars, groups>>

-----------------------------------------------------------------------------
(* Mutant: records of one time and identifier share a reference.           *)
ReferenceByKey(s, i) ==
    LET before(k) == \/ Dated(s[k]) /\ ~Dated(s[i])
                     \/ s[k].stamp = s[i].stamp /\ s[k].id <= s[i].id
                     \/ Dated(s[k]) /\ s[k].stamp < s[i].stamp
    IN  <<s[i].kind, Cardinality({k \in DOMAIN s : s[k].kind = s[i].kind /\ before(k)})>>

(* assign_references: numbered within the kind by timestamp, record id;    *)
(* the sort is stable.                                                     *)
Reference(s, i) ==
    LET before(k) == \/ Dated(s[k]) /\ ~Dated(s[i])
                     \/ /\ s[k].stamp = s[i].stamp
                        /\ s[k].id < s[i].id \/ (s[k].id = s[i].id /\ k <= i)
                     \/ Dated(s[k]) /\ s[k].stamp < s[i].stamp
    IN  <<s[i].kind, Cardinality({k \in DOMAIN s : s[k].kind = s[i].kind /\ before(k)})>>

(* _group_key: the full command when there is one, else the image.         *)
Key(e) == <<e.kind, IF e.command # NoCommand THEN e.command.text ELSE e.image.path>>

(* How many independent sources named an image is a property of the whole  *)
(* collection.                                                             *)
Sources(s, image) == {s[i].source : i \in {i \in DOMAIN s : s[i].image = image}}
ClassOf(s, art, e) ==
    IF e.image = NoImage THEN Classify(e, 1, "none")
    ELSE Classify(e, Cardinality(Sources(s, e.image)), art[e.image.path])

(* Keys are compared field by field.                                       *)
Lexical(u, v) == \E i \in DOMAIN u : u[i] < v[i] /\ \A k \in 1..(i - 1) : u[k] = v[k]

MoreUrgent(c, d) ==
    \/ Rank(c.priority) < Rank(d.priority)
    \/ c.priority = d.priority /\ CategoryRank(c.category) < CategoryRank(d.category)

Classified(s, art) == {[at |-> i, event |-> s[i], class |-> ClassOf(s, art, s[i]),
                   reference |-> Reference(s, i)] : i \in DOMAIN s}

(* Mutant: the record seen last speaks for the group.                      *)
LastSpeaks(M) == (CHOOSE r \in M : \A q \in M : q.at <= r.at)

(* Mutant: only the priority is compared.                                  *)
SpeaksByPriority(M) ==
    CHOOSE r \in M : \A q \in M :
        Lexical(<<Rank(r.class.priority), r.at>>, <<Rank(q.class.priority), q.at>>) \/ q = r

(* The first of the most urgent records speaks for the group.              *)
Speaks(M) ==
    CHOOSE r \in M : \A q \in M :
        ~MoreUrgent(q.class, r.class) /\ (~MoreUrgent(r.class, q.class) => r.at <= q.at)

Group(M) ==
    LET stamps == {r.event.stamp : r \in M} \ {Undated}
    IN  [key |-> Key(Speaks(M).event), class |-> Speaks(M).class, of |-> Speaks(M).event,
         occurrences |-> Cardinality(M),
         records |-> {r.reference : r \in M},
         confirmed |-> \E r \in M : Confirmed(r.event),
         sources |-> {r.event.source : r \in M},
         first |-> Min({r.at : r \in M}),
         lastSeen |-> IF stamps = {} THEN Undated ELSE Max(stamps)]

(* build_activity                                                          *)
Groups(s, art) ==
    LET records == Classified(s, art)
    IN  {Group({r \in records : Key(r.event) = k}) : k \in {Key(r.event) : r \in records}}

(* The order of the groups.                                                *)
RankingKey(g) == <<Rank(g.class.priority), -g.class.score, CategoryRank(g.class.category),
                   IF g.confirmed THEN 0 ELSE 1, IF g.lastSeen = Undated THEN 1 ELSE 0,
                   -g.lastSeen, g.first>>
Ranked(G) == Ordered(G, {p \in G \X G : Lexical(RankingKey(p[1]), RankingKey(p[2]))})

(* The sum of the occurrences: a pair for each.                            *)
Occurrences(G) == Cardinality(UNION {{g} \X (1..g.occurrences) : g \in G})

-----------------------------------------------------------------------------
(* build_leads: urgent groups of one pattern are one lead                  *)

Urgent(c) == c.priority # "PRIORITY_3"

(* Mutant: what was only typed is no lead.                                 *)
ConfirmedCandidates(G) == {g \in G : Urgent(g.class) /\ g.confirmed}
Candidates(G) == {g \in G : Urgent(g.class)}

(* The signals that say why something is concerning.                       *)
Pattern(g) == <<g.key[1], g.class.priority, g.class.concerns,
                {"fetch_run", "installer"} \subseteq g.of.command.shapes>>

Lead(members) ==
    LET first == Ranked(members)[1]
    IN  [members |-> members, priority |-> first.class.priority,
         category |-> first.class.category, rankedBy |-> RankingKey(first),
         confirmed |-> \E g \in members : g.confirmed,
         references |-> UNION {g.records : g \in members},
         count |-> Occurrences(members)]

AllLeads(G) == {Lead({g \in Candidates(G) : Pattern(g) = p}) : p \in {Pattern(g) : g \in Candidates(G)}}

(* Mutant: the largest patterns first.                                     *)
LargestLeads(G) ==
    LET key(l) == <<-l.count>> \o l.rankedBy
    IN  UpTo(Ordered(AllLeads(G), {p \in AllLeads(G) \X AllLeads(G) :
                                      Lexical(key(p[1]), key(p[2]))}), MaxLeads)

(* build_leads                                                             *)
Leads(G) ==
    LET key(l) == <<Rank(l.priority), -l.count>> \o l.rankedBy
    IN  UpTo(Ordered(AllLeads(G), {p \in AllLeads(G) \X AllLeads(G) :
                                      Lexical(key(p[1]), key(p[2]))}), MaxLeads)

(* build_routine: what the separate routine report holds.                  *)
Routine(G) == {g \in G : g.class.presentation = "ROUTINE_RECOGNIZED"}

(* summarize_groups counts records, by the classification of their group.  *)
CountOf(G, category) == Occurrences({g \in G : g.class.category = category})

-----------------------------------------------------------------------------
(* A collection ends with its analysis.                                    *)
AInit == HInit /\ groups = {}
Analyzes == finalized /\ groups = {} /\ groups' = Groups(events, artifact) /\ UNCHANGED hvars
ANext == (groups = {} /\ HNext /\ UNCHANGED groups) \/ Analyzes
ASpec == AInit /\ [][ANext]_avars

-----------------------------------------------------------------------------
(* Properties                                                              *)

(* Every record keeps an identifier of its own and is in exactly one       *)
(* group, and the totals by category count every record once, however the  *)
(* records repeat one another (assign_references, build_activity,          *)
(* summarize_groups).                                                      *)
EveryRecordCounted ==
    groups # {} =>
        /\ \A i, k \in DOMAIN events : Reference(events, i) = Reference(events, k) => i = k
        /\ \A i \in DOMAIN events :
              Cardinality({g \in groups : Reference(events, i) \in g.records}) = 1
        /\ Len(events) = CountOf(groups, "POTENTIALLY_HARMFUL")
              + CountOf(groups, "NEEDS_REVIEW") + CountOf(groups, "NOT_HARMFUL")

(* A record that shows a concern is never shown as routine, nor is its     *)
(* group, whatever recognition, location or repetition says in its favour; *)
(* and without a concern nothing is urgent: unknown is not suspicious      *)
(* (classify_event, build_activity, build_routine).                        *)
ConcernSurfaces ==
    \A g \in groups :
        LET concern == \E i \in DOMAIN events :
                /\ Key(events[i]) = g.key
                /\ Concerns(events[i], IF events[i].image = NoImage THEN "none"
                                       ELSE artifact[events[i].image.path]) # {}
        IN  /\ concern => g.class.presentation = "NEEDS_ATTENTION" /\ g \notin Routine(groups)
            /\ Urgent(g.class) => concern

(* What a report says of an activity is what was stored with its records,  *)
(* although the rows come back in another order than they were collected   *)
(* in: the undated first (_persist_analysis, report_payload).  The score   *)
(* is not meant, nor whether an activity without a concern is shown as     *)
(* recognized: of equally urgent records the first that is read says so.   *)
ReportAgreesWithStore ==
    groups # {} =>
        \A told \in Groups(Reread(events), artifact) : \E stored \in groups :
            /\ stored.key = told.key
            /\ stored.occurrences = told.occurrences
            /\ stored.class.priority = told.class.priority
            /\ stored.class.category = told.class.category

(* Every urgent activity is in one lead with all its records, unless the   *)
(* bound leaves its lead out, which it does for none that is more urgent   *)
(* than one it keeps; and what a lead says of itself holds of each member. *)
(* (build_leads)                                                           *)
LeadsCoverUrgent ==
    LET told == Leads(groups)
    IN  /\ \A g \in groups : Urgent(g.class) =>
              \/ Cardinality({i \in DOMAIN told : g \in told[i].members}) = 1
              \/ /\ Len(told) = MaxLeads
                 /\ \A i \in DOMAIN told : Rank(told[i].priority) <= Rank(g.class.priority)
                                           /\ g \notin told[i].members
        /\ \A i \in DOMAIN told : \A g \in told[i].members :
              /\ g.class.category = told[i].category
              /\ g.class.priority = told[i].priority
              /\ g.confirmed => told[i].confirmed
              /\ g.records \subseteq told[i].references

(* More evidence never makes an activity less urgent: one more record, or  *)
(* what was found at one more path, raises priority or leaves it, and      *)
(* repetition does not lower it (classify_event, build_activity).          *)
EvidenceOnlyRaises ==
    LET raised(G) == \A told \in G, g \in groups :
            g.key = told.key => Rank(told.class.priority) <= Rank(g.class.priority)
    IN  groups # {} =>
           /\ Len(events) < MaxTotal =>
                 \A e \in Event : raised(Groups(Append(events, e), artifact))
           /\ \A p \in {e.image.path : e \in ToSet(events)} \cap Named : artifact[p] = "none" =>
                 \A status \in Statuses :
                     raised(Groups(events, [artifact EXCEPT ![p] = status]))

(* Every record is accounted for, at collection and in the report          *)
(* (build_activity, report_payload).                                       *)
ActivityAccounted == EveryRecordCounted /\ ReportAgreesWithStore

(* Concern is never lost: to recognition, to repetition, to more evidence  *)
(* or to the bound on leads (classify_event, build_leads).                 *)
UrgencyKept == ConcernSurfaces /\ EvidenceOnlyRaises /\ LeadsCoverUrgent
=============================================================================
