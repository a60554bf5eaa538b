------------------------------ MODULE Findings ------------------------------
(***************************************************************************)
(* Findings and the timeline of one collection: analysis/correlation.py    *)
(* relates records to artifacts, analysis/cross_source.py relates them to  *)
(* downloads and removable media, and backend/service.py stores both with  *)
(* the timeline of analysis/timeline.py.  An artifact is cited by its path,*)
(* which stands for its reference.                                         *)
(***************************************************************************)
EXTENDS Activity

CONSTANTS
    Browser,        \* lists of downloads the browser evidence may hold, each with
                    \* target and time; the same target may be downloaded again
    OnMedia,        \* paths under the removable medium
    Words,          \* <<text, path>>: the path is a word of the text, which is
                    \* that of a command or the path of an image
    Content,        \* the bytes of each named file
    Modified,       \* when each was last changed
    Beside,         \* the times of what else the timeline holds: processes, and
                    \* the states the investigation went through
    MaxLinks,       \* MAX_LINKS
    MaxTimeline,    \* MAX_TIMELINE_ENTRIES
    MaxPersisted    \* MAX_PERSISTED_TIMELINE

ASSUME FindingsAssumption ==
    /\ IsFiniteSet(Named)
    /\ \A d \in Browser : d \in Seq([target : Named, stamp : Nat])
    /\ Modified \in [Named -> Nat \ {Undated}] /\ Beside \in Seq(Nat)
    /\ MaxLinks \in Nat \ {0}
    /\ MaxTimeline \in Nat /\ MaxPersisted \in Nat

VARIABLES
    downloads,      \* the downloads the browser recorded, target and time
    findings,       \* the findings of the collection
    timeline        \* its stored timeline

cvars == <<avars, downloads, findings, timeline>>

-----------------------------------------------------------------------------
(* _finding: a finding only reaches the first tier when it is corroborated *)

FindingPriority(triage, references, corroborated) ==
    CASE triage = "NOT_HARMFUL" -> "PRIORITY_3"
      [] triage = "POTENTIALLY_HARMFUL" ->
            IF corroborated /\ {"execution_event", "artifact"} \subseteq {r[1] : r \in references}
            THEN "PRIORITY_1" ELSE "PRIORITY_2"
      [] OTHER -> IF corroborated THEN "PRIORITY_2" ELSE "PRIORITY_3"

Finding(category, about, triage, references, corroborated) ==
    [category |-> category, about |-> about, triage |-> triage, references |-> references,
     priority |-> FindingPriority(triage, references, corroborated)]

Naming(p) == {i \in DOMAIN events : events[i].image.path = p}
NamedPaths == {p \in Named : Naming(p) # {}}
EventRef(i) == <<"execution_event", Reference(events, i)>>
ArtifactRef(p) == <<"artifact", p>>
Hashed(p) == artifact[p] \in {"COLLECTED", "ALTERED"}
TwoSources(p) == Cardinality({events[i].source : i \in Naming(p)}) > 1

(* _artifact_findings: one of each category per path, from the first       *)
(* record that names it.                                                   *)
Both(p) == {EventRef(Min(Naming(p))), ArtifactRef(p)}

(* Mutant: a location is corroborated whether or not anything was there.   *)
LocationFindingsLoose ==
    {Finding("unusual_execution_location", p, "POTENTIALLY_HARMFUL", Both(p), TRUE) :
        p \in {p \in NamedPaths : artifact[p] # "none"
                                  /\ events[Min(Naming(p))].image.place = "transient"}}

(* Mutant: every record that names it is a finding.                        *)
LocationFindingsPerRecord ==
    {Finding("unusual_execution_location", events[i].image.path, "POTENTIALLY_HARMFUL",
             {EventRef(i), ArtifactRef(events[i].image.path)}, Hashed(events[i].image.path)) :
        i \in {i \in DOMAIN events : events[i].image.place = "transient"
                                     /\ artifact[events[i].image.path] # "none"}}

LocationFindings ==
    {Finding("unusual_execution_location", p, "POTENTIALLY_HARMFUL", Both(p),
             Hashed(p) \/ TwoSources(p)) :
        p \in {p \in NamedPaths : artifact[p] # "none"
                                  /\ events[Min(Naming(p))].image.place = "transient"}}

ArtifactFindings ==
    LocationFindings
    \cup {Finding("execution_artifact_missing", p, "NEEDS_REVIEW", Both(p), TwoSources(p)) :
             p \in {p \in NamedPaths : artifact[p] = "MISSING"}}
    \cup {Finding("execution_artifact_matched", p, "NOT_HARMFUL", Both(p), FALSE) :
             p \in {p \in NamedPaths : Hashed(p)}}

(* _integrity_findings cites the path itself, not the artifact's reference.*)
IntegrityFindings ==
    {Finding("artifact_hash_changed", p, "NEEDS_REVIEW", {<<"path", p>>}, TRUE) :
        p \in {p \in Named : artifact[p] = "ALTERED"}}

-----------------------------------------------------------------------------
(* correlate_downloads                                                     *)

(* _paths_in: what a record names are the words of its image and command   *)
(* that look like a path, so that a path with a space is named by none.    *)
InText(p) == {i \in DOMAIN events : {<<events[i].image.path, p>>, <<events[i].command.text, p>>}
                                        \cap Words # {}}

(* The window is never applied: correlate_downloads reads started_at, and  *)
(* the browser collector writes downloaded_at (downloads[k].stamp).        *)
Links(d) == artifact[d.target] # "none" \/ InText(d.target) # {}

(* Mutant: the first MaxLinks downloads are looked at.                     *)
FirstLinked ==
    LET first == UpTo(downloads, MaxLinks)
    IN  Where(first, {d \in ToSet(first) : Links(d)})

Linked == UpTo(Where(downloads, {d \in ToSet(downloads) : Links(d)}), MaxLinks)

(* The k-th finding is about the download d.                               *)
DownloadFinding(d, k) ==
    LET ran == InText(d.target) # {}
        there == artifact[d.target] # "none"
        confirmed == ran /\ Confirmed(events[Min(InText(d.target))])
    IN  Finding(IF ran THEN "download_executed" ELSE "download_present", d.target,
                IF confirmed THEN "POTENTIALLY_HARMFUL" ELSE "NEEDS_REVIEW",
                {<<"browser_download", k>>}
                    \cup (IF there THEN {ArtifactRef(d.target)} ELSE {})
                    \cup (IF ran THEN {EventRef(Min(InText(d.target)))} ELSE {}),
                ran /\ there)

(* correlate_removable_media: the same digest on and off the medium is a   *)
(* copy.                                                                   *)
MediaFindings ==
    LET touched == UNION {InText(p) : p \in OnMedia}
        written == {p \in OnMedia \cap Named : artifact[p] # "none"}
        copies == {p \in written : Hashed(p)
                      /\ \E q \in Named \ OnMedia : Hashed(q) /\ Content[q] = Content[p]}
    IN  IF touched = {} /\ written = {} THEN {}
        ELSE {Finding("removable_media_activity", "medium",
                      IF copies # {} THEN "POTENTIALLY_HARMFUL" ELSE "NEEDS_REVIEW",
                      {<<"removable_device", "medium">>} \cup {EventRef(i) : i \in touched}
                          \cup {ArtifactRef(p) : p \in written},
                      copies # {})}

AllFindings == ArtifactFindings \cup IntegrityFindings \cup MediaFindings
               \cup {DownloadFinding(Linked[k], k) : k \in DOMAIN Linked}

-----------------------------------------------------------------------------
(* build_timeline, and the rows _persist_analysis keeps of it              *)

(* What is entered besides the findings: the events, the artifacts in some *)
(* order, with the time of a file that is there, and the rest.             *)
TimelineEntries ==
    LET seen == SetToSeq({p \in Named : artifact[p] # "none"})
        time(p) == IF Hashed(p) THEN Modified[p] ELSE Undated
    IN  [i \in DOMAIN events |-> [stamp |-> events[i].stamp]]
        \o [i \in DOMAIN seen |-> [stamp |-> time(seen[i])]]
        \o [i \in DOMAIN Beside |-> [stamp |-> Beside[i]]]

(* Mutant: an entry without a time is placed among the dated.              *)
EntriesTimed(F) == [dated |-> InOrder(TimelineEntries, DOMAIN TimelineEntries), undated |-> F]

(* By position in TimelineEntries; a finding has no time of its own.       *)
Entries(F) ==
    LET s == TimelineEntries
    IN  [dated |-> InOrder(s, {i \in DOMAIN s : Dated(s[i])}),
         undated |-> {<<"entry", i>> : i \in {i \in DOMAIN s : ~Dated(s[i])}} \cup F]

NewestKept(dated) ==
    SubSeq(dated, Max({1, Len(dated) - MaxTimeline + 1}), Len(dated))

(* Any of the undated may be the ones for which there is no room.          *)
SomeOf(n, U) == IF Cardinality(U) <= n THEN U
                ELSE CHOOSE V \in SUBSET U : Cardinality(V) = n

(* Of the rows, that the timeline was truncated is not stored.             *)
Timeline(F) ==
    LET all == Entries(F)
        over == Len(all.dated) + Cardinality(all.undated) > MaxTimeline
        kept == IF over THEN NewestKept(all.dated) ELSE all.dated
        rest == IF over THEN SomeOf(MaxTimeline - Len(kept), all.undated) ELSE all.undated
        rows == UpTo(kept, MaxPersisted)
    IN  [stored |-> TRUE, dated |-> rows, undated |-> SomeOf(MaxPersisted - Len(rows), rest)]

Nothing == [stored |-> FALSE, dated |-> <<>>, undated |-> {}]

-----------------------------------------------------------------------------
CInit == AInit /\ downloads \in Browser /\ findings = {} /\ timeline = Nothing

(* _persist_analysis: findings, citations and timeline in one transaction. *)
Correlates ==
    /\ groups # {} /\ ~timeline.stored
    /\ findings' = AllFindings
    /\ timeline' = Timeline({<<"finding", f>> : f \in AllFindings})
    /\ UNCHANGED <<avars, downloads>>

CNext == (ANext /\ UNCHANGED <<downloads, findings, timeline>>) \/ Correlates
CSpec == CInit /\ [][CNext]_cvars

-----------------------------------------------------------------------------
(* Properties                                                              *)

Stored == timeline.stored

Downloaded(f) == {r \in f.references : r[1] = "browser_download"}
Tells(p) == Naming(p) \cup InText(p)
PathsOf(f) == IF f.category = "removable_media_activity" THEN OnMedia ELSE {f.about}

(* A finding names what it rests on: each of its citations leads to a      *)
(* record or an artifact of the collection, the ones about a path name     *)
(* that path, and a category says one thing of a path only once, or once   *)
(* for each download.  That a file changed since it was last hashed is     *)
(* cited by path and leads to no artifact row (_finding, finding_evidence).*)
CitationsResolve ==
    /\ \A f \in findings : f.references # {} /\ \A r \in f.references :
          CASE r[1] = "execution_event" ->
                  \E p \in PathsOf(f) : \E i \in Tells(p) : Reference(events, i) = r[2]
            [] r[1] = "artifact" -> artifact[r[2]] # "none" /\ r[2] \in PathsOf(f)
            [] r[1] = "path" -> f.category = "artifact_hash_changed"
            [] OTHER -> TRUE
    /\ \A f, g \in findings : f.category = g.category /\ f.about = g.about =>
          f = g \/ Downloaded(f) # Downloaded(g)

(* What is put first rests on more than one observation: a record that ran *)
(* and an artifact at the same path, which was read or which a second      *)
(* source named, or a copy on the medium (_investigator_priority).         *)
FirstTierCorroborated ==
    \A f \in findings : f.priority = "PRIORITY_1" =>
        \/ f.about \in Named /\ Tells(f.about) # {} /\ artifact[f.about] # "none"
           /\ (Hashed(f.about) \/ TwoSources(f.about)
               \/ f.category = "download_executed")
        \/ \E p \in OnMedia \cap Named, q \in Named \ OnMedia : Hashed(p) /\ Hashed(q) /\ Content[p] = Content[q]

(* A download whose file is there, or that a record names by word, is      *)
(* reported unless the bound on links was reached (correlate_downloads).   *)
DownloadsReported ==
    Stored => \A i \in DOMAIN downloads :
        LET d == downloads[i]
            told == {f \in findings : f.category \in {"download_executed", "download_present"}}
        IN  (artifact[d.target] # "none" \/ InText(d.target) # {}) =>
                (\E f \in told : f.about = d.target) \/ Cardinality(told) >= MaxLinks

(* The stored timeline holds every entry and every finding when they are   *)
(* within both bounds, and gives no time to what has none; beyond them an  *)
(* undated entry, and so a finding, is there only if every dated one is.   *)
(* Which of the dated entries the bounds leave is not stated:              *)
(* build_timeline keeps the newest, _persist_analysis the oldest of those. *)
TimelineHolds ==
    LET s == TimelineEntries
        rows == timeline.dated
        total == Len(s) + Cardinality(findings)
    IN  Stored =>
        /\ \A n \in DOMAIN rows : Dated(s[rows[n]])
        /\ \A row \in timeline.undated : row[1] = "entry" => ~Dated(s[row[2]])
        /\ total <= MaxTimeline /\ total <= MaxPersisted =>
              Len(rows) + Cardinality(timeline.undated) = total
        /\ timeline.undated # {} =>
              Len(rows) = Cardinality({i \in DOMAIN s : Dated(s[i])})

(* Findings rest on the collection, the first tier on more than one record *)
(* of it, and what was found is reported or said to be missing (correlate, *)
(* correlate_downloads, build_timeline).                                   *)
FindingsSupported ==
    CitationsResolve /\ FirstTierCorroborated /\ DownloadsReported /\ TimelineHolds

=============================================================================
