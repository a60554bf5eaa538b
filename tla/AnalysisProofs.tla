--------------------------- MODULE AnalysisProofs -----------------------------
(***************************************************************************)
(* What the analysis of a collection guarantees for every set of records,  *)
(* paths, downloads, drivers and processes and every bound: that findings  *)
(* rest on what was collected (Findings), and that an alert says what the  *)
(* inventory and the memory image show (Detections).                       *)
(***************************************************************************)
EXTENDS Briefs, Detections, ActivityProofs

-----------------------------------------------------------------------------
(* Findings                                                                *)

(* The first record that names a path is one of the collection.            *)
LEMMA FirstNaming ==
  ASSUME HTypeOK
  PROVE  /\ DOMAIN events \subseteq Nat
         /\ \A p : Naming(p) \subseteq DOMAIN events /\ InText(p) \subseteq DOMAIN events
         /\ \A p : Naming(p) \subseteq Tells(p) /\ InText(p) \subseteq Tells(p)
         /\ \A p : Tells(p) \subseteq DOMAIN events
         /\ \A p : Naming(p) # {} => Min(Naming(p)) \in Naming(p)
         /\ \A p : InText(p) # {} => Min(InText(p)) \in InText(p)
<1>1. DOMAIN events \subseteq Nat
  BY DEF HTypeOK
<1>2. \A p : Naming(p) \subseteq DOMAIN events /\ InText(p) \subseteq DOMAIN events
  BY DEF Naming, InText
<1>3. /\ \A p : Naming(p) \subseteq Tells(p) /\ InText(p) \subseteq Tells(p)
      /\ \A p : Tells(p) \subseteq DOMAIN events
  BY <1>2 DEF Tells
<1>4. /\ \A p : Naming(p) # {} => Min(Naming(p)) \in Naming(p)
      /\ \A p : InText(p) # {} => Min(InText(p)) \in InText(p)
  BY <1>1, <1>2, LeastOf
<1>5. QED
  BY <1>1, <1>2, <1>3, <1>4

LEMMA FirstTierMeans ==
  ASSUME NEW t, NEW R, NEW k \in BOOLEAN, FindingPriority(t, R, k) = "PRIORITY_1"
  PROVE  t = "POTENTIALLY_HARMFUL" /\ k
BY DEF FindingPriority

(* Where a finding comes from.                                             *)
LocationFound(f) == \E p \in NamedPaths :
    /\ artifact[p] # "none"
    /\ f = Finding("unusual_execution_location", p, "POTENTIALLY_HARMFUL", Both(p),
                   Hashed(p) \/ TwoSources(p))
MissingFound(f) == \E p \in NamedPaths :
    /\ artifact[p] = "MISSING"
    /\ f = Finding("execution_artifact_missing", p, "NEEDS_REVIEW", Both(p), TwoSources(p))
MatchFound(f) == \E p \in NamedPaths :
    /\ Hashed(p)
    /\ f = Finding("execution_artifact_matched", p, "NOT_HARMFUL", Both(p), FALSE)
ChangeFound(f) == \E p \in Named :
    /\ artifact[p] = "ALTERED"
    /\ f = Finding("artifact_hash_changed", p, "NEEDS_REVIEW", {<<"path", p>>}, TRUE)
DownloadFound(f) == \E k \in DOMAIN Linked : f = DownloadFinding(Linked[k], k)

LEMMA FoundSomewhere ==
  ASSUME NEW f \in AllFindings
  PROVE  \/ LocationFound(f) \/ MissingFound(f) \/ MatchFound(f) \/ ChangeFound(f)
         \/ f \in MediaFindings \/ DownloadFound(f)
<1>1. CASE f \in LocationFindings
  BY <1>1 DEF LocationFindings, LocationFound
<1>2. CASE f \in ArtifactFindings /\ f \notin LocationFindings
  BY <1>2 DEF ArtifactFindings, MissingFound, MatchFound
<1>3. CASE f \in IntegrityFindings
  BY <1>3 DEF IntegrityFindings, ChangeFound
<1>4. CASE f \in MediaFindings
  BY <1>4
<1>5. CASE f \in {DownloadFinding(Linked[k], k) : k \in DOMAIN Linked}
  BY <1>5 DEF DownloadFound
<1>6. QED
  BY <1>1, <1>2, <1>3, <1>4, <1>5 DEF AllFindings

(* The downloads that are linked: all of them, or as many as the bound.    *)
LEMMA LinkedDownloads ==
  ASSUME downloads \in Browser
  PROVE  /\ Linked \in Seq([target : Named, stamp : Nat])
         /\ DOMAIN Linked = 1..Len(Linked) /\ Len(Linked) <= MaxLinks
         /\ \A k \in DOMAIN Linked : Links(Linked[k]) /\ Linked[k].target \in Named
         /\ \/ Len(Linked) = MaxLinks
            \/ \A i \in DOMAIN downloads :
                  Links(downloads[i]) => \E k \in DOMAIN Linked : Linked[k] = downloads[i]
<1>1. PICK D, d, T, w, u :
        /\ D = [target : Named, stamp : Nat] /\ d = downloads
        /\ T = {x \in ToSet(downloads) : Links(x)} /\ w = Where(downloads, T) /\ u = Linked
  OBVIOUS
<1>2. d \in Seq(D)
  BY <1>1, FindingsAssumption
<1>3. /\ w \in Seq(D) /\ DOMAIN w = 1..Len(w)
      /\ \A n \in DOMAIN w : w[n] \in T /\ \E i \in DOMAIN d : w[n] = d[i]
      /\ \A i \in DOMAIN d : d[i] \in T => \E n \in DOMAIN w : w[n] = d[i]
  <2>1. w = Where(d, T)
    BY <1>1
  <2>2. QED
    BY <1>2, <2>1, WhereSelects
<1>4. u = UpTo(w, MaxLinks) /\ MaxLinks \in Nat
  BY <1>1, FindingsAssumption DEF Linked
<1>5. /\ u \in Seq(D) /\ DOMAIN u = 1..Len(u)
      /\ Len(u) = IF Len(w) < MaxLinks THEN Len(w) ELSE MaxLinks
      /\ \A i \in DOMAIN u : i \in DOMAIN w /\ u[i] = w[i]
  BY <1>3, <1>4, UpToShortens
<1>6. \A k \in DOMAIN u : Links(u[k]) /\ u[k].target \in Named
  <2> SUFFICES ASSUME NEW k \in DOMAIN u PROVE Links(u[k]) /\ u[k].target \in Named
    OBVIOUS
  <2>1. u[k] \in T /\ u[k] \in D
    BY <1>3, <1>5
  <2>2. Links(u[k])
    BY <1>1, <2>1
  <2>3. u[k].target \in Named
    BY <1>1, <2>1
  <2>4. QED
    BY <2>2, <2>3
<1>7. ASSUME Len(u) # MaxLinks, NEW i \in DOMAIN d, Links(d[i])
      PROVE  \E k \in DOMAIN u : u[k] = d[i]
  <2>1. d[i] \in T
    BY <1>1, <1>7 DEF ToSet
  <2>2. PICK n \in DOMAIN w : w[n] = d[i]
    BY <1>3, <2>1
  <2>3. DOMAIN u = DOMAIN w
    BY <1>3, <1>5, <1>7
  <2>4. QED
    BY <1>5, <2>2, <2>3
<1>8. Len(u) <= MaxLinks
  BY <1>3, <1>4, <1>5
<1>9. QED
  BY <1>1, <1>5, <1>6, <1>7, <1>8

(* Each kind of finding cites what it is about and says it once.           *)
Resolves(f) ==
    /\ f.references # {}
    /\ \A r \in f.references :
          CASE r[1] = "execution_event" ->
                  \E p \in PathsOf(f) : \E i \in Tells(p) : Reference(events, i) = r[2]
            [] r[1] = "artifact" -> artifact[r[2]] # "none" /\ r[2] \in PathsOf(f)
            [] r[1] = "path" -> f.category = "artifact_hash_changed"
            [] OTHER -> TRUE

LEMMA BothResolve ==
  ASSUME HTypeOK, NEW p \in NamedPaths, artifact[p] # "none", NEW c, NEW t, NEW k,
         c # "removable_media_activity"
  PROVE  Resolves(Finding(c, p, t, Both(p), k))
<1>1. PICK f : f = Finding(c, p, t, Both(p), k)
  OBVIOUS
<1>2. f.references = Both(p) /\ PathsOf(f) = {p}
  BY <1>1 DEF Finding, PathsOf
<1>3. PICK i : i = Min(Naming(p)) /\ i \in Tells(p)
  BY FirstNaming DEF NamedPaths
<1>4. Both(p) = {<<"execution_event", Reference(events, i)>>, <<"artifact", p>>}
  BY <1>3 DEF Both, EventRef, ArtifactRef
<1>5. \A r \in f.references : \/ r = <<"execution_event", Reference(events, i)>>
                              \/ r = <<"artifact", p>>
  BY <1>2, <1>4
<1>6. Resolves(f)
  BY <1>2, <1>3, <1>4, <1>5 DEF Resolves
<1>7. QED
  BY <1>1, <1>6

LEMMA ArtifactFindingResolves ==
  ASSUME HTypeOK, NEW f, LocationFound(f) \/ MissingFound(f) \/ MatchFound(f)
  PROVE  Resolves(f)
<1>1. CASE LocationFound(f)
  BY <1>1, BothResolve DEF LocationFound
<1>2. CASE MissingFound(f)
  BY <1>2, BothResolve DEF MissingFound
<1>3. CASE MatchFound(f)
  BY <1>3, BothResolve DEF MatchFound, Hashed
<1>4. QED
  BY <1>1, <1>2, <1>3

LEMMA ChangeFindingResolves ==
  ASSUME NEW f, ChangeFound(f)
  PROVE  Resolves(f)
<1>1. PICK p \in Named : f = Finding("artifact_hash_changed", p, "NEEDS_REVIEW", {<<"path", p>>}, TRUE)
  BY DEF ChangeFound
<1>2. f.references = {<<"path", p>>} /\ f.category = "artifact_hash_changed"
  BY <1>1 DEF Finding
<1>3. QED
  BY <1>2 DEF Resolves

LEMMA MediaFindingResolves ==
  ASSUME HTypeOK, NEW f \in MediaFindings
  PROVE  Resolves(f)
<1> DEFINE touched == UNION {InText(p) : p \in OnMedia}
           written == {p \in OnMedia \cap Named : artifact[p] # "none"}
<1>1. /\ f.references = {<<"removable_device", "medium">>} \cup {EventRef(i) : i \in touched}
                          \cup {ArtifactRef(p) : p \in written}
      /\ f.category = "removable_media_activity"
  BY DEF MediaFindings, Finding
<1>2. PathsOf(f) = OnMedia
  BY <1>1 DEF PathsOf
<1>3. ASSUME NEW r \in f.references
      PROVE  \/ r = <<"removable_device", "medium">>
             \/ \E p \in OnMedia : \E i \in InText(p) : r = <<"execution_event", Reference(events, i)>>
             \/ \E p \in OnMedia : artifact[p] # "none" /\ r = <<"artifact", p>>
  BY <1>1 DEF EventRef, ArtifactRef
<1>4. ASSUME NEW r \in f.references
      PROVE  CASE r[1] = "execution_event" ->
                  \E p \in PathsOf(f) : \E i \in Tells(p) : Reference(events, i) = r[2]
            [] r[1] = "artifact" -> artifact[r[2]] # "none" /\ r[2] \in PathsOf(f)
            [] r[1] = "path" -> f.category = "artifact_hash_changed"
            [] OTHER -> TRUE
  <2>1. CASE r = <<"removable_device", "medium">>
    BY <2>1
  <2>2. CASE \E p \in OnMedia : \E i \in InText(p) : r = <<"execution_event", Reference(events, i)>>
    <3>1. PICK p \in OnMedia : \E i \in InText(p) : r = <<"execution_event", Reference(events, i)>>
      BY <2>2
    <3>2. PICK i \in InText(p) : r = <<"execution_event", Reference(events, i)>>
      BY <3>1
    <3>3. r[1] = "execution_event" /\ r[2] = Reference(events, i) /\ i \in Tells(p)
      BY <3>2, FirstNaming
    <3>4. QED
      BY <1>2, <3>3
  <2>3. CASE \E p \in OnMedia : artifact[p] # "none" /\ r = <<"artifact", p>>
    BY <1>2, <2>3
  <2>4. QED
    BY <1>3, <2>1, <2>2, <2>3
<1>5. QED
  BY <1>1, <1>4 DEF Resolves

LEMMA DownloadFindingIs ==
  ASSUME NEW d, NEW k
  PROVE  LET f == DownloadFinding(d, k)
         IN  /\ f.category \in {"download_executed", "download_present"} /\ f.about = d.target
             /\ f.references = {<<"browser_download", k>>}
                    \cup (IF artifact[d.target] # "none" THEN {ArtifactRef(d.target)} ELSE {})
                    \cup (IF InText(d.target) # {} THEN {EventRef(Min(InText(d.target)))} ELSE {})
             /\ f.priority = "PRIORITY_1" =>
                    /\ InText(d.target) # {} /\ artifact[d.target] # "none"
                    /\ f.category = "download_executed"
<1>1. PICK f : f = DownloadFinding(d, k)
  OBVIOUS
<1>2. /\ f.category \in {"download_executed", "download_present"} /\ f.about = d.target
      /\ InText(d.target) # {} => f.category = "download_executed"
  BY <1>1 DEF DownloadFinding, Finding
<1>3. f.references = {<<"browser_download", k>>}
                    \cup (IF artifact[d.target] # "none" THEN {ArtifactRef(d.target)} ELSE {})
                    \cup (IF InText(d.target) # {} THEN {EventRef(Min(InText(d.target)))} ELSE {})
  BY <1>1 DEF DownloadFinding, Finding
<1>4. f.priority = "PRIORITY_1" => InText(d.target) # {} /\ artifact[d.target] # "none"
  BY <1>1, FirstTierMeans DEF DownloadFinding, Finding
<1>5. QED
  BY <1>1, <1>2, <1>3, <1>4

LEMMA DownloadFindingResolves ==
  ASSUME HTypeOK, NEW f, DownloadFound(f)
  PROVE  Resolves(f)
<1>1. PICK k, p, d : f = DownloadFinding(d, k) /\ p = d.target
  BY DEF DownloadFound
<1>2. PathsOf(f) = {p} /\ <<"browser_download", k>> \in f.references
  BY <1>1, DownloadFindingIs DEF PathsOf
<1>3. ASSUME NEW r \in f.references
      PROVE  \/ r = <<"browser_download", k>>
             \/ artifact[p] # "none" /\ r = <<"artifact", p>>
             \/ \E i \in InText(p) : r = <<"execution_event", Reference(events, i)>>
  BY <1>1, DownloadFindingIs, FirstNaming DEF EventRef, ArtifactRef
<1>4. ASSUME NEW r \in f.references
      PROVE  CASE r[1] = "execution_event" ->
                  \E q \in PathsOf(f) : \E i \in Tells(q) : Reference(events, i) = r[2]
            [] r[1] = "artifact" -> artifact[r[2]] # "none" /\ r[2] \in PathsOf(f)
            [] r[1] = "path" -> f.category = "artifact_hash_changed"
            [] OTHER -> TRUE
  <2>1. CASE r = <<"browser_download", k>>
    BY <2>1
  <2>2. CASE \E i \in InText(p) : r = <<"execution_event", Reference(events, i)>>
    <3>1. PICK i \in InText(p) : r = <<"execution_event", Reference(events, i)>>
      BY <2>2
    <3>2. r[1] = "execution_event" /\ r[2] = Reference(events, i) /\ i \in Tells(p)
      BY <3>1, FirstNaming
    <3>3. QED
      BY <1>2, <3>1, <3>2
  <2>3. CASE artifact[p] # "none" /\ r = <<"artifact", p>>
    BY <1>2, <2>3
  <2>4. QED
    BY <1>3, <2>1, <2>2, <2>3
<1>5. QED
  BY <1>2, <1>4 DEF Resolves

LEMMA FoundCategories ==
  ASSUME NEW f
  PROVE  /\ LocationFound(f) => f.category = "unusual_execution_location"
         /\ MissingFound(f) => f.category = "execution_artifact_missing"
         /\ MatchFound(f) => f.category = "execution_artifact_matched"
         /\ ChangeFound(f) => f.category = "artifact_hash_changed"
         /\ f \in MediaFindings => f.category = "removable_media_activity"
         /\ DownloadFound(f) => f.category \in {"download_executed", "download_present"}
<1>1. LocationFound(f) => f.category = "unusual_execution_location"
  BY DEF LocationFound, Finding
<1>2. MissingFound(f) => f.category = "execution_artifact_missing"
  BY DEF MissingFound, Finding
<1>3. MatchFound(f) => f.category = "execution_artifact_matched"
  BY DEF MatchFound, Finding
<1>4. ChangeFound(f) => f.category = "artifact_hash_changed"
  BY DEF ChangeFound, Finding
<1>5. f \in MediaFindings => f.category = "removable_media_activity"
  BY DEF MediaFindings, Finding
<1>6. DownloadFound(f) => f.category \in {"download_executed", "download_present"}
  BY DownloadFindingIs DEF DownloadFound
<1>7. QED
  BY <1>1, <1>2, <1>3, <1>4, <1>5, <1>6

(* A category says one thing of a path, or one for each download.          *)
LEMMA SaidOnce ==
  ASSUME NEW f \in AllFindings, NEW g \in AllFindings, f.category = g.category, f.about = g.about
  PROVE  f = g \/ Downloaded(f) # Downloaded(g)
<1>1. CASE LocationFound(f)
  <2>1. LocationFound(g)
    BY <1>1, FoundSomewhere, FoundCategories
  <2>2. QED
    BY <1>1, <2>1 DEF LocationFound, Finding
<1>2. CASE MissingFound(f)
  <2>1. MissingFound(g)
    BY <1>2, FoundSomewhere, FoundCategories
  <2>2. QED
    BY <1>2, <2>1 DEF MissingFound, Finding
<1>3. CASE MatchFound(f)
  <2>1. MatchFound(g)
    BY <1>3, FoundSomewhere, FoundCategories
  <2>2. QED
    BY <1>3, <2>1 DEF MatchFound, Finding
<1>4. CASE ChangeFound(f)
  <2>1. ChangeFound(g)
    BY <1>4, FoundSomewhere, FoundCategories
  <2>2. QED
    BY <1>4, <2>1 DEF ChangeFound, Finding
<1>5. CASE f \in MediaFindings
  <2>1. g \in MediaFindings
    BY <1>5, FoundSomewhere, FoundCategories
  <2>2. QED
    BY <1>5, <2>1 DEF MediaFindings
<1>6. CASE DownloadFound(f)
  <2>1. DownloadFound(g)
    BY <1>6, FoundSomewhere, FoundCategories
  <2>2. PICK k \in DOMAIN Linked, l \in DOMAIN Linked :
            f = DownloadFinding(Linked[k], k) /\ g = DownloadFinding(Linked[l], l)
    BY <1>6, <2>1 DEF DownloadFound
  <2>3. Downloaded(f) = {<<"browser_download", k>>} /\ Downloaded(g) = {<<"browser_download", l>>}
    BY <2>2, DownloadFindingIs DEF Downloaded, EventRef, ArtifactRef
  <2>4. CASE k = l
    BY <2>2, <2>4
  <2>5. CASE k # l
    <3>1. <<"browser_download", k>> # <<"browser_download", l>>
      BY <2>5
    <3>2. QED
      BY <2>3, <3>1
  <2>6. QED
    BY <2>4, <2>5
<1>7. QED
  BY <1>1, <1>2, <1>3, <1>4, <1>5, <1>6, FoundSomewhere

LEMMA AllResolve ==
  ASSUME HTypeOK, findings \in {{}, AllFindings}
  PROVE  CitationsResolve
<1>1. ASSUME NEW f \in AllFindings PROVE Resolves(f)
  BY FoundSomewhere, ArtifactFindingResolves, ChangeFindingResolves, MediaFindingResolves,
     DownloadFindingResolves
<1>2. QED
  BY <1>1, SaidOnce DEF CitationsResolve, Resolves

LEMMA FirstTierRests ==
  ASSUME HTypeOK, downloads \in Browser, findings \in {{}, AllFindings}
  PROVE  FirstTierCorroborated
<1> SUFFICES ASSUME NEW f \in AllFindings, f.priority = "PRIORITY_1"
             PROVE  \/ f.about \in Named /\ Tells(f.about) # {} /\ artifact[f.about] # "none"
                       /\ (Hashed(f.about) \/ TwoSources(f.about)
                           \/ f.category = "download_executed")
                    \/ \E p \in OnMedia \cap Named, q \in Named \ OnMedia :
                          Hashed(p) /\ Hashed(q) /\ Content[p] = Content[q]
  BY DEF FirstTierCorroborated
<1>1. CASE LocationFound(f)
  <2>1. PICK p \in NamedPaths :
            /\ artifact[p] # "none"
            /\ f = Finding("unusual_execution_location", p, "POTENTIALLY_HARMFUL", Both(p),
                           Hashed(p) \/ TwoSources(p))
    BY <1>1 DEF LocationFound
  <2>2. f.about = p /\ p \in Named /\ Tells(p) # {}
    BY <2>1, FirstNaming DEF Finding, NamedPaths
  <2>3. Hashed(p) \/ TwoSources(p)
    <3>1. FindingPriority("POTENTIALLY_HARMFUL", Both(p), Hashed(p) \/ TwoSources(p)) = "PRIORITY_1"
      BY <2>1 DEF Finding
    <3>2. QED
      BY <3>1 DEF FindingPriority
  <2>4. QED
    BY <2>1, <2>2, <2>3
<1>2. CASE MissingFound(f)
  BY <1>2 DEF MissingFound, Finding, FindingPriority
<1>3. CASE MatchFound(f)
  BY <1>3 DEF MatchFound, Finding, FindingPriority
<1>4. CASE ChangeFound(f)
  BY <1>4 DEF ChangeFound, Finding, FindingPriority
<1>5. CASE f \in MediaFindings
  <2> DEFINE copies == {p \in {p \in OnMedia \cap Named : artifact[p] # "none"} : Hashed(p)
                         /\ \E q \in Named \ OnMedia : Hashed(q) /\ Content[q] = Content[p]}
  <2>1. copies # {}
    BY <1>5 DEF MediaFindings, Finding, FindingPriority
  <2>2. QED
    BY <2>1
<1>6. CASE DownloadFound(f)
  <2>1. PICK k \in DOMAIN Linked : f = DownloadFinding(Linked[k], k)
    BY <1>6 DEF DownloadFound
  <2>2. PICK d : d = Linked[k] /\ d.target \in Named
    BY LinkedDownloads
  <2>3. /\ f.about = d.target /\ InText(d.target) # {} /\ artifact[d.target] # "none"
        /\ f.category = "download_executed"
    BY <2>1, <2>2, DownloadFindingIs
  <2>4. Tells(d.target) # {}
    BY <2>3, FirstNaming
  <2>5. QED
    BY <2>2, <2>3, <2>4
<1>7. QED
  BY <1>1, <1>2, <1>3, <1>4, <1>5, <1>6, FoundSomewhere

(* There are as many findings about downloads as there are links.          *)
LEMMA DownloadsTold ==
  ASSUME downloads \in Browser, findings = AllFindings
  PROVE  LET told == {f \in findings : f.category \in {"download_executed", "download_present"}}
         IN  IsFiniteSet(told) /\ Cardinality(told) = Len(Linked)
<1>1. PICK told, L : /\ told = {f \in findings : f.category \in {"download_executed", "download_present"}}
                     /\ L = Linked
  OBVIOUS
<1>2. told = {DownloadFinding(L[k], k) : k \in DOMAIN L}
  <2>1. ASSUME NEW k \in DOMAIN L PROVE DownloadFinding(L[k], k) \in told
    <3>1. DownloadFinding(L[k], k) \in findings
      BY <1>1 DEF AllFindings
    <3>2. QED
      BY <1>1, <3>1, DownloadFindingIs
  <2>2. ASSUME NEW f \in told PROVE \E k \in DOMAIN L : f = DownloadFinding(L[k], k)
    <3>1. f \in AllFindings /\ f.category \in {"download_executed", "download_present"}
      BY <1>1
    <3>2. DownloadFound(f)
      BY <3>1, FoundSomewhere, FoundCategories
    <3>3. QED
      BY <1>1, <3>2 DEF DownloadFound
  <2>3. QED
    BY <2>1, <2>2
<1>3. PICK say : say = [k \in DOMAIN L |-> DownloadFinding(L[k], k)]
  OBVIOUS
<1>4. ASSUME NEW k \in DOMAIN L, NEW l \in DOMAIN L, say[k] = say[l] PROVE k = l
  <2>1. /\ <<"browser_download", k>> \in say[l].references
        /\ say[l].references \subseteq {<<"browser_download", l>>}
                 \cup {ArtifactRef(L[l].target)} \cup {EventRef(Min(InText(L[l].target)))}
    <3>1. say[k].references = say[l].references
      BY <1>4
    <3>2. <<"browser_download", k>> \in say[k].references
      BY <1>3, DownloadFindingIs
    <3>3. say[l].references \subseteq {<<"browser_download", l>>}
                 \cup {ArtifactRef(L[l].target)} \cup {EventRef(Min(InText(L[l].target)))}
      BY <1>3, DownloadFindingIs
    <3>4. QED
      BY <3>1, <3>2, <3>3
  <2>2. <<"browser_download", k>> = <<"browser_download", l>>
    BY <2>1 DEF ArtifactRef, EventRef
  <2>3. QED
    BY <2>2
<1>5. say \in Bijection(DOMAIN L, told)
  <2>1. say \in [DOMAIN L -> told]
    BY <1>2, <1>3
  <2>2. say \in Injection(DOMAIN L, told)
    <3>1. \A k, l \in DOMAIN L : say[k] = say[l] => k = l
      BY <1>4
    <3>2. QED
      BY <2>1, <3>1, Fun_IsInj
  <2>3. say \in Surjection(DOMAIN L, told)
    BY <1>2, <1>3, <2>1, Fun_IsSurj
  <2>4. QED
    BY <2>2, <2>3 DEF Bijection
<1>6. IsFiniteSet(DOMAIN L) /\ Cardinality(DOMAIN L) = Len(L)
  <2>1. DOMAIN L = 1..Len(L) /\ Len(L) \in Nat
    BY <1>1, LinkedDownloads
  <2>2. 1 \in Int /\ Len(L) \in Int
    BY <2>1
  <2>3. IsFiniteSet(1..Len(L)) /\ Cardinality(1..Len(L)) = IF 1 > Len(L) THEN 0 ELSE Len(L) - 1 + 1
    BY <2>2, FS_Interval
  <2>4. QED
    BY <2>1, <2>3
<1>7. IsFiniteSet(told) /\ Cardinality(told) = Cardinality(DOMAIN L)
  BY <1>5, <1>6, FS_Bijection DEF ExistsBijection
<1>8. QED
  BY <1>1, <1>6, <1>7

LEMMA DownloadsAreTold ==
  ASSUME HTypeOK, downloads \in Browser, Stored => findings = AllFindings
  PROVE  DownloadsReported
<1> SUFFICES ASSUME Stored, NEW i \in DOMAIN downloads,
                    \/ artifact[downloads[i].target] # "none"
                    \/ InText(downloads[i].target) # {},
                    NEW told, told = {f \in findings : f.category \in {"download_executed", "download_present"}}
             PROVE  (\E f \in told : f.about = downloads[i].target) \/ Cardinality(told) >= MaxLinks
  BY Zenon DEF DownloadsReported
<1>1. CASE Len(Linked) = MaxLinks
  <2>1. Cardinality(told) = Len(Linked) /\ MaxLinks \in Nat
    BY DownloadsTold, FindingsAssumption
  <2>2. QED
    BY <1>1, <2>1
<1>2. CASE Len(Linked) # MaxLinks
  <2>1. Links(downloads[i])
    BY DEF Links
  <2>2. PICK k \in DOMAIN Linked : Linked[k] = downloads[i]
    BY <1>2, <2>1, LinkedDownloads
  <2>3. PICK f : f = DownloadFinding(downloads[i], k)
    OBVIOUS
  <2>4. f \in AllFindings
    BY <2>2, <2>3 DEF AllFindings
  <2>5. f.category \in {"download_executed", "download_present"} /\ f.about = downloads[i].target
    BY <2>3, DownloadFindingIs
  <2>6. QED
    BY <2>4, <2>5
<1>3. QED
  BY <1>1, <1>2

-----------------------------------------------------------------------------
(* The timeline                                                            *)

LEMMA SomeOfSelects ==
  ASSUME NEW U, IsFiniteSet(U), NEW n \in Nat
  PROVE  LET V == SomeOf(n, U)
         IN  /\ V \subseteq U
             /\ Cardinality(U) <= n => V = U
             /\ Cardinality(U) > n => Cardinality(V) = n
             /\ V # {} => n # 0
<1>1. CASE Cardinality(U) <= n
  <2>1. SomeOf(n, U) = U /\ Cardinality(U) \in Nat
    BY <1>1, FS_CardinalityType DEF SomeOf
  <2>2. U # {} => Cardinality(U) # 0
    BY FS_EmptySet
  <2>3. QED
    BY <1>1, <2>1, <2>2
<1>2. CASE ~(Cardinality(U) <= n)
  <2>1. Cardinality(U) \in Nat /\ ExistsBijection(1..Cardinality(U), U)
    BY FS_CardinalityType
  <2>2. PICK f : f \in Bijection(1..Cardinality(U), U)
    BY <2>1 DEF ExistsBijection
  <2>3. PICK V : V = {f[i] : i \in 1..n}
    OBVIOUS
  <2>4. f \in [1..Cardinality(U) -> U] /\ \A i, k \in 1..Cardinality(U) : f[i] = f[k] => i = k
    BY <2>2 DEF Bijection, Injection, IsInjective
  <2>5. 1..n \subseteq 1..Cardinality(U)
    BY <1>2, <2>1
  <2>6. V \in SUBSET U
    BY <2>3, <2>4, <2>5
  <2>7. PICK g : g = [i \in 1..n |-> f[i]]
    OBVIOUS
  <2>8. /\ g \in [1..n -> V] /\ \A v \in V : \E i \in 1..n : g[i] = v
        /\ \A i, k \in 1..n : g[i] = g[k] => i = k
    BY <2>3, <2>4, <2>5, <2>7
  <2>9. g \in Injection(1..n, V) /\ g \in Surjection(1..n, V)
    BY <2>8, Fun_IsInj, Fun_IsSurj
  <2>10. g \in Bijection(1..n, V)
    BY <2>9 DEF Bijection
  <2>11. IsFiniteSet(1..n) /\ Cardinality(1..n) = n
    <3>1. 1 \in Int /\ n \in Int
      OBVIOUS
    <3>2. IsFiniteSet(1..n) /\ Cardinality(1..n) = IF 1 > n THEN 0 ELSE n - 1 + 1
      BY <3>1, FS_Interval
    <3>3. QED
      BY <3>2
  <2>12. Cardinality(V) = n
    BY <2>10, <2>11, FS_Bijection DEF ExistsBijection
  <2>13. SomeOf(n, U) \in SUBSET U /\ Cardinality(SomeOf(n, U)) = n
    BY <1>2, <2>6, <2>12 DEF SomeOf
  <2>14. SomeOf(n, U) # {} => n # 0
    <3>1. IsFiniteSet(SomeOf(n, U))
      BY <2>13, FS_Subset
    <3>2. QED
      BY <2>13, <3>1, FS_EmptySet
  <2>15. QED
    BY <1>2, <2>13, <2>14
<1>3. QED
  BY <1>1, <1>2

(* A finite set as a list.                                                 *)
LEMMA ListedSet ==
  ASSUME NEW S, IsFiniteSet(S)
  PROVE  SetToSeq(S) \in Seq(S)
<1>1. Cardinality(S) \in Nat /\ ExistsBijection(1..Cardinality(S), S)
  BY FS_CardinalityType
<1>2. PICK f : f \in Bijection(1..Cardinality(S), S)
  BY <1>1 DEF ExistsBijection
<1>3. f \in [1..Cardinality(S) -> S] /\ IsInjective(f)
  BY <1>2 DEF Bijection, Injection
<1>4. SetToSeq(S) \in [1..Cardinality(S) -> S]
  BY <1>3 DEF SetToSeq
<1>5. QED
  BY <1>1, <1>4

LEMMA EntriesListed ==
  ASSUME HTypeOK
  PROVE  TimelineEntries \in Seq([stamp : Nat])
<1>1. PICK T, there, time, e, a, b, seen :
        /\ T = [stamp : Nat]
        /\ there = {p \in Named : artifact[p] # "none"}
        /\ time = [p \in Named |-> IF Hashed(p) THEN Modified[p] ELSE Undated]
        /\ e = [i \in DOMAIN events |-> [stamp |-> events[i].stamp]]
        /\ seen = SetToSeq(there)
        /\ a = [i \in DOMAIN seen |-> [stamp |-> time[seen[i]]]]
        /\ b = [i \in DOMAIN Beside |-> [stamp |-> Beside[i]]]
  OBVIOUS
<1>2. e \in Seq(T)
  <2>1. PICK s : s = events
    OBVIOUS
  <2>2. s \in Seq(Event)
    BY <2>1 DEF HTypeOK
  <2>3. Len(s) \in Nat /\ DOMAIN s = 1..Len(s) /\ \A i \in 1..Len(s) : s[i] \in Event
    BY <2>2
  <2>4. \A i \in 1..Len(s) : [stamp |-> s[i].stamp] \in T
    BY <1>1, <2>3, HistoryAssumption
  <2>5. e = [i \in 1..Len(s) |-> [stamp |-> s[i].stamp]]
    BY <1>1, <2>1, <2>3
  <2>6. e \in [1..Len(s) -> T]
    BY <2>4, <2>5
  <2>7. QED
    BY <2>3, <2>6, ListOf
<1>3. seen \in Seq(there)
  <2>1. IsFiniteSet(there)
    BY <1>1, FindingsAssumption, FS_Subset
  <2>2. QED
    BY <1>1, <2>1, ListedSet
<1>4. Len(seen) \in Nat /\ DOMAIN seen = 1..Len(seen) /\ \A i \in 1..Len(seen) : seen[i] \in there
  BY <1>3, ListFacts
<1>5. time \in [Named -> Nat] /\ there \subseteq Named
  BY <1>1, FindingsAssumption DEF Undated
<1>6. a \in Seq(T)
  <2>1. \A i \in 1..Len(seen) : [stamp |-> time[seen[i]]] \in T
    BY <1>1, <1>4, <1>5
  <2>2. a = [i \in 1..Len(seen) |-> [stamp |-> time[seen[i]]]]
    BY <1>1, <1>4
  <2>3. a \in [1..Len(seen) -> T]
    BY <2>1, <2>2
  <2>4. QED
    BY <1>4, <2>3, ListOf
<1>7. b \in Seq(T)
  <2>1. Len(Beside) \in Nat /\ DOMAIN Beside = 1..Len(Beside) /\ \A i \in 1..Len(Beside) : Beside[i] \in Nat
    BY FindingsAssumption
  <2>2. b \in [1..Len(Beside) -> T]
    BY <1>1, <2>1
  <2>3. QED
    BY <2>1, <2>2, ListOf
<1>8. TimelineEntries = e \o a \o b
  <2>1. \A i \in DOMAIN seen : time[seen[i]] = IF Hashed(seen[i]) THEN Modified[seen[i]] ELSE Undated
    BY <1>1, <1>4
  <2>2. a = [i \in DOMAIN seen |->
               [stamp |-> IF Hashed(seen[i]) THEN Modified[seen[i]] ELSE Undated]]
    BY <1>1, <2>1
  <2>3. QED
    BY <1>1, <2>2 DEF TimelineEntries
<1>9. e \o a \in Seq(T)
  BY <1>2, <1>6, JoinedLists
<1>10. (e \o a) \o b \in Seq(T)
  BY <1>7, <1>9, JoinedLists
<1>11. QED
  BY <1>1, <1>8, <1>10

DatedAt == {i \in DOMAIN TimelineEntries : Dated(TimelineEntries[i])}
UndatedAt == {i \in DOMAIN TimelineEntries : ~Dated(TimelineEntries[i])}
EntryRows(I) == {<<"entry", i>> : i \in I}

LEMMA EntriesCounted ==
  ASSUME HTypeOK
  PROVE  /\ IsFiniteSet(DatedAt) /\ IsFiniteSet(UndatedAt)
         /\ Cardinality(DatedAt) \in Nat /\ Cardinality(UndatedAt) \in Nat
         /\ Cardinality(DatedAt) + Cardinality(UndatedAt) = Len(TimelineEntries)
<1>1. PICK s : s = TimelineEntries
  OBVIOUS
<1>2. s \in Seq([stamp : Nat])
  BY <1>1, EntriesListed
<1>3. IsFiniteSet(DOMAIN s) /\ Cardinality(DOMAIN s) = Len(s)
  <2>1. 1 \in Int /\ Len(s) \in Nat /\ DOMAIN s = 1..Len(s)
    BY <1>2
  <2>2. IsFiniteSet(1..Len(s)) /\ Cardinality(1..Len(s)) = IF 1 > Len(s) THEN 0 ELSE Len(s) - 1 + 1
    BY <2>1, FS_Interval
  <2>3. QED
    BY <2>1, <2>2
<1>4. PICK D, U : D = DatedAt /\ U = UndatedAt
  OBVIOUS
<1>5. D \subseteq DOMAIN s /\ U \subseteq DOMAIN s /\ D \cap U = {} /\ D \cup U = DOMAIN s
  BY <1>1, <1>4 DEF DatedAt, UndatedAt
<1>6. IsFiniteSet(D) /\ IsFiniteSet(U)
  BY <1>3, <1>5, FS_Subset
<1>7. /\ Cardinality(D) \in Nat /\ Cardinality(U) \in Nat
      /\ Cardinality(D \cup U) = Cardinality(D) + Cardinality(U) - Cardinality(D \cap U)
  BY <1>6, FS_CardinalityType, FS_Union
<1>8. Cardinality(D \cap U) = 0
  BY <1>5, FS_EmptySet
<1>9. QED
  BY <1>1, <1>3, <1>4, <1>5, <1>6, <1>7, <1>8

LEMMA EntriesAre ==
  ASSUME HTypeOK, NEW F, IsFiniteSet(F), \A f \in F : f[1] = "finding"
  PROVE  LET all == Entries(F)
         IN  /\ all.dated \in Seq(DatedAt) /\ Len(all.dated) = Cardinality(DatedAt)
             /\ all.undated = EntryRows(UndatedAt) \cup F /\ IsFiniteSet(all.undated)
             /\ Cardinality(all.undated) = Cardinality(UndatedAt) + Cardinality(F)
<1>1. PICK s, D, U, l, all : s = TimelineEntries /\ D = DatedAt /\ U = UndatedAt
                             /\ l = InOrder(s, D) /\ all = Entries(F)
  OBVIOUS
<1>2. s \in Seq([stamp : Nat]) /\ D \subseteq DOMAIN s /\ IsFiniteSet(D)
  BY <1>1, EntriesListed, EntriesCounted DEF DatedAt
<1>3. l \in Seq(D) /\ Len(l) = Cardinality(D)
  <2>1. l = InOrder(s, D)
    BY <1>1
  <2>2. DOMAIN s = 1..Len(s) /\ Len(s) \in Nat /\ \A i \in 1..Len(s) : s[i] \in [stamp : Nat]
    BY <1>2, ListFacts
  <2>3. \A i \in D : i \in Nat /\ s[i].stamp \in Nat
    BY <1>2, <2>2
  <2>4. QED
    BY <1>2, <2>1, <2>3, StampedInOrder
<1>4. all.dated = l /\ all.undated = EntryRows(U) \cup F
  BY <1>1 DEF Entries, EntryRows, DatedAt, UndatedAt
<1>5. IsFiniteSet(EntryRows(U)) /\ Cardinality(EntryRows(U)) = Cardinality(U)
  BY <1>1, EntriesCounted, TaggedAsMany DEF EntryRows
<1>6. EntryRows(U) \cap F = {}
  BY DEF EntryRows
<1>7. /\ IsFiniteSet(EntryRows(U) \cup F)
      /\ Cardinality(EntryRows(U) \cup F) = Cardinality(EntryRows(U)) + Cardinality(F) - 0
  BY <1>5, <1>6, FS_Union, FS_EmptySet
<1>8. Cardinality(U) \in Nat /\ Cardinality(F) \in Nat
  BY <1>1, EntriesCounted, FS_CardinalityType
<1>9. QED
  BY <1>1, <1>3, <1>4, <1>5, <1>7, <1>8

LEMMA NewestAreKept ==
  ASSUME NEW S, NEW s \in Seq(S)
  PROVE  /\ NewestKept(s) \in Seq(S)
         /\ Len(NewestKept(s)) = IF Len(s) < MaxTimeline THEN Len(s) ELSE MaxTimeline
<1>1. MaxTimeline \in Nat /\ Len(s) \in Nat
  BY FindingsAssumption
<1>2. PICK x : x = Len(s) - MaxTimeline + 1
  OBVIOUS
<1>3. PICK m : m = Max({1, x})
  OBVIOUS
<1>4. x \in Int /\ x <= Len(s) + 1
  BY <1>1, <1>2
<1>5. m \in {1, x} /\ m >= 1 /\ m >= x
  <2>1. \E y \in {1, x} : \A z \in {1, x} : y >= z
    <3>1. CASE x >= 1
      BY <1>4, <3>1
    <3>2. CASE ~(x >= 1)
      BY <1>4, <3>2
    <3>3. QED
      BY <3>1, <3>2
  <2>2. m \in {1, x} /\ \A z \in {1, x} : m >= z
    BY <1>3, <2>1 DEF Max
  <2>3. QED
    BY <2>2
<1>6. m \in 1..(Len(s) + 1)
  BY <1>1, <1>4, <1>5
<1>7. NewestKept(s) = SubSeq(s, m, Len(s))
  BY <1>2, <1>3 DEF NewestKept
<1>8. SubSeq(s, m, Len(s)) \in Seq(S) /\ Len(SubSeq(s, m, Len(s))) = Len(s) - m + 1
  <2>1. \A i \in m..Len(s) : s[i] \in S
    BY <1>6
  <2>2. QED
    BY <1>1, <1>6, <2>1
<1>9. Len(s) - m + 1 = IF Len(s) < MaxTimeline THEN Len(s) ELSE MaxTimeline
  BY <1>1, <1>2, <1>4, <1>5
<1>10. QED
  BY <1>7, <1>8, <1>9

(* What the timeline of the findings F stores.                             *)
LEMMA TimelineStores ==
  ASSUME HTypeOK, NEW F, IsFiniteSet(F), \A f \in F : f[1] = "finding"
  PROVE  LET t == Timeline(F)
             total == Len(TimelineEntries) + Cardinality(F)
         IN  /\ t.dated \in Seq(DatedAt) /\ t.undated \subseteq EntryRows(UndatedAt) \cup F
             /\ total <= MaxTimeline /\ total <= MaxPersisted =>
                   Len(t.dated) + Cardinality(t.undated) = total
             /\ t.undated # {} => Len(t.dated) = Cardinality(DatedAt)
             /\ t.stored
<1>1. PICK A, t, dated, undated, N : /\ A = DatedAt /\ t = Timeline(F)
                                     /\ dated = Entries(F).dated /\ undated = Entries(F).undated
                                     /\ N = Len(TimelineEntries) + Cardinality(F)
  OBVIOUS
<1> DEFINE over == Len(dated) + Cardinality(undated) > MaxTimeline
<1>2. PICK kept, rest :
        /\ kept = IF over THEN NewestKept(dated) ELSE dated
        /\ rest = IF over THEN SomeOf(MaxTimeline - Len(kept), undated) ELSE undated
  OBVIOUS
<1>3. PICK rows : rows = UpTo(kept, MaxPersisted)
  OBVIOUS
<1>4. t = [stored |-> TRUE, dated |-> rows, undated |-> SomeOf(MaxPersisted - Len(rows), rest)]
  BY <1>1, <1>2, <1>3 DEF Timeline
<1>5. /\ dated \in Seq(A) /\ Len(dated) = Cardinality(DatedAt)
      /\ undated = EntryRows(UndatedAt) \cup F /\ IsFiniteSet(undated)
      /\ Cardinality(undated) = Cardinality(UndatedAt) + Cardinality(F)
  BY <1>1, EntriesAre
<1>6. MaxTimeline \in Nat /\ MaxPersisted \in Nat
  BY FindingsAssumption
<1>7. /\ Cardinality(F) \in Nat /\ Cardinality(DatedAt) \in Nat /\ Cardinality(UndatedAt) \in Nat
      /\ Cardinality(DatedAt) + Cardinality(UndatedAt) = Len(TimelineEntries)
  BY EntriesCounted, FS_CardinalityType
<1>8. kept \in Seq(A) /\ Len(kept) \in Nat
  <2>1. kept \in Seq(A)
    BY <1>2, <1>5, NewestAreKept
  <2>2. QED
    BY <2>1, ListFacts
<1>9. over => Len(kept) = IF Len(dated) < MaxTimeline THEN Len(dated) ELSE MaxTimeline
  BY <1>2, <1>5, NewestAreKept
<1>10. rest \subseteq undated /\ IsFiniteSet(rest) /\ (rest # {} => Len(kept) = Len(dated))
  <2>1. CASE over
    <3>1. MaxTimeline - Len(kept) \in Nat
      BY <1>5, <1>6, <1>7, <1>9, <2>1
    <3>2. rest = SomeOf(MaxTimeline - Len(kept), undated)
      BY <1>2, <2>1
    <3> HIDE DEF over
    <3>3. rest \subseteq undated /\ (rest # {} => MaxTimeline - Len(kept) # 0)
      BY <1>5, <3>1, <3>2, SomeOfSelects
    <3>4. rest # {} => Len(kept) = Len(dated)
      BY <1>6, <1>8, <1>9, <2>1, <3>3
    <3>5. QED
      BY <1>5, <3>3, <3>4, FS_Subset
  <2>2. CASE ~over
    BY <1>2, <1>5, <2>2
  <2>3. QED
    BY <2>1, <2>2
<1>11. /\ rows \in Seq(A)
       /\ Len(rows) = IF Len(kept) < MaxPersisted THEN Len(kept) ELSE MaxPersisted
  BY <1>3, <1>6, <1>8, UpToShortens
<1>12. MaxPersisted - Len(rows) \in Nat
  BY <1>6, <1>8, <1>11
<1>13. PICK V : V = SomeOf(MaxPersisted - Len(rows), rest)
  OBVIOUS
<1>14. /\ V \subseteq rest
       /\ Cardinality(rest) <= MaxPersisted - Len(rows) => V = rest
       /\ V # {} => MaxPersisted - Len(rows) # 0
  BY <1>10, <1>12, <1>13, SomeOfSelects
<1>15. ASSUME N <= MaxTimeline, N <= MaxPersisted
       PROVE  Len(rows) + Cardinality(V) = N
  <2>1. N = Len(dated) + Cardinality(undated) /\ Len(dated) \in Nat /\ Cardinality(undated) \in Nat
    BY <1>1, <1>5, <1>7
  <2>2. ~over
    BY <1>6, <1>15, <2>1
  <2>3. kept = dated /\ rest = undated
    BY <1>2, <2>2
  <2>4. Len(rows) = Len(kept)
    BY <1>6, <1>11, <1>15, <2>1, <2>3
  <2>5. Cardinality(rest) <= MaxPersisted - Len(rows)
    BY <1>6, <1>15, <2>1, <2>3, <2>4
  <2>6. V = rest
    BY <1>14, <2>5
  <2>7. QED
    BY <2>1, <2>3, <2>4, <2>6
<1>16. ASSUME V # {} PROVE Len(rows) = Cardinality(DatedAt)
  <2>1. rest # {} /\ MaxPersisted - Len(rows) # 0
    BY <1>14, <1>16
  <2>2. Len(rows) = Len(kept)
    BY <1>6, <1>8, <1>11, <2>1
  <2>3. QED
    BY <1>5, <1>10, <2>1, <2>2
<1>17. t.stored /\ t.dated = rows /\ t.undated = V
  BY <1>4, <1>13
<1>18. V \subseteq EntryRows(UndatedAt) \cup F
  BY <1>5, <1>10, <1>14
<1>19. QED
  BY <1>1, <1>11, <1>15, <1>16, <1>17, <1>18

LEMMA FindingsFinite ==
  ASSUME HTypeOK, downloads \in Browser
  PROVE  IsFiniteSet(AllFindings)
<1>1. IsFiniteSet(LocationFindings)
  <2>1. PICK S : S = {p \in NamedPaths : artifact[p] # "none"
                                  /\ events[Min(Naming(p))].image.place = "transient"}
    OBVIOUS
  <2>2. PICK f : f = [p \in S |-> Finding("unusual_execution_location", p, "POTENTIALLY_HARMFUL",
                                          Both(p), Hashed(p) \/ TwoSources(p))]
    OBVIOUS
  <2>3. IsFiniteSet(S)
    BY <2>1, FindingsAssumption, FS_Subset DEF NamedPaths
  <2>4. LocationFindings = {f[p] : p \in S}
    BY <2>1, <2>2 DEF LocationFindings
  <2>5. DOMAIN f = S
    BY <2>2
  <2>6. QED
    BY <2>3, <2>4, <2>5, ImageFinite
<1>2. PICK M : M = {Finding("execution_artifact_missing", p, "NEEDS_REVIEW", Both(p), TwoSources(p)) :
                       p \in {p \in NamedPaths : artifact[p] = "MISSING"}}
  OBVIOUS
<1>3. IsFiniteSet(M)
  <2>1. PICK S : S = {p \in NamedPaths : artifact[p] = "MISSING"}
    OBVIOUS
  <2>2. PICK f : f = [p \in S |-> Finding("execution_artifact_missing", p, "NEEDS_REVIEW",
                                          Both(p), TwoSources(p))]
    OBVIOUS
  <2>3. IsFiniteSet(S)
    BY <2>1, FindingsAssumption, FS_Subset DEF NamedPaths
  <2>4. M = {f[p] : p \in S}
    BY <1>2, <2>1, <2>2
  <2>5. DOMAIN f = S
    BY <2>2
  <2>6. QED
    BY <2>3, <2>4, <2>5, ImageFinite
<1>4. PICK H : H = {Finding("execution_artifact_matched", p, "NOT_HARMFUL", Both(p), FALSE) :
                       p \in {p \in NamedPaths : Hashed(p)}}
  OBVIOUS
<1>5. IsFiniteSet(H)
  <2>1. PICK S : S = {p \in NamedPaths : Hashed(p)}
    OBVIOUS
  <2>2. PICK f : f = [p \in S |-> Finding("execution_artifact_matched", p, "NOT_HARMFUL",
                                          Both(p), FALSE)]
    OBVIOUS
  <2>3. IsFiniteSet(S)
    BY <2>1, FindingsAssumption, FS_Subset DEF NamedPaths
  <2>4. H = {f[p] : p \in S}
    BY <1>4, <2>1, <2>2
  <2>5. DOMAIN f = S
    BY <2>2
  <2>6. QED
    BY <2>3, <2>4, <2>5, ImageFinite
<1>6. IsFiniteSet(IntegrityFindings)
  <2>1. PICK S : S = {p \in Named : artifact[p] = "ALTERED"}
    OBVIOUS
  <2>2. PICK f : f = [p \in S |-> Finding("artifact_hash_changed", p, "NEEDS_REVIEW",
                                          {<<"path", p>>}, TRUE)]
    OBVIOUS
  <2>3. IsFiniteSet(S)
    BY <2>1, FindingsAssumption, FS_Subset
  <2>4. IntegrityFindings = {f[p] : p \in S}
    BY <2>1, <2>2 DEF IntegrityFindings
  <2>5. DOMAIN f = S
    BY <2>2
  <2>6. QED
    BY <2>3, <2>4, <2>5, ImageFinite
<1>7. IsFiniteSet(MediaFindings)
  <2>1. \/ MediaFindings = {}
        \/ \E x : MediaFindings = {x}
    BY DEF MediaFindings
  <2>2. QED
    BY <2>1, FS_EmptySet, FS_Singleton
<1>8. PICK L : L = Linked
  OBVIOUS
<1>9. IsFiniteSet({DownloadFinding(L[k], k) : k \in DOMAIN L})
  <2>1. PICK f : f = [k \in DOMAIN L |-> DownloadFinding(L[k], k)]
    OBVIOUS
  <2>2. DOMAIN L = 1..Len(L) /\ L \in Seq([target : Named, stamp : Nat])
    BY <1>8, LinkedDownloads
  <2>3. 1 \in Int /\ Len(L) \in Int
    BY <2>2
  <2>4. IsFiniteSet(DOMAIN L)
    BY <2>2, <2>3, FS_Interval
  <2>5. {DownloadFinding(L[k], k) : k \in DOMAIN L} = {f[k] : k \in DOMAIN L}
    BY <2>1
  <2>6. QED
    BY <2>1, <2>4, <2>5, ImageFinite
<1>10. AllFindings = ((((LocationFindings \cup M) \cup H) \cup IntegrityFindings) \cup MediaFindings)
                     \cup {DownloadFinding(L[k], k) : k \in DOMAIN L}
  BY <1>2, <1>4, <1>8 DEF AllFindings, ArtifactFindings
<1>11. IsFiniteSet((LocationFindings \cup M) \cup H)
  BY <1>1, <1>3, <1>5, FS_Union
<1>12. IsFiniteSet((((LocationFindings \cup M) \cup H) \cup IntegrityFindings) \cup MediaFindings)
  BY <1>6, <1>7, <1>11, FS_Union
<1>13. QED
  BY <1>9, <1>10, <1>12, FS_Union

Told == {<<"finding", f>> : f \in findings}

LEMMA TimelineIsHeld ==
  ASSUME HTypeOK, downloads \in Browser,
         Stored => findings = AllFindings /\ timeline = Timeline(Told)
  PROVE  TimelineHolds
<1> SUFFICES ASSUME Stored PROVE TimelineHolds
  BY DEF TimelineHolds
<1>1. IsFiniteSet(findings)
  BY FindingsFinite
<1>2. PICK F : F = Told
  OBVIOUS
<1>3. IsFiniteSet(F) /\ Cardinality(F) = Cardinality(findings) /\ \A f \in F : f[1] = "finding"
  BY <1>1, <1>2, TaggedAsMany DEF Told
<1>4. PICK t : t = timeline
  OBVIOUS
<1>5. t = Timeline(F)
  BY <1>2, <1>4
<1>6. /\ t.dated \in Seq(DatedAt) /\ t.undated \subseteq EntryRows(UndatedAt) \cup F
      /\ LET total == Len(TimelineEntries) + Cardinality(F)
         IN  total <= MaxTimeline /\ total <= MaxPersisted =>
                Len(t.dated) + Cardinality(t.undated) = total
      /\ t.undated # {} => Len(t.dated) = Cardinality(DatedAt)
  BY <1>3, <1>5, TimelineStores
<1>7. ASSUME NEW n \in DOMAIN t.dated PROVE Dated(TimelineEntries[t.dated[n]])
  <2>1. PICK l, S : l = t.dated /\ S = DatedAt
    OBVIOUS
  <2>2. l \in Seq(S) /\ n \in DOMAIN l
    BY <1>6, <1>7, <2>1
  <2>3. l[n] \in S
    BY <2>2
  <2>4. t.dated[n] \in DatedAt
    BY <2>1, <2>3
  <2>5. QED
    BY <2>4 DEF DatedAt
<1>8. ASSUME NEW row \in t.undated, row[1] = "entry" PROVE ~Dated(TimelineEntries[row[2]])
  <2>1. row \in EntryRows(UndatedAt)
    BY <1>3, <1>6, <1>8
  <2>2. QED
    BY <2>1 DEF EntryRows, UndatedAt
<1>9. QED
  BY <1>3, <1>4, <1>6, <1>7, <1>8 DEF TimelineHolds, DatedAt

(* The findings are those of the events that were analysed: since then     *)
(* nothing is collected any more.                                          *)
FindInv ==
    /\ HInv
    /\ downloads \in Browser
    /\ groups = {} => ~Stored
    /\ ~Stored => findings = {}
    /\ Stored => findings = AllFindings /\ timeline = Timeline(Told)

LEMMA InitFindInv == CInit => FindInv
  BY InitHInv DEF CInit, AInit, FindInv, Stored, Nothing

LEMMA FindingsStay ==
  ASSUME UNCHANGED <<events, artifact, downloads>>
  PROVE  AllFindings' = AllFindings
<1>1. \A p : /\ (Naming(p))' = Naming(p) /\ (InText(p))' = InText(p)
             /\ (Hashed(p))' = Hashed(p) /\ (TwoSources(p))' = TwoSources(p)
             /\ (Both(p))' = Both(p)
  BY DEF Naming, InText, Hashed, TwoSources, Both, EventRef, ArtifactRef
<1>2. NamedPaths' = NamedPaths
  BY <1>1 DEF NamedPaths
<1>3. LocationFindings' = LocationFindings
  BY <1>1, <1>2 DEF LocationFindings
<1>4. ArtifactFindings' = ArtifactFindings
  BY <1>1, <1>2, <1>3 DEF ArtifactFindings
<1>5. IntegrityFindings' = IntegrityFindings
  BY DEF IntegrityFindings
<1>6. MediaFindings' = MediaFindings
  BY DEF MediaFindings, Hashed, InText, EventRef, ArtifactRef
<1>7. Linked' = Linked
  BY DEF Linked, Links, InText
<1>8. \A d, k : (DownloadFinding(d, k))' = DownloadFinding(d, k)
  BY DEF DownloadFinding, InText, EventRef, ArtifactRef
<1>9. QED
  BY <1>4, <1>5, <1>6, <1>7, <1>8 DEF AllFindings

LEMMA EntriesStay ==
  ASSUME UNCHANGED <<events, artifact>>
  PROVE  TimelineEntries' = TimelineEntries
BY DEF TimelineEntries, Hashed

LEMMA NextFindInv == FindInv /\ [CNext]_cvars => FindInv'
<1> SUFFICES ASSUME FindInv, [CNext]_cvars PROVE FindInv'
  OBVIOUS
<1>1. HInv'
  BY NextHInv DEF FindInv, CNext, ANext, Analyzes, Correlates, cvars, avars
<1>2. downloads' \in Browser
  BY DEF FindInv, CNext, Correlates, cvars
<1>3. CASE groups = {} /\ HNext /\ UNCHANGED <<groups, downloads, findings, timeline>>
  BY <1>1, <1>2, <1>3 DEF FindInv, Stored
<1>4. CASE UNCHANGED <<hvars, downloads, findings, timeline>> /\ (groups = {} \/ groups' = groups)
  <2>1. AllFindings' = AllFindings /\ Told' = Told
    BY <1>4, FindingsStay DEF hvars, Told
  <2>2. TimelineEntries' = TimelineEntries
    BY <1>4, EntriesStay DEF hvars
  <2>3. (Timeline(Told))' = Timeline(Told)
    BY <1>4, <2>2 DEF Timeline, Entries, Told
  <2>4. Stored' <=> Stored
    BY <1>4 DEF Stored
  <2>5. QED
    BY <1>1, <1>2, <1>4, <2>1, <2>3, <2>4 DEF FindInv
<1>5. CASE Correlates
  <2>1. AllFindings' = AllFindings /\ findings' = AllFindings
    BY <1>5, FindingsStay DEF Correlates, avars, hvars
  <2>2. Told' = {<<"finding", f>> : f \in AllFindings}
    BY <2>1 DEF Told
  <2>3. TimelineEntries' = TimelineEntries
    BY <1>5, EntriesStay DEF Correlates, avars, hvars
  <2>4. (Timeline(Told))' = Timeline({<<"finding", f>> : f \in AllFindings})
    BY <2>2, <2>3 DEF Timeline, Entries
  <2>5. groups' # {}
    BY <1>5 DEF Correlates, avars
  <2>6. timeline' = (Timeline(Told))'
    BY <1>5, <2>4 DEF Correlates
  <2>7. Stored'
    BY <1>5 DEF Correlates, Stored, Timeline
  <2>8. QED
    BY <1>1, <1>2, <2>1, <2>5, <2>6, <2>7 DEF FindInv
<1>6. QED
  BY <1>3, <1>4, <1>5 DEF CNext, ANext, Analyzes, cvars, avars

(* What is found in a collection is supported by what was collected.       *)
THEOREM FindingsAreSupported == CSpec => []FindingsSupported
<1>1. FindInv => FindingsSupported
  <2> SUFFICES ASSUME FindInv PROVE FindingsSupported
    OBVIOUS
  <2>1. HTypeOK /\ downloads \in Browser /\ findings \in {{}, AllFindings}
    BY DEF FindInv, HInv
  <2>2. Stored => findings = AllFindings /\ timeline = Timeline(Told)
    BY DEF FindInv, Stored
  <2>3. QED
    BY <2>1, <2>2, AllResolve, FirstTierRests, DownloadsAreTold, TimelineIsHeld DEF FindingsSupported
<1>2. QED
  BY <1>1, InitFindInv, NextFindInv, PTL DEF CSpec

-----------------------------------------------------------------------------
(* Briefs                                                                  *)

(* A record of a report is one of the collection, with its command; of a   *)
(* group that is told, there is one that was stored.                       *)
OnRow(r) ==
    /\ "executable" \notin DOMAIN r
    /\ \E i \in DOMAIN events : r.reference = Reference(events, i) /\ r.command = events[i].command
Cited(g) == {r.reference : r \in g.records}
OnGroup(g) ==
    /\ g.records # {} /\ \A r \in g.records : OnRow(r)
    /\ \E h \in groups : h.class.priority = g.class.priority /\ h.records = Cited(g)

(* A lead holds such groups, of its own urgency, and ran if a record did.  *)
Ran(references) ==
    \E i \in DOMAIN events : Reference(events, i) \in references /\ Confirmed(events[i])
OnLead(l) ==
    /\ l.groups # {} /\ \A g \in l.groups : OnGroup(g) /\ g.class.priority = l.priority
    /\ l.references = UNION {Cited(g) : g \in l.groups}
    /\ l.confirmed <=> Ran(l.references)

Truthful(R) ==
    /\ \A p \in R.artifacts : artifact[p] # "none"
    /\ R.findings = findings
    /\ \A g \in R.groups : OnGroup(g)
    /\ \A l \in R.leads : OnLead(l)
    /\ (\E l \in R.leads : l.priority = "PRIORITY_1")
          <=> \E g \in groups : g.class.priority = "PRIORITY_1"

(* What the groups of a list of records say of its records.                *)
LEMMA GroupsSay ==
  ASSUME NEW s \in Seq(Event), NEW art
  PROVE  /\ \A g \in Groups(s, art) :
               /\ g.records # {}
               /\ \A x \in g.records : \E i \in DOMAIN s : x = Reference(s, i)
               /\ g.confirmed <=> \E i \in DOMAIN s : Reference(s, i) \in g.records /\ Confirmed(s[i])
         /\ \A g, h \in Groups(s, art) : g.records \cap h.records # {} => g = h
<1>1. ASSUME NEW g \in Groups(s, art)
      PROVE  \E k : /\ g = Group(RowsOf(s, art, k)) /\ KeyedAt(s, k) # {} /\ KeyedAt(s, k) \subseteq DOMAIN s
                    /\ \A i \in KeyedAt(s, k) : Key(s[i]) = k
                    /\ g.records = {Reference(s, j) : j \in KeyedAt(s, k)}
                    /\ g.confirmed <=> \E j \in KeyedAt(s, k) : Confirmed(s[j])
  <2>1. PICK i \in DOMAIN s : g = Group(RowsOf(s, art, Key(s[i])))
    BY GroupsAre
  <2>2. PICK k : k = Key(s[i])
    OBVIOUS
  <2>3. i \in KeyedAt(s, k) /\ KeyedAt(s, k) \subseteq DOMAIN s /\ \A j \in KeyedAt(s, k) : Key(s[j]) = k
    BY <2>2 DEF KeyedAt
  <2>4. /\ g.records = {Reference(s, j) : j \in KeyedAt(s, k)}
        /\ g.confirmed <=> \E j \in KeyedAt(s, k) : Confirmed(s[j])
    BY <2>1, <2>2, <2>3, GroupIs
  <2>5. QED
    BY <2>1, <2>2, <2>3, <2>4
<1>2. \A i, j \in DOMAIN s : Reference(s, i) = Reference(s, j) => i = j
  BY ReferencesDiffer
<1>3. ASSUME NEW g \in Groups(s, art)
      PROVE  /\ g.records # {}
             /\ \A x \in g.records : \E i \in DOMAIN s : x = Reference(s, i)
             /\ g.confirmed <=> \E i \in DOMAIN s : Reference(s, i) \in g.records /\ Confirmed(s[i])
  <2>1. PICK k : /\ KeyedAt(s, k) # {} /\ KeyedAt(s, k) \subseteq DOMAIN s
                 /\ g.records = {Reference(s, j) : j \in KeyedAt(s, k)}
                 /\ g.confirmed <=> \E j \in KeyedAt(s, k) : Confirmed(s[j])
    BY <1>1
  <2>2. \A i \in DOMAIN s : Reference(s, i) \in g.records <=> i \in KeyedAt(s, k)
    BY <1>2, <2>1
  <2>3. (\E j \in KeyedAt(s, k) : Confirmed(s[j]))
           <=> \E i \in DOMAIN s : Reference(s, i) \in g.records /\ Confirmed(s[i])
    BY <2>1, <2>2
  <2>4. g.records # {} /\ \A x \in g.records : \E i \in DOMAIN s : x = Reference(s, i)
    BY <2>1
  <2>5. QED
    BY <2>1, <2>3, <2>4
<1>4. ASSUME NEW g \in Groups(s, art), NEW h \in Groups(s, art), NEW x \in g.records, x \in h.records
      PROVE  g = h
  <2>1. PICK k : /\ g = Group(RowsOf(s, art, k)) /\ KeyedAt(s, k) \subseteq DOMAIN s
                 /\ \A i \in KeyedAt(s, k) : Key(s[i]) = k
                 /\ g.records = {Reference(s, j) : j \in KeyedAt(s, k)}
    BY <1>1
  <2>2. PICK n : /\ h = Group(RowsOf(s, art, n)) /\ KeyedAt(s, n) \subseteq DOMAIN s
                 /\ \A i \in KeyedAt(s, n) : Key(s[i]) = n
                 /\ h.records = {Reference(s, j) : j \in KeyedAt(s, n)}
    BY <1>1
  <2>3. PICK i \in KeyedAt(s, k) : x = Reference(s, i)
    BY <1>4, <2>1
  <2>4. PICK j \in KeyedAt(s, n) : x = Reference(s, j)
    BY <1>4, <2>2
  <2>5. i = j
    BY <1>2, <2>1, <2>2, <2>3, <2>4
  <2>6. k = n
    BY <2>1, <2>2, <2>5
  <2>7. QED
    BY <2>1, <2>2, <2>6
<1>5. QED
  BY <1>3, <1>4

LEMMA SlimIs ==
  ASSUME events \in Seq(Event), NEW i \in DOMAIN events
  PROVE  /\ Slim(Reference(events, i)).reference = Reference(events, i)
         /\ OnRow(Slim(Reference(events, i)))
<1>1. PICK ref : ref = Reference(events, i)
  OBVIOUS
<1>2. PICK r : r = Slim(ref)
  OBVIOUS
<1>3. Row(ref) = i
  <2>1. \A j \in DOMAIN events : Reference(events, j) = ref => j = i
    BY <1>1, ReferencesDiffer
  <2>2. QED
    BY <1>1, <2>1 DEF Row
<1>4. /\ r.reference = ref /\ r.command = events[i].command
      /\ DOMAIN r = {"reference", "stamp", "source", "command"}
  BY <1>2, <1>3 DEF Slim
<1>5. QED
  BY <1>1, <1>2, <1>4 DEF OnRow

(* What is told of a group.                                                *)
LEMMA GroupIsTold ==
  ASSUME AInv, groups # {}, NEW s, NEW told \in Groups(Reread(events), artifact)
  PROVE  /\ OnGroup(GroupTold(s, told)) /\ Cited(GroupTold(s, told)) = told.records
         /\ GroupTold(s, told).class = told.class
         /\ told.confirmed <=> Ran(told.records)
<1>1. events \in Seq(Event) /\ groups = Groups(events, artifact)
  BY DEF AInv, HInv, HTypeOK
<1>2. PICK stored \in groups : SameActivity(told, stored)
  BY <1>1, ToldAsStored
<1>3. /\ stored.records # {}
      /\ \A x \in stored.records : \E i \in DOMAIN events : x = Reference(events, i)
      /\ stored.confirmed <=> Ran(stored.records)
  BY <1>1, <1>2, GroupsSay DEF Ran
<1>4. told.records = stored.records /\ told.class.priority = stored.class.priority
  BY <1>2 DEF SameActivity
<1>5. PICK g : g = GroupTold(s, told)
  OBVIOUS
<1>6. g.records = {Slim(ref) : ref \in told.records} /\ g.class = told.class
  BY <1>5 DEF GroupTold
<1>7. \A ref \in told.records : Slim(ref).reference = ref /\ OnRow(Slim(ref))
  BY <1>1, <1>3, <1>4, SlimIs
<1>8. Cited(g) = told.records
  <2>1. ASSUME NEW x PROVE x \in Cited(g) <=> x \in told.records
    BY <1>6, <1>7 DEF Cited
  <2>2. QED
    BY <2>1 DEF Cited
<1>9. g.records # {} /\ \A r \in g.records : OnRow(r)
  BY <1>3, <1>4, <1>6, <1>7
<1>10. OnGroup(g)
  BY <1>2, <1>4, <1>6, <1>8, <1>9 DEF OnGroup
<1>11. told.confirmed <=> Ran(told.records)
  BY <1>2, <1>3, <1>4 DEF SameActivity
<1>12. QED
  BY <1>5, <1>6, <1>8, <1>10, <1>11

(* What is told of a lead.                                                 *)
LEMMA LeadIsTold ==
  ASSUME AInv, groups # {}, NEW s, NEW G, G = Groups(Reread(events), artifact),
         NEW g \in Candidates(G)
  PROVE  LET l == LeadTold(s, Lead(Alike(G, g)))
         IN  OnLead(l) /\ l.priority = g.class.priority
<1>1. events \in Seq(Event)
  BY DEF AInv, HInv, HTypeOK
<1>2. PICK t : t = Reread(events)
  OBVIOUS
<1>3. t \in Seq(Event)
  BY <1>1, <1>2, RereadRearranges
<1>4. PICK lead : lead = Lead(Alike(G, g))
  OBVIOUS
<1>5. /\ lead.members = Alike(G, g) /\ g \in lead.members
      /\ lead.priority = g.class.priority
      /\ lead.confirmed <=> \E h \in lead.members : h.confirmed
      /\ lead.references = UNION {h.records : h \in lead.members}
      /\ \A h \in lead.members : h.class.priority = lead.priority
  BY <1>2, <1>3, <1>4, LeadIs
<1>6. \A h \in lead.members : h \in Groups(Reread(events), artifact)
  BY <1>5 DEF Alike, Candidates
<1>7. \A h \in lead.members :
         /\ OnGroup(GroupTold(s, h)) /\ Cited(GroupTold(s, h)) = h.records
         /\ GroupTold(s, h).class = h.class
         /\ h.confirmed <=> Ran(h.records)
  BY <1>6, GroupIsTold
<1>8. PICK l : l = LeadTold(s, lead)
  OBVIOUS
<1>9. /\ l.priority = lead.priority /\ l.confirmed = lead.confirmed
      /\ l.references = lead.references /\ l.groups = {GroupTold(s, h) : h \in lead.members}
  BY <1>8 DEF LeadTold
<1>10. l.groups # {} /\ \A x \in l.groups : OnGroup(x) /\ x.class.priority = l.priority
  BY <1>5, <1>7, <1>9
<1>11. l.references = UNION {Cited(x) : x \in l.groups}
  <2>1. ASSUME NEW y
        PROVE  y \in l.references <=> y \in UNION {Cited(x) : x \in l.groups}
    <3>1. y \in l.references <=> \E h \in lead.members : y \in h.records
      BY <1>5, <1>9
    <3>2. y \in UNION {Cited(x) : x \in l.groups} <=> \E x \in l.groups : y \in Cited(x)
      BY Zenon
    <3>3. (\E x \in l.groups : y \in Cited(x))
             <=> \E h \in lead.members : y \in Cited(GroupTold(s, h))
      BY <1>9
    <3>4. (\E h \in lead.members : y \in Cited(GroupTold(s, h)))
             <=> \E h \in lead.members : y \in h.records
      BY <1>7
    <3>5. QED
      BY <3>1, <3>2, <3>3, <3>4
  <2>2. QED
    BY <2>1, <1>5, <1>9
<1>12. l.confirmed <=> Ran(l.references)
  <2>1. Ran(l.references) <=> \E h \in lead.members : Ran(h.records)
    <3>1. \A x : x \in l.references <=> \E h \in lead.members : x \in h.records
      BY <1>5, <1>9
    <3>2. QED
      BY <3>1 DEF Ran
  <2>2. QED
    BY <1>5, <1>7, <1>9, <2>1
<1>13. QED
  BY <1>4, <1>5, <1>8, <1>9, <1>10, <1>11, <1>12 DEF OnLead

(* The report of a collection is true of it.                               *)
LEMMA PayloadTrue ==
  ASSUME AInv, FindInv, Stored
  PROVE  Truthful(FromRows)
<1>1. groups # {} /\ events \in Seq(Event) /\ groups = Groups(events, artifact)
  BY DEF AInv, FindInv, Stored, HInv, HTypeOK
<1>2. PICK G : G = Groups(Reread(events), artifact)
  OBVIOUS
<1>3. PICK leads : leads = Leads(G)
  OBVIOUS
<1>4. PICK R, s : R = FromRows /\ s = Reread(events)
  OBVIOUS
<1>5. /\ R.groups = {GroupTold(s, g) : g \in G} /\ R.findings = findings
      /\ R.artifacts = {p \in Named : artifact[p] # "none"}
      /\ R.leads = {LeadTold(s, leads[i]) : i \in DOMAIN leads}
  BY <1>2, <1>3, <1>4 DEF FromRows
<1>6. \A g \in R.groups : OnGroup(g)
  BY <1>1, <1>2, <1>5, GroupIsTold
<1>7. PICK t \in Seq(Event) : t = Reread(events)
  BY <1>1, RereadRearranges
<1>8. G = Groups(t, artifact)
  BY <1>2, <1>7
<1>9. /\ \A i \in DOMAIN leads : \E g \in Candidates(G) : leads[i] = Lead(Alike(G, g))
      /\ (\E g \in G : g.class.priority = "PRIORITY_1") =>
            \E i \in DOMAIN leads : leads[i].priority = "PRIORITY_1"
  <2>1. PICK art : art = artifact
    OBVIOUS
  <2>2. G = Groups(t, art)
    BY <1>8, <2>1
  <2>3. QED
    BY <1>3, <2>2, LeadsTold
<1>10. \A g \in Candidates(G) : /\ OnLead(LeadTold(s, Lead(Alike(G, g))))
                                /\ LeadTold(s, Lead(Alike(G, g))).priority = g.class.priority
  BY <1>1, <1>2, LeadIsTold
<1>11. \A l \in R.leads : OnLead(l) /\ \E g \in G : l.priority = g.class.priority
  BY <1>5, <1>9, <1>10 DEF Candidates
<1>12. /\ \A g \in G : \E h \in groups : g.class.priority = h.class.priority
       /\ \A h \in groups : \E g \in G : g.class.priority = h.class.priority
  BY <1>1, <1>2, ToldAsStored DEF SameActivity
<1>13. (\E i \in DOMAIN leads : leads[i].priority = "PRIORITY_1")
          => \E l \in R.leads : l.priority = "PRIORITY_1"
  <2>1. ASSUME NEW i \in DOMAIN leads
        PROVE  \E l \in R.leads : l.priority = leads[i].priority
    <3>1. LeadTold(s, leads[i]).priority = leads[i].priority
      BY DEF LeadTold
    <3>2. LeadTold(s, leads[i]) \in R.leads
      BY <1>5
    <3>3. QED
      BY <3>1, <3>2
  <2>2. QED
    BY <2>1
<1>14. (\E l \in R.leads : l.priority = "PRIORITY_1")
          <=> \E g \in groups : g.class.priority = "PRIORITY_1"
  BY <1>9, <1>11, <1>12, <1>13
<1>15. QED
  BY <1>4, <1>5, <1>6, <1>11, <1>14 DEF Truthful

LEMMA RowNumbered ==
  ASSUME events \in Seq(Event), NEW r, OnRow(r)
  PROVE  r.reference # NoReference
<1>1. PICK i \in DOMAIN events : r.reference = Reference(events, i)
  BY DEF OnRow
<1>2. events[i] \in Event
  BY <1>1
<1>3. events[i].kind # "none"
  BY <1>2, HistoryAssumption DEF Kinds
<1>4. \E n : r.reference = <<events[i].kind, n>>
  BY <1>1, Zenon DEF Reference
<1>5. QED
  BY <1>3, <1>4 DEF NoReference

(* What a brief cites of records, and what a finding cites.                *)
LEMMA RowCited ==
  ASSUME events \in Seq(Event), NEW rs, \A r \in rs : OnRow(r),
         NEW c \in EventRefs({r.reference : r \in rs})
  PROVE  /\ c[1] = "execution_event"
         /\ \E r \in rs, i \in DOMAIN events : /\ c[2] = Reference(events, i)
                                               /\ r.command = events[i].command
<1>1. PICK r \in rs : c = <<"execution_event", r.reference>>
  BY DEF EventRefs
<1>2. QED
  BY <1>1 DEF OnRow

LEMMA SomeCited ==
  ASSUME events \in Seq(Event), NEW rs, \A r \in rs : OnRow(r)
  PROVE  LET V == SomeOf(MaxRelated, EventRefs({r.reference : r \in rs}))
         IN  V \subseteq EventRefs({r.reference : r \in rs}) /\ (rs # {} => V # {})
<1>1. PICK U : U = EventRefs({r.reference : r \in rs})
  OBVIOUS
<1>2. PICK E : E = {<<"execution_event", Reference(events, i)>> : i \in DOMAIN events}
  OBVIOUS
<1>3. IsFiniteSet(DOMAIN events)
  BY FirstsFinite
<1>4. IsFiniteSet(E)
  <2>1. PICK f : f = [i \in DOMAIN events |-> <<"execution_event", Reference(events, i)>>]
    OBVIOUS
  <2>2. E = {f[i] : i \in DOMAIN events} /\ DOMAIN f = DOMAIN events
    BY <1>2, <2>1
  <2>3. QED
    BY <1>3, <2>2, ImageFinite
<1>5. U \subseteq E
  <2>1. ASSUME NEW c \in U PROVE c \in E
    <3>1. PICK r \in rs : c = <<"execution_event", r.reference>>
      BY <1>1 DEF EventRefs
    <3>2. QED
      BY <1>2, <3>1 DEF OnRow
  <2>2. QED
    BY <2>1
<1>6. IsFiniteSet(U)
  BY <1>4, <1>5, FS_Subset
<1>7. MaxRelated \in Nat /\ MaxRelated # 0
  BY BriefsAssumption
<1>8. PICK V : V = SomeOf(MaxRelated, U)
  OBVIOUS
<1>9. /\ V \subseteq U
      /\ Cardinality(U) <= MaxRelated => V = U
      /\ Cardinality(U) > MaxRelated => Cardinality(V) = MaxRelated
  BY <1>6, <1>7, <1>8, SomeOfSelects
<1>10. rs # {} => U # {}
  BY <1>1, RowNumbered DEF EventRefs
<1>11. V = {} => Cardinality(V) = 0
  BY FS_EmptySet
<1>12. Cardinality(U) \in Nat
  BY <1>6, FS_CardinalityType
<1>13. rs # {} => V # {}
  BY <1>7, <1>9, <1>10, <1>11, <1>12
<1>14. V \subseteq U
  BY <1>9
<1>15. SomeOf(MaxRelated, U) \subseteq U /\ (rs # {} => SomeOf(MaxRelated, U) # {})
  BY <1>8, <1>13, <1>14
<1>16. QED
  BY <1>1, <1>15

LEMMA FindingCites ==
  ASSUME NEW f \in AllFindings, NEW c \in f.references
  PROVE  c[1] \in {"execution_event", "artifact", "path", "browser_download", "removable_device"}
<1>1. \A p : Both(p) = {EventRef(Min(Naming(p))), ArtifactRef(p)}
  BY DEF Both
<1>2. CASE LocationFound(f) \/ MissingFound(f) \/ MatchFound(f)
  <2>1. \E c1, p, c2, k : f = Finding(c1, p, c2, Both(p), k)
    BY <1>2, Zenon DEF LocationFound, MissingFound, MatchFound
  <2>2. \E p : f.references = Both(p)
    BY <2>1 DEF Finding
  <2>3. QED
    BY <1>1, <2>2 DEF EventRef, ArtifactRef
<1>3. CASE ChangeFound(f)
  BY <1>3 DEF ChangeFound, Finding
<1>4. CASE f \in MediaFindings
  BY <1>4 DEF MediaFindings, Finding, EventRef, ArtifactRef
<1>5. CASE DownloadFound(f)
  <2>1. PICK k, d : f = DownloadFinding(d, k)
    BY <1>5 DEF DownloadFound
  <2>2. QED
    BY <2>1, DownloadFindingIs DEF EventRef, ArtifactRef
<1>6. QED
  BY <1>2, <1>3, <1>4, <1>5, FoundSomewhere

LEMMA BriefSays ==
  ASSUME NEW R, NEW subject, NEW rs, NEW priority, NEW says, NEW cites
  PROVE  LET b == Brief(R, subject, rs, priority, says, cites)
         IN  /\ b.subject = subject /\ b.priority = priority /\ b.cites = cites
             /\ b.stored = R.stored
  BY DEF Brief

(* The brief of an artifact, a finding, an activity and a lead.            *)
LEMMA ArtifactBrief ==
  ASSUME events \in Seq(Event), NEW R, Truthful(R), NEW b \in ArtifactBriefs(R)
  PROVE  CitesSubject(b) /\ PriorityStored(b)
<1>1. PICK p \in R.artifacts :
         /\ b.subject = ArtifactRef(p)
         /\ b.cites = {ArtifactRef(p)}
                \cup SomeOf(MaxRelated, EventRefs({r.reference : r \in Names(R, p)}))
                \cup {<<"finding", f.category, f.about>> :
                        f \in {f \in R.findings : ArtifactRef(p) \in f.references}}
  <2>1. PICK p \in R.artifacts : \E priority, says :
           b = Brief(R, ArtifactRef(p), Names(R, p), priority, says,
                     {ArtifactRef(p)}
                       \cup SomeOf(MaxRelated, EventRefs({r.reference : r \in Names(R, p)}))
                       \cup {<<"finding", f.category, f.about>> :
                               f \in {f \in R.findings : ArtifactRef(p) \in f.references}})
    BY Zenon DEF ArtifactBriefs
  <2>2. PICK cites : cites = {ArtifactRef(p)}
                       \cup SomeOf(MaxRelated, EventRefs({r.reference : r \in Names(R, p)}))
                       \cup {<<"finding", f.category, f.about>> :
                               f \in {f \in R.findings : ArtifactRef(p) \in f.references}}
    OBVIOUS
  <2>3. \E rs, priority, says : b = Brief(R, ArtifactRef(p), rs, priority, says, cites)
    BY <2>1, <2>2, Zenon
  <2>4. b.subject = ArtifactRef(p) /\ b.cites = cites
    BY <2>3, BriefSays
  <2>5. QED
    BY <2>2, <2>4
<1>2. PICK rs : rs = Names(R, p)
  OBVIOUS
<1>3. \A r \in rs : OnRow(r) /\ <<r.command.text, p>> \in Mentions
  <2>1. ASSUME NEW r \in rs PROVE OnRow(r) /\ <<r.command.text, p>> \in Mentions
    <3>1. \E g \in R.groups : r \in g.records
      BY <1>2 DEF Names, Records
    <3>2. OnRow(r)
      BY <3>1 DEF Truthful, OnGroup
    <3>3. Holds(r, "executable", p) \/ <<r.command.text, p>> \in Mentions
      BY <1>2 DEF Names
    <3>4. QED
      BY <3>2, <3>3 DEF Holds, OnRow
  <2>2. QED
    BY <2>1
<1>4. PICK V : V = SomeOf(MaxRelated, EventRefs({r.reference : r \in rs}))
  OBVIOUS
<1>5. V \subseteq EventRefs({r.reference : r \in rs})
  BY <1>3, <1>4, SomeCited
<1>6. ASSUME NEW c \in V
      PROVE  c[1] = "execution_event" /\ \E i \in DOMAIN events :
                Reference(events, i) = c[2] /\ <<events[i].command.text, p>> \in Mentions
  <2>1. /\ c[1] = "execution_event"
        /\ \E r \in rs, i \in DOMAIN events : /\ c[2] = Reference(events, i)
                                              /\ r.command = events[i].command
    BY <1>3, <1>5, <1>6, RowCited
  <2>2. QED
    BY <1>3, <2>1
<1>7. b.subject[1] = "artifact" /\ b.subject[2] = p /\ artifact[p] # "none"
      /\ R.findings = findings
  BY <1>1 DEF ArtifactRef, Truthful
<1>8. b.cites # {} /\ \A c \in b.cites :
         \/ c = ArtifactRef(p)
         \/ c \in V
         \/ \E f \in findings : c = <<"finding", f.category, f.about>> /\ b.subject \in f.references
  BY <1>1, <1>2, <1>4, <1>7
<1>9. CitesSubject(b)
  <2>1. ASSUME NEW c \in b.cites
        PROVE  CASE c[1] = "execution_event" ->
                       \E i \in DOMAIN events :
                           /\ Reference(events, i) = c[2]
                           /\ b.subject[1] = "artifact" =>
                                 <<events[i].command.text, b.subject[2]>> \in Mentions
                 [] c[1] = "artifact" -> artifact[c[2]] # "none"
                 [] c[1] = "finding"  ->
                       \E f \in findings : /\ f.category = c[2] /\ f.about = c[3]
                                           /\ b.subject \in f.references
                 [] OTHER -> TRUE
    <3>1. CASE c = ArtifactRef(p)
      BY <1>7, <3>1 DEF ArtifactRef
    <3>2. CASE c \in V
      BY <1>6, <1>7, <3>2
    <3>3. CASE \E f \in findings : c = <<"finding", f.category, f.about>> /\ b.subject \in f.references
      BY <3>3
    <3>4. QED
      BY <1>8, <3>1, <3>2, <3>3
  <2>2. QED
    BY <1>8, <2>1 DEF CitesSubject
<1>10. PriorityStored(b)
  BY <1>7 DEF PriorityStored
<1>11. QED
  BY <1>9, <1>10

(* A brief whose citations are records and artifacts of the collection.    *)
Sourced(cites) ==
    \A c \in cites : \/ c[1] = "execution_event" /\ \E i \in DOMAIN events : Reference(events, i) = c[2]
                     \/ c[1] = "artifact" /\ artifact[c[2]] # "none"
                     \/ c[1] \in {"path", "browser_download", "removable_device"}

LEMMA SourcedCites ==
  ASSUME NEW b, b.subject[1] # "artifact", b.cites # {}, Sourced(b.cites)
  PROVE  CitesSubject(b)
<1>1. ASSUME NEW c \in b.cites
      PROVE  CASE c[1] = "execution_event" ->
                     \E i \in DOMAIN events :
                         /\ Reference(events, i) = c[2]
                         /\ b.subject[1] = "artifact" =>
                               <<events[i].command.text, b.subject[2]>> \in Mentions
               [] c[1] = "artifact" -> artifact[c[2]] # "none"
               [] c[1] = "finding"  ->
                     \E f \in findings : /\ f.category = c[2] /\ f.about = c[3]
                                         /\ b.subject \in f.references
               [] OTHER -> TRUE
  BY DEF Sourced
<1>2. QED
  BY <1>1 DEF CitesSubject

LEMMA FindingBrief ==
  ASSUME CitationsResolve, findings \in {{}, AllFindings}, NEW R, Truthful(R),
         NEW b \in FindingBriefs(R)
  PROVE  CitesSubject(b) /\ PriorityStored(b)
<1>1. PICK f \in findings : /\ b.subject = <<"finding", f.category, f.about>>
                            /\ b.priority = f.priority /\ b.cites = f.references
  <2>1. PICK f \in R.findings :
           b = Brief(R, <<"finding", f.category, f.about>>,
                     {r \in Records(R) : EventRefs({r.reference}) \subseteq f.references},
                     f.priority, {}, f.references)
    BY Zenon DEF FindingBriefs
  <2>2. R.findings = findings
    BY DEF Truthful
  <2>3. QED
    BY <2>1, <2>2, BriefSays
<1>2. b.cites # {} /\ b.subject[1] = "finding"
  BY <1>1 DEF CitationsResolve
<1>3. Sourced(b.cites)
  <2>1. ASSUME NEW c \in f.references
        PROVE  \/ c[1] = "execution_event" /\ \E i \in DOMAIN events : Reference(events, i) = c[2]
               \/ c[1] = "artifact" /\ artifact[c[2]] # "none"
               \/ c[1] \in {"path", "browser_download", "removable_device"}
    <3>1. c[1] \in {"execution_event", "artifact", "path", "browser_download", "removable_device"}
      BY FindingCites
    <3>2. \A p : Tells(p) \subseteq DOMAIN events
      BY DEF Tells, InText, Naming
    <3>3. c[1] = "execution_event" => \E i \in DOMAIN events : Reference(events, i) = c[2]
      BY <3>2 DEF CitationsResolve
    <3>4. c[1] = "artifact" => artifact[c[2]] # "none"
      BY DEF CitationsResolve
    <3>5. QED
      BY <3>1, <3>3, <3>4
  <2>2. QED
    BY <1>1, <2>1 DEF Sourced
<1>4. CitesSubject(b)
  BY <1>2, <1>3, SourcedCites
<1>5. PriorityStored(b)
  BY <1>1 DEF PriorityStored
<1>6. QED
  BY <1>4, <1>5

LEMMA ActivityBrief ==
  ASSUME events \in Seq(Event), NEW R, Truthful(R), NEW b \in ActivityBriefs(R)
  PROVE  CitesSubject(b) /\ PriorityStored(b)
<1>1. PICK g \in R.groups : b \in {
         Brief(R, <<"activity", r.reference>>, g.records, g.class.priority, {},
               SomeOf(MaxRelated, EventRefs({q.reference : q \in g.records}))
                 \cup {ArtifactRef(p) : p \in {g.image} \cap R.artifacts}) :
         r \in {r \in g.records : r.reference # NoReference}}
  BY Zenon DEF ActivityBriefs
<1>2. PICK r \in g.records :
         /\ b.subject = <<"activity", r.reference>> /\ b.priority = g.class.priority
         /\ b.cites = SomeOf(MaxRelated, EventRefs({q.reference : q \in g.records}))
                          \cup {ArtifactRef(p) : p \in {g.image} \cap R.artifacts}
  <2>1. PICK cites : cites = SomeOf(MaxRelated, EventRefs({q.reference : q \in g.records}))
                                 \cup {ArtifactRef(p) : p \in {g.image} \cap R.artifacts}
    OBVIOUS
  <2>2. PICK r \in g.records :
           b = Brief(R, <<"activity", r.reference>>, g.records, g.class.priority, {}, cites)
    BY <1>1, <2>1, Zenon
  <2>3. /\ b.subject = <<"activity", r.reference>> /\ b.priority = g.class.priority
        /\ b.cites = cites
    BY <2>2, BriefSays
  <2>4. QED
    BY <2>1, <2>3
<1>3. OnGroup(g) /\ \A q \in g.records : OnRow(q)
  BY DEF Truthful, OnGroup
<1>4. PICK rs : rs = g.records
  OBVIOUS
<1>5. PICK V : V = SomeOf(MaxRelated, EventRefs({q.reference : q \in rs}))
  OBVIOUS
<1>6. V \subseteq EventRefs({q.reference : q \in rs}) /\ V # {}
  BY <1>2, <1>3, <1>4, <1>5, SomeCited
<1>7. \A c \in V : c[1] = "execution_event" /\ \E i \in DOMAIN events : Reference(events, i) = c[2]
  BY <1>3, <1>4, <1>6, RowCited
<1>8. \A c \in b.cites : c \in V \/ \E p \in R.artifacts : c = ArtifactRef(p)
  BY <1>2, <1>4, <1>5
<1>9. Sourced(b.cites)
  BY <1>7, <1>8 DEF Sourced, ArtifactRef, Truthful
<1>10. CitesSubject(b)
  <2>1. b.subject[1] # "artifact"
    BY <1>2
  <2>2. V \subseteq b.cites
    BY <1>2, <1>4, <1>5
  <2>3. b.cites # {}
    BY <1>6, <2>2
  <2>4. QED
    BY <1>9, <2>1, <2>3, SourcedCites
<1>11. PriorityStored(b)
  <2>1. PICK h \in groups : h.class.priority = g.class.priority /\ h.records = Cited(g)
    BY <1>3 DEF OnGroup
  <2>2. r.reference \in h.records
    BY <2>1 DEF Cited
  <2>3. QED
    BY <1>2, <2>1, <2>2 DEF PriorityStored
<1>12. QED
  BY <1>10, <1>11

LEMMA LeadBrief ==
  ASSUME events \in Seq(Event), NEW art, groups = Groups(events, art), NEW R, Truthful(R),
         NEW b \in LeadBriefs(R)
  PROVE  CitesSubject(b) /\ PriorityStored(b)
<1>1. PICK l \in R.leads :
         /\ b.subject = <<"lead", l.references>> /\ b.priority = l.priority
         /\ b.cites = EventRefs({r.reference : r \in UNION {g.records : g \in l.groups}})
                          \cup {ArtifactRef(p) : p \in {g.image : g \in l.groups} \cap R.artifacts}
  <2>1. PICK l \in R.leads :
           b = Brief(R, <<"lead", l.references>>, UNION {g.records : g \in l.groups}, l.priority, {},
                     EventRefs({r.reference : r \in UNION {g.records : g \in l.groups}})
                       \cup {ArtifactRef(p) : p \in {g.image : g \in l.groups} \cap R.artifacts})
    BY Zenon DEF LeadBriefs
  <2>2. PICK cites : cites =
           EventRefs({r.reference : r \in UNION {g.records : g \in l.groups}})
             \cup {ArtifactRef(p) : p \in {g.image : g \in l.groups} \cap R.artifacts}
    OBVIOUS
  <2>3. \E rs : b = Brief(R, <<"lead", l.references>>, rs, l.priority, {}, cites)
    BY <2>1, <2>2, Zenon
  <2>4. b.subject = <<"lead", l.references>> /\ b.priority = l.priority /\ b.cites = cites
    BY <2>3, BriefSays
  <2>5. QED
    BY <2>2, <2>4
<1>2. PICK rs : rs = UNION {g.records : g \in l.groups}
  OBVIOUS
<1>3. /\ l.groups # {} /\ \A g \in l.groups : OnGroup(g) /\ g.class.priority = l.priority
      /\ l.references = UNION {Cited(g) : g \in l.groups}
  BY DEF Truthful, OnLead
<1>4. \A r : r \in rs <=> \E g \in l.groups : r \in g.records
  BY <1>2
<1>5. rs # {} /\ \A r \in rs : OnRow(r)
  BY <1>3, <1>4 DEF OnGroup
<1>6. PICK V : V = EventRefs({r.reference : r \in rs})
  OBVIOUS
<1>7. \A c \in V : c[1] = "execution_event" /\ \E i \in DOMAIN events : Reference(events, i) = c[2]
  BY <1>5, <1>6, RowCited
<1>8. b.cites # {} /\ \A c \in b.cites : c \in V \/ \E p \in R.artifacts : c = ArtifactRef(p)
  <2>1. V # {}
    BY <1>5, <1>6, RowNumbered DEF EventRefs
  <2>2. b.cites = V \cup {ArtifactRef(p) : p \in {g.image : g \in l.groups} \cap R.artifacts}
    BY <1>1, <1>2, <1>6
  <2>3. QED
    BY <2>1, <2>2
<1>9. Sourced(b.cites)
  BY <1>7, <1>8 DEF Sourced, ArtifactRef, Truthful
<1>10. CitesSubject(b)
  <2>1. b.subject[1] # "artifact"
    BY <1>1
  <2>2. QED
    BY <1>8, <1>9, <2>1, SourcedCites
<1>11. ASSUME NEW h \in groups, h.records \cap l.references # {}
       PROVE  b.priority = h.class.priority
  <2>1. PICK x : x \in h.records /\ x \in l.references
    BY <1>11
  <2>2. PICK g \in l.groups : x \in Cited(g)
    BY <1>3, <2>1
  <2>3. PICK k \in groups : k.class.priority = g.class.priority /\ k.records = Cited(g)
    BY <1>3 DEF OnGroup
  <2>4. \A m, n \in Groups(events, art) : m.records \cap n.records # {} => m = n
    BY GroupsSay
  <2>5. k = h
    BY <2>1, <2>2, <2>3, <2>4
  <2>6. QED
    BY <1>1, <1>3, <2>3, <2>5
<1>12. PriorityStored(b)
  <2>1. b.subject[1] = "lead" /\ b.subject[2] = l.references
    BY <1>1
  <2>2. QED
    BY <1>11, <2>1 DEF PriorityStored
<1>13. QED
  BY <1>10, <1>12

LEMMA AllBriefs ==
  ASSUME AInv, FindInv, Stored, NEW b \in BriefsOf(FromRows)
  PROVE  CitesSubject(b) /\ PriorityStored(b)
<1>1. PICK R : R = FromRows
  OBVIOUS
<1>2. Truthful(R)
  BY <1>1, PayloadTrue
<1>3. events \in Seq(Event) /\ groups = Groups(events, artifact)
  BY DEF AInv, FindInv, Stored, HInv, HTypeOK
<1>4. findings \in {{}, AllFindings} /\ HTypeOK
  BY DEF FindInv, HInv
<1>5. CitationsResolve
  BY <1>4, AllResolve
<1>6. CASE b \in ArtifactBriefs(R)
  BY <1>2, <1>3, <1>6, ArtifactBrief
<1>7. CASE b \in FindingBriefs(R)
  BY <1>2, <1>4, <1>5, <1>7, FindingBrief
<1>8. CASE b \in ActivityBriefs(R)
  BY <1>2, <1>3, <1>8, ActivityBrief
<1>9. CASE b \in LeadBriefs(R)
  <2>1. PICK art : art = artifact
    OBVIOUS
  <2>2. groups = Groups(events, art)
    BY <1>3, <2>1
  <2>3. QED
    BY <1>2, <1>3, <1>9, <2>2, LeadBrief
<1>10. QED
  BY <1>1, <1>6, <1>7, <1>8, <1>9 DEF BriefsOf

(* What the summary says of the leads.                                     *)
LEMMA SummaryTrue ==
  ASSUME NEW R, Truthful(R), NEW s, s = Summary(R)
  PROVE  /\ (s.urgent = {}) <=> \A g \in groups : g.class.priority # "PRIORITY_1"
         /\ \A u \in s.urgent : u.ran <=> Ran(u.cites)
<1>1. s.urgent = {[ran |-> l.confirmed, cites |-> l.references] :
                     l \in {l \in R.leads : l.priority = "PRIORITY_1"}}
  BY DEF Summary
<1>2. (s.urgent = {}) <=> \A l \in R.leads : l.priority # "PRIORITY_1"
  BY <1>1
<1>3. ASSUME NEW u \in s.urgent PROVE u.ran <=> Ran(u.cites)
  <2>1. PICK l \in R.leads : u = [ran |-> l.confirmed, cites |-> l.references]
    BY <1>1
  <2>2. l.confirmed <=> Ran(l.references)
    BY DEF Truthful, OnLead
  <2>3. u.ran = l.confirmed /\ u.cites = l.references
    BY <2>1
  <2>4. QED
    BY <2>2, <2>3
<1>4. QED
  BY <1>2, <1>3 DEF Truthful

(* Nothing is described of the report of a command.                        *)
LEMMA NothingDescribed == BriefsOf(CommandReport) = {}
<1>1. PICK R : R = CommandReport
  OBVIOUS
<1>2. R.groups = {} /\ R.artifacts = {} /\ R.findings = {} /\ R.leads = {}
  BY <1>1 DEF CommandReport
<1>3. ArtifactBriefs(R) = {}
  BY <1>2 DEF ArtifactBriefs
<1>4. FindingBriefs(R) = {}
  BY <1>2 DEF FindingBriefs
<1>5. ActivityBriefs(R) = {}
  BY <1>2 DEF ActivityBriefs
<1>6. LeadBriefs(R) = {}
  BY <1>2 DEF LeadBriefs
<1>7. QED
  BY <1>1, <1>3, <1>4, <1>5, <1>6 DEF BriefsOf

(* Before there are rows, only leads are described, and nothing is cited.  *)
Untraced(b) == b.subject[1] = "lead" /\ b.cites = {} /\ ~b.stored

LEMMA UnnumberedGroup ==
  ASSUME NEW g, NEW r \in Unnumbered(g).records
  PROVE  r.reference = NoReference
<1>1. PICK t : t = GroupTold(Collected, g)
  OBVIOUS
<1>2. t.records = {Slim(ref) : ref \in g.records} /\ "records" \in DOMAIN t
  BY <1>1 DEF GroupTold
<1>3. Unnumbered(g).records = {[q EXCEPT !.reference = NoReference] : q \in t.records}
  BY <1>1, <1>2 DEF Unnumbered
<1>4. PICK q \in t.records : r = [q EXCEPT !.reference = NoReference]
  BY <1>3
<1>5. PICK ref : q = Slim(ref)
  BY <1>2, <1>4
<1>6. "reference" \in DOMAIN q
  BY <1>5 DEF Slim
<1>7. QED
  BY <1>4, <1>6

LEMMA EvidenceDescribed ==
  ASSUME NEW b \in BriefsOf(FromEvidence)
  PROVE  Untraced(b)
<1>1. PICK R : R = FromEvidence
  OBVIOUS
<1>2. /\ R.artifacts = {} /\ R.findings = {} /\ R.stored = FALSE
      /\ \A g \in R.groups : \A r \in g.records : r.reference = NoReference
      /\ \A l \in R.leads : \A g \in l.groups : \A r \in g.records : r.reference = NoReference
  <2>1. PICK told, leads : told = Groups(Collected, [p \in Named |-> "none"]) /\ leads = Leads(told)
    OBVIOUS
  <2>2. /\ R.artifacts = {} /\ R.findings = {} /\ R.stored = FALSE
        /\ R.groups = {Unnumbered(g) : g \in told}
        /\ R.leads = {[priority |-> leads[i].priority, confirmed |-> leads[i].confirmed,
                       references |-> {}, groups |-> {Unnumbered(g) : g \in leads[i].members}] :
                          i \in DOMAIN leads}
    BY <1>1, <2>1 DEF FromEvidence
  <2>3. \A l \in R.leads : \A g \in l.groups : \E h : g = Unnumbered(h)
    BY <2>2
  <2>4. QED
    BY <2>2, <2>3, UnnumberedGroup
<1>3. ArtifactBriefs(R) = {}
  BY <1>2 DEF ArtifactBriefs
<1>4. FindingBriefs(R) = {}
  BY <1>2 DEF FindingBriefs
<1>5. ActivityBriefs(R) = {}
  <2>1. \A g \in R.groups : {r \in g.records : r.reference # NoReference} = {}
    BY <1>2
  <2>2. QED
    BY <2>1 DEF ActivityBriefs
<1>6. b \in LeadBriefs(R)
  BY <1>1, <1>3, <1>4, <1>5 DEF BriefsOf
<1>7. PICK l \in R.leads :
         b = Brief(R, <<"lead", l.references>>, UNION {g.records : g \in l.groups}, l.priority, {},
                   EventRefs({r.reference : r \in UNION {g.records : g \in l.groups}})
                     \cup {ArtifactRef(p) : p \in {g.image : g \in l.groups} \cap R.artifacts})
  BY <1>6, Zenon DEF LeadBriefs
<1>8. PICK rs, cites :
         /\ rs = UNION {g.records : g \in l.groups}
         /\ cites = EventRefs({r.reference : r \in rs})
                       \cup {ArtifactRef(p) : p \in {g.image : g \in l.groups} \cap R.artifacts}
  OBVIOUS
<1>9. b = Brief(R, <<"lead", l.references>>, rs, l.priority, {}, cites)
  BY <1>7, <1>8, Zenon
<1>10. b.subject = <<"lead", l.references>> /\ b.cites = cites /\ b.stored = FALSE
  BY <1>2, <1>9, BriefSays
<1>11. \A r \in rs : r.reference = NoReference
  <2>1. \A r \in rs : \E g \in l.groups : r \in g.records
    BY <1>8
  <2>2. QED
    BY <1>2, <2>1
<1>12. cites = {}
  <2>1. EventRefs({r.reference : r \in rs}) = {}
    BY <1>11 DEF EventRefs
  <2>2. QED
    BY <1>2, <1>8, <2>1
<1>13. QED
  BY <1>10, <1>12 DEF Untraced

(* Once stored, what was analysed and what a report says of it stay.       *)
LEMMA StoredStays == FindInv /\ Stored /\ CNext => UNCHANGED cvars
  BY DEF FindInv, Stored, CNext, ANext, Analyzes, Correlates, cvars, avars

LEMMA PayloadStays ==
  ASSUME UNCHANGED cvars
  PROVE  ReportPayload' = ReportPayload /\ FromRows' = FromRows /\ Stored' = Stored
<1>1. UNCHANGED <<events, artifact, findings, timeline>>
  BY DEF cvars, avars, hvars
<1>2. Stored' = Stored
  BY <1>1 DEF Stored
<1>3. FromRows' = FromRows
  BY <1>1 DEF FromRows, GroupTold, LeadTold, Slim, Row
<1>4. FromEvidence' = FromEvidence
  BY <1>1 DEF FromEvidence, Unnumbered, Collected, GroupTold, Slim, Row
<1>5. QED
  BY <1>2, <1>3, <1>4 DEF ReportPayload

LEMMA PayloadKind == ReportPayload.kind = "collection" /\ CommandReport.kind = "command"
  BY DEF ReportPayload, FromRows, FromEvidence, CommandReport

(* Until the collection has reported only commands have, and of what is    *)
(* not stored only leads are described; then there is one report of the    *)
(* collection, and what is written is made from it or from a command's.    *)
BInv ==
    /\ AInv /\ FindInv
    /\ reports \in Seq({CommandReport, ReportPayload})
    /\ \A b \in briefs : Untraced(b) \/ (Stored /\ b \in BriefsOf(FromRows))
    /\ \A n \in narrative :
          /\ n.of \in 0..Len(reports)
          /\ n.stored => Stored
          /\ n.stored /\ (n.of > 0 => reports[n.of].kind # "command")
                => n.summary = Summary(FromRows)

LEMMA InitBInv == BInit => BInv
<1> SUFFICES ASSUME BInit PROVE BInv
  OBVIOUS
<1>1. AInv /\ FindInv
  BY InitAInv, InitFindInv DEF BInit, CInit
<1>2. reports = <<>> /\ briefs = {} /\ narrative = {}
  BY DEF BInit
<1>3. reports \in Seq({CommandReport, ReportPayload}) /\ DOMAIN reports = {}
  BY <1>2
<1>4. QED
  BY <1>1, <1>2, <1>3 DEF BInv

LEMMA NextBInv == BInv /\ [BNext]_bvars => BInv'
<1> SUFFICES ASSUME BInv, [BNext]_bvars PROVE BInv'
  OBVIOUS
<1>1. AInv' /\ FindInv'
  <2>1. [CNext]_cvars
    BY DEF BNext, Reports, Commands, Describes, Summarizes, bvars
  <2>2. [ANext]_avars
    BY <2>1 DEF CNext, Correlates, cvars
  <2>3. QED
    BY <2>1, <2>2, NextAInv, NextFindInv DEF BInv
<1>2. PICK R, T : R = ReportPayload /\ T = FromRows
  OBVIOUS
<1>3. /\ reports \in Seq({CommandReport, R})
      /\ \A b \in briefs : Untraced(b) \/ (Stored /\ b \in BriefsOf(T))
      /\ \A n \in narrative :
            /\ n.of \in 0..Len(reports)
            /\ n.stored => Stored
            /\ n.stored /\ (n.of > 0 => reports[n.of].kind # "command") => n.summary = Summary(T)
  BY <1>2 DEF BInv
<1>4. /\ Len(reports) \in Nat /\ DOMAIN reports = 1..Len(reports)
      /\ \A i \in 1..Len(reports) : reports[i] \in {CommandReport, R}
  BY <1>3, ListFacts
<1>5. UNCHANGED cvars => ReportPayload' = R /\ FromRows' = T /\ Stored' = Stored
  BY <1>2, PayloadStays
<1>6. CASE UNCHANGED bvars
  <2>1. /\ UNCHANGED <<reports, briefs, narrative>>
        /\ ReportPayload' = R /\ FromRows' = T /\ Stored' = Stored
    BY <1>5, <1>6 DEF bvars
  <2>2. QED
    BY <1>1, <1>3, <2>1 DEF BInv
<1>7. CASE Collecting /\ CNext /\ UNCHANGED <<reports, briefs, narrative>>
  <2>1. CASE Stored
    <3>1. UNCHANGED cvars
      BY <1>7, <2>1, StoredStays DEF BInv
    <3>2. QED
      BY <1>6, <1>7, <3>1 DEF bvars
  <2>2. CASE ~Stored
    <3>1. \A i \in 1..Len(reports) : reports[i] = CommandReport
      BY <1>2, <1>4, <1>7, PayloadKind DEF Collecting
    <3>2. PICK Q : Q = ReportPayload'
      OBVIOUS
    <3>3. reports \in Seq({CommandReport, Q})
      BY <1>3, <3>1
    <3>4. \A b \in briefs : Untraced(b)
      BY <1>3, <2>2
    <3>5. \A n \in narrative : n.of \in 0..Len(reports) /\ ~n.stored
      BY <1>3, <2>2
    <3>6. QED
      BY <1>1, <1>7, <3>2, <3>3, <3>4, <3>5 DEF BInv
  <2>3. QED
    BY <2>1, <2>2
<1>8. CASE Reports \/ Commands
  <2>1. PICK r : reports' = Append(reports, r) /\ r \in {CommandReport, R}
    BY <1>2, <1>8 DEF Reports, Commands
  <2>2. /\ UNCHANGED <<briefs, narrative>>
        /\ ReportPayload' = R /\ FromRows' = T /\ Stored' = Stored
    BY <1>5, <1>8 DEF Reports, Commands
  <2>3. /\ reports' \in Seq({CommandReport, R}) /\ Len(reports') = Len(reports) + 1
        /\ \A i \in 1..Len(reports) : reports'[i] = reports[i]
    BY <1>3, <2>1
  <2>4. ASSUME NEW n \in narrative
        PROVE  /\ n.of \in 0..Len(reports')
               /\ n.stored => Stored
               /\ n.stored /\ (n.of > 0 => reports'[n.of].kind # "command") => n.summary = Summary(T)
    <3>1. n.of \in 0..Len(reports) /\ (n.of > 0 => reports'[n.of] = reports[n.of])
      BY <1>3, <1>4, <2>3
    <3>2. n.of \in 0..Len(reports')
      BY <1>4, <2>3, <3>1
    <3>3. QED
      BY <1>3, <3>1, <3>2
  <2>5. QED
    BY <1>1, <1>3, <2>2, <2>3, <2>4 DEF BInv
<1>9. CASE Describes \/ Summarizes
  <2>1. /\ UNCHANGED <<cvars, reports>>
        /\ ReportPayload' = R /\ FromRows' = T /\ Stored' = Stored
    BY <1>5, <1>9 DEF Describes, Summarizes
  <2>2. PICK Q : Q = LatestReport
    OBVIOUS
  <2>3. /\ Q \in {CommandReport, R}
        /\ (Len(reports) > 0 => reports[Len(reports)].kind # "command") => Q = R
    <3>1. CASE reports = <<>>
      BY <1>2, <2>2, <3>1 DEF LatestReport
    <3>2. CASE reports # <<>>
      <4>1. Q = reports[Len(reports)] /\ Len(reports) \in 1..Len(reports)
        BY <1>3, <1>4, <2>2, <3>2 DEF LatestReport
      <4>2. Q \in {CommandReport, R}
        BY <1>4, <4>1
      <4>3. QED
        BY <1>4, <4>1, <4>2, PayloadKind
    <3>3. QED
      BY <3>1, <3>2
  <2>4. CASE Describes
    <3>1. PICK b \in BriefsOf(Q) : briefs' = briefs \cup {b}
      BY <2>2, <2>4 DEF Describes
    <3>2. Q = R
      BY <2>3, <3>1, NothingDescribed
    <3>3. CASE Stored
      <4>1. R = T
        BY <1>2, <3>3 DEF ReportPayload
      <4>2. \A c \in briefs' : Untraced(c) \/ (Stored /\ c \in BriefsOf(T))
        BY <1>3, <3>1, <3>2, <3>3, <4>1
      <4>3. QED
        BY <1>1, <1>3, <2>1, <2>4, <4>2 DEF BInv, Describes
    <3>4. CASE ~Stored
      <4>1. R = FromEvidence
        BY <1>2, <3>4 DEF ReportPayload
      <4>2. Untraced(b)
        BY <3>1, <3>2, <4>1, EvidenceDescribed
      <4>3. \A c \in briefs' : Untraced(c) \/ (Stored /\ c \in BriefsOf(T))
        BY <1>3, <3>1, <4>2
      <4>4. QED
        BY <1>1, <1>3, <2>1, <2>4, <4>3 DEF BInv, Describes
    <3>5. QED
      BY <3>3, <3>4
  <2>5. CASE Summarizes
    <3>1. PICK w : w = [of |-> Len(reports), stored |-> Stored, summary |-> Summary(Q)]
      OBVIOUS
    <3>2. briefs' = briefs /\ \A n \in narrative' : n \in narrative \/ n = w
      BY <2>2, <2>5, <3>1 DEF Summarizes
    <3>3. /\ w.of \in 0..Len(reports)
          /\ w.stored => Stored
          /\ w.stored /\ (w.of > 0 => reports[w.of].kind # "command") => w.summary = Summary(T)
      <4>1. w.of = Len(reports) /\ w.stored = Stored /\ w.summary = Summary(Q)
        BY <3>1
      <4>2. w.of \in 0..Len(reports)
        BY <1>4, <4>1
      <4>3. Stored => R = T
        BY <1>2 DEF ReportPayload
      <4>4. QED
        BY <2>3, <4>1, <4>2, <4>3
    <3>4. \A n \in narrative' :
            /\ n.of \in 0..Len(reports)
            /\ n.stored => Stored
            /\ n.stored /\ (n.of > 0 => reports[n.of].kind # "command") => n.summary = Summary(T)
      BY <1>3, <3>2, <3>3
    <3>5. QED
      BY <1>1, <1>3, <2>1, <3>2, <3>4 DEF BInv
  <2>6. QED
    BY <1>9, <2>4, <2>5
<1>10. QED
  BY <1>6, <1>7, <1>8, <1>9 DEF BNext

(* What a brief cites and how urgent it says its subject is are on record, *)
(* and so is what a case summary says of the leads, unless a command was   *)
(* the last to report (build_brief, build_case_summary).                   *)
THEOREM BriefsAreFaithful == BSpec => []BriefsFaithful
<1>1. BInv => BriefsFaithful
  <2> SUFFICES ASSUME BInv PROVE BriefsFaithful
    OBVIOUS
  <2>1. ASSUME NEW b \in briefs PROVE CitesSubject(b) /\ PriorityStored(b)
    <3>1. CASE Untraced(b)
      BY <3>1 DEF Untraced, CitesSubject, PriorityStored
    <3>2. CASE Stored /\ b \in BriefsOf(FromRows)
      BY <3>2, AllBriefs DEF BInv
    <3>3. QED
      BY <3>1, <3>2 DEF BInv
  <2>2. ASSUME NEW n \in narrative, n.stored, n.of > 0 => reports[n.of].kind # "command"
        PROVE  /\ (n.summary.urgent = {}) <=> \A g \in groups : g.class.priority # "PRIORITY_1"
               /\ \A l \in n.summary.urgent : l.ran <=> Ran(l.cites)
    <3>1. PICK R : R = FromRows
      OBVIOUS
    <3>2. Stored /\ n.summary = Summary(R)
      BY <2>2, <3>1 DEF BInv
    <3>3. Truthful(R)
      BY <3>1, <3>2, PayloadTrue DEF BInv
    <3>4. QED
      BY <3>2, <3>3, SummaryTrue
  <2>3. NarrativeTellsUrgent
    BY <2>2 DEF NarrativeTellsUrgent, Ran
  <2>4. QED
    BY <2>1, <2>3 DEF BriefsFaithful, BriefCitesSubject, BriefPriorityStored
<1>2. QED
  BY <1>1, InitBInv, NextBInv, PTL DEF BSpec

-----------------------------------------------------------------------------
(* Detections                                                              *)

KnownDriver(d) == d.digest \in Documented \/ (d.windows /\ d.name \in Documented)

(* The verdict on a driver is that of verify_driver with the reference the *)
(* collection used.                                                        *)
InventorySound ==
    /\ inventory.status \in {"none", "available", "unavailable"}
    /\ inventory.status = "none" => inventory.drivers = <<>>
    /\ inventory.status = "unavailable" => cache \in {"empty", "unavailable"}
    /\ inventory.drivers \in Seq(ToSet(inventory.drivers))
    /\ \A i \in DOMAIN inventory.drivers :
          LET r == inventory.drivers[i]
          IN  r.verdict = Verify(r.driver, inventory.status) /\ r.driver.windows \in BOOLEAN

MemorySound ==
    /\ memory.processes \in Seq(ToSet(memory.processes))
    /\ \A p \in ToSet(memory.processes) : p.expected \in BOOLEAN
    /\ memory.provenance \in {"none", "UNAVAILABLE"} => memory.processes = <<>>

DetInv ==
    /\ cache \in {"empty", "available", "unavailable"}
    /\ InventorySound /\ MemorySound
    /\ judged \in BOOLEAN
    /\ judged => alerts = DetectDrivers \o DetectMemory
    /\ ~judged => alerts = <<>>

LEMMA LoadedKnown ==
  ASSUME cache \in {"empty", "available", "unavailable"}
  PROVE  Loaded \in {"available", "unavailable"}
  BY DEF Loaded

LEMMA NoRows ==
  <<>> \in Seq(ToSet(<<>>)) /\ ToSet(<<>>) = {} /\ DOMAIN <<>> = {}
  BY DEF ToSet

LEMMA NoneSound ==
    /\ inventory = NoInventory => InventorySound
    /\ memory = NoAnalysis => MemorySound
<1>1. /\ NoInventory.status = "none" /\ NoInventory.drivers = <<>>
      /\ NoAnalysis.processes = <<>>
  BY DEF NoInventory, NoAnalysis
<1>2. ASSUME inventory = NoInventory
      PROVE  InventorySound
  BY <1>1, <1>2, NoRows DEF InventorySound
<1>3. ASSUME memory = NoAnalysis
      PROVE  MemorySound
  BY <1>1, <1>3, NoRows DEF MemorySound
<1>4. QED
  BY <1>2, <1>3

LEMMA InitDetInv == DInit => DetInv
  BY NoneSound DEF DInit, DetInv

LEMMA NextDetInv ==
  ASSUME DetInv, [DNext]_dvars
  PROVE  DetInv'
<1>1. CASE ReferenceChanges
  BY <1>1 DEF ReferenceChanges, DetInv, InventorySound, MemorySound, DetectDrivers, DetectMemory
<1>2. CASE ProcessRestarts
  BY <1>2 DEF ProcessRestarts, DetInv, InventorySound, MemorySound, DetectDrivers, DetectMemory
<1>3. CASE CollectsDrivers
  <2>1. /\ cache' \in {"available", "unavailable"}
        /\ alerts' = <<>> /\ judged' = FALSE /\ UNCHANGED memory
    BY <1>3, LoadedKnown DEF CollectsDrivers, DetInv
  <2>2. PICK drivers \in Drivers :
           inventory' = [status |-> cache',
                drivers |-> [i \in DOMAIN drivers |->
                    [driver |-> drivers[i], verdict |-> Verify(drivers[i], cache')]]]
    BY <1>3 DEF CollectsDrivers
  <2>3. PICK rows : rows = [i \in DOMAIN drivers |->
                    [driver |-> drivers[i], verdict |-> Verify(drivers[i], cache')]]
    OBVIOUS
  <2>4. inventory'.status = cache' /\ inventory'.drivers = rows
    BY <2>2, <2>3
  <2>5. drivers \in Seq(ToSet(drivers)) /\ \A i \in DOMAIN drivers : drivers[i].windows \in BOOLEAN
    BY DetectionsAssumption DEF ToSet
  <2>6. rows \in Seq(ToSet(rows)) /\ DOMAIN rows = DOMAIN drivers
    BY <2>3, <2>5 DEF ToSet
  <2>7. \A i \in DOMAIN rows : /\ rows[i].verdict = Verify(rows[i].driver, cache')
                               /\ rows[i].driver.windows \in BOOLEAN
    BY <2>3, <2>5
  <2>8. InventorySound'
    BY <2>1, <2>4, <2>6, <2>7 DEF InventorySound
  <2>9. MemorySound'
    BY <2>1 DEF DetInv, MemorySound
  <2>10. QED
    BY <2>1, <2>8, <2>9 DEF DetInv
<1>4. CASE CollectionFails
  <2>1. NoInventory.status = "none" /\ NoInventory.drivers = <<>>
    BY DEF NoInventory
  <2>2. /\ inventory' = NoInventory /\ UNCHANGED <<cache, memory>>
        /\ alerts' = <<>> /\ judged' = FALSE
    BY <1>4 DEF CollectionFails
  <2>3. InventorySound'
    BY <2>1, <2>2, NoRows DEF InventorySound
  <2>4. QED
    BY <2>2, <2>3 DEF DetInv, MemorySound
<1>5. CASE AnalysesImage
  <2>1. \/ memory'.processes \in Processes /\ memory'.provenance \in {"REAL", "FIXTURE"}
        \/ memory'.processes = <<>>
    BY <1>5 DEF AnalysesImage, NoAnalysis
  <2>2. MemorySound'
    BY <2>1, NoRows, DetectionsAssumption DEF MemorySound
  <2>3. QED
    BY <1>5, <2>2 DEF AnalysesImage, DetInv, InventorySound
<1>6. CASE Detects
  <2>1. UNCHANGED <<cache, inventory, memory>> /\ judged' = TRUE
        /\ alerts' = DetectDrivers \o DetectMemory
    BY <1>6 DEF Detects
  <2>2. (InventorySound /\ MemorySound)'
    BY <2>1 DEF DetInv, InventorySound, MemorySound
  <2>3. DetectDrivers' = DetectDrivers /\ DetectMemory' = DetectMemory
    BY <2>1 DEF DetectDrivers, DetectMemory
  <2>4. QED
    BY <2>1, <2>2, <2>3 DEF DetInv
<1>7. CASE UNCHANGED dvars
  BY <1>7 DEF dvars, DetInv, InventorySound, MemorySound, DetectDrivers, DetectMemory
<1>8. QED
  BY <1>1, <1>2, <1>3, <1>4, <1>5, <1>6, <1>7 DEF DNext

LEMMA VerdictMeans ==
  ASSUME NEW d, d.windows \in BOOLEAN
  PROVE  /\ Verify(d, "available") = "sha256" => d.digest \in Documented
         /\ Verify(d, "available") = "filename" =>
               /\ d.digest \notin Documented
               /\ d.windows /\ d.name \in Documented
         /\ KnownDriver(d) => Verify(d, "available") \in {"sha256", "filename"}
<1>1. CASE d.digest \in Documented
  BY <1>1 DEF Verify
<1>2. CASE d.digest \notin Documented /\ d.windows /\ d.name \in Documented
  BY <1>2 DEF Verify
<1>3. CASE d.digest \notin Documented /\ ~(d.windows /\ d.name \in Documented)
  BY <1>3 DEF Verify, KnownDriver
<1>4. QED
  BY <1>1, <1>2, <1>3

(* What the rules over drivers say, and what they leave out.               *)
LEMMA DriverAlertsTrue ==
  ASSUME InventorySound, inventory.status = "available"
  PROVE  LET told == DetectDrivers
         IN  /\ told \in Seq([rule : {"DRV-001", "DRV-002"},
                               subject : {r.driver : r \in ToSet(inventory.drivers)}])
             /\ \A n \in DOMAIN told :
                   IF told[n].rule = "DRV-001" THEN told[n].subject.digest \in Documented
                   ELSE /\ told[n].subject.digest \notin Documented
                        /\ told[n].subject.windows /\ told[n].subject.name \in Documented
             /\ \A i \in DOMAIN inventory.drivers :
                   KnownDriver(inventory.drivers[i].driver) =>
                      \/ \E n \in DOMAIN told : told[n].subject = inventory.drivers[i].driver
                      \/ i > 2 * PerRule
                      \/ Len(told) = PerRule
<1>0. PICK rows, S : rows = inventory.drivers /\ S = ToSet(rows)
  OBVIOUS
<1>1. PICK told : told = DetectDrivers
  OBVIOUS
<1>2. PerRule \in Nat \ {0} /\ 2 * PerRule \in Nat
  BY DetectionsAssumption
<1>3. rows \in Seq(S) /\ DOMAIN rows = 1..Len(rows) /\ \A i \in DOMAIN rows : rows[i] \in S
  BY <1>0 DEF InventorySound, ToSet
<1>4. PICK part : part = UpTo(rows, 2 * PerRule)
  OBVIOUS
<1>5. /\ part \in Seq(S) /\ DOMAIN part = 1..Len(part)
      /\ Len(part) = IF Len(rows) < 2 * PerRule THEN Len(rows) ELSE 2 * PerRule
      /\ \A i \in DOMAIN part : i \in DOMAIN rows /\ part[i] = rows[i]
  BY <1>2, <1>3, <1>4, UpToShortens
<1>6. PICK T : T = {r \in S : r.verdict \in {"sha256", "filename"}}
  OBVIOUS
<1>7. PICK matched : matched = Where(part, T)
  OBVIOUS
<1>8. /\ matched \in Seq(S) /\ DOMAIN matched = 1..Len(matched)
      /\ \A n \in DOMAIN matched : matched[n] \in T /\ \E i \in DOMAIN part : matched[n] = part[i]
      /\ \A i \in DOMAIN part : part[i] \in T => \E n \in DOMAIN matched : matched[n] = part[i]
  <2>1. part \in Seq(S)
    BY <1>5
  <2>2. QED
    BY <1>7, <2>1, WhereSelects
<1>9. PICK alerted : alerted = [i \in DOMAIN matched |->
            [rule |-> IF matched[i].verdict = "sha256" THEN "DRV-001" ELSE "DRV-002",
             subject |-> matched[i].driver]]
  OBVIOUS
<1> DEFINE A == [rule : {"DRV-001", "DRV-002"}, subject : {r.driver : r \in S}]
<1>10. /\ alerted \in Seq(A) /\ DOMAIN alerted = DOMAIN matched /\ Len(alerted) = Len(matched)
  <2>1. \A i \in 1..Len(matched) : alerted[i] \in A
    BY <1>8, <1>9
  <2>2. QED
    BY <1>8, <1>9, <2>1
<1>11. told = UpTo(alerted, PerRule)
  BY <1>0, <1>1, <1>4, <1>6, <1>7, <1>9 DEF DetectDrivers, DriverAlerts, Matched
<1>12. /\ told \in Seq(A) /\ DOMAIN told = 1..Len(told)
       /\ Len(told) = IF Len(alerted) < PerRule THEN Len(alerted) ELSE PerRule
       /\ \A i \in DOMAIN told : i \in DOMAIN alerted /\ told[i] = alerted[i]
  <2> HIDE DEF A
  <2>1. alerted \in Seq(A) /\ PerRule \in Nat
    BY <1>2, <1>10
  <2>2. QED
    BY <1>11, <2>1, UpToShortens
<1>13. \A r \in S : /\ r.verdict = Verify(r.driver, "available") /\ r.driver.windows \in BOOLEAN
  BY <1>0 DEF InventorySound, ToSet
<1>14. \A r \in S :
          /\ r.verdict = "sha256" => r.driver.digest \in Documented
          /\ r.verdict = "filename" =>
                /\ r.driver.digest \notin Documented
                /\ r.driver.windows /\ r.driver.name \in Documented
          /\ KnownDriver(r.driver) => r.verdict \in {"sha256", "filename"}
  BY <1>13, VerdictMeans
<1>15. ASSUME NEW n \in DOMAIN told
       PROVE  IF told[n].rule = "DRV-001" THEN told[n].subject.digest \in Documented
              ELSE /\ told[n].subject.digest \notin Documented
                   /\ told[n].subject.windows /\ told[n].subject.name \in Documented
  <2>1. n \in DOMAIN matched /\ told[n] = alerted[n]
    BY <1>10, <1>12
  <2>2. matched[n] \in S /\ matched[n].verdict \in {"sha256", "filename"}
    BY <1>6, <1>8, <2>1
  <2>3. /\ told[n].rule = IF matched[n].verdict = "sha256" THEN "DRV-001" ELSE "DRV-002"
        /\ told[n].subject = matched[n].driver
    BY <1>9, <2>1
  <2>4. QED
    <3>1. CASE matched[n].verdict = "sha256"
      BY <1>14, <2>2, <2>3, <3>1
    <3>2. CASE matched[n].verdict = "filename"
      BY <1>14, <2>2, <2>3, <3>2
    <3>3. QED
      BY <2>2, <3>1, <3>2
<1>16. ASSUME NEW i \in DOMAIN rows, KnownDriver(rows[i].driver), ~(i > 2 * PerRule), Len(told) # PerRule
       PROVE  \E n \in DOMAIN told : told[n].subject = rows[i].driver
  <2>1. i \in DOMAIN part /\ part[i] = rows[i]
    BY <1>2, <1>3, <1>5, <1>16
  <2>2. rows[i] \in T
    BY <1>3, <1>6, <1>14, <1>16
  <2>3. PICK n \in DOMAIN matched : matched[n] = rows[i]
    BY <1>8, <2>1, <2>2
  <2>4. n \in DOMAIN told
    BY <1>2, <1>8, <1>10, <1>12, <1>16, <2>3
  <2>5. told[n].subject = matched[n].driver
    <3>1. told[n] = alerted[n]
      BY <1>12, <2>4
    <3>2. QED
      BY <1>9, <3>1
  <2>6. QED
    BY <2>3, <2>4, <2>5
<1>17. QED
  BY <1>0, <1>1, <1>12, <1>15, <1>16

(* What the rules over processes say, and what they leave out.             *)
LEMMA OrphanAlertsTrue ==
  ASSUME MemorySound
  PROVE  LET told == DetectMemory
         IN  /\ told \in Seq({[rule |-> "MEM-002"], [rule |-> "MEM-003"]}
                              \cup [rule : {"MEM-001"}, subject : ToSet(memory.processes)])
             /\ \A n \in DOMAIN told : told[n].rule = "MEM-001" =>
                   /\ Orphan(told[n].subject, memory.processes)
                   /\ memory.provenance = "FIXTURE" =>
                         \E m \in DOMAIN told : told[m].rule = "MEM-003"
             /\ \A i \in DOMAIN memory.processes :
                   Orphan(memory.processes[i], memory.processes) =>
                      \/ \E n \in DOMAIN told : /\ told[n].rule = "MEM-001"
                                                /\ told[n].subject = memory.processes[i]
                      \/ i > 4 * PerRule
                      \/ /\ Len(told) >= PerRule
                         /\ \A n \in DOMAIN told : told[n].rule \in {"MEM-001", "MEM-003"}
<1>0. PICK ps, S : ps = memory.processes /\ S = ToSet(ps)
  OBVIOUS
<1>1. PICK told : told = DetectMemory
  OBVIOUS
<1> DEFINE M == [rule : {"MEM-001"}, subject : S]
           A == {[rule |-> "MEM-002"], [rule |-> "MEM-003"]} \cup M
<1>2. /\ PerRule \in Nat \ {0} /\ 4 * PerRule \in Nat
      /\ ps \in Seq(S) /\ DOMAIN ps = 1..Len(ps) /\ \A i \in DOMAIN ps : ps[i] \in S
  BY <1>0, DetectionsAssumption DEF MemorySound, ToSet
<1>3. CASE ps = <<>>
  <2>1. told = <<>> \/ told = <<[rule |-> "MEM-002"]>>
    BY <1>0, <1>1, <1>3 DEF DetectMemory
  <2>2. told \in Seq(A) /\ \A n \in DOMAIN told : told[n].rule = "MEM-002"
    <3>1. PICK alert : alert = [rule |-> "MEM-002"]
      OBVIOUS
    <3>2. alert \in A /\ alert.rule = "MEM-002" /\ (told = <<>> \/ told = <<alert>>)
      BY <2>1, <3>1
    <3> HIDE DEF A
    <3>3. CASE told = <<>>
      BY <3>3
    <3>4. CASE told = <<alert>>
      BY <3>2, <3>4
    <3>5. QED
      BY <3>2, <3>3, <3>4
  <2>3. DOMAIN ps = {}
    BY <1>3
  <2>4. QED
    BY <1>0, <1>1, <2>2, <2>3
<1>4. CASE ps # <<>>
  <2>1. PICK part : part = UpTo(ps, 4 * PerRule)
    OBVIOUS
  <2>2. /\ part \in Seq(S) /\ DOMAIN part = 1..Len(part)
        /\ Len(part) = IF Len(ps) < 4 * PerRule THEN Len(ps) ELSE 4 * PerRule
        /\ \A i \in DOMAIN part : i \in DOMAIN ps /\ part[i] = ps[i]
    BY <1>2, <2>1, UpToShortens
  <2>3. PICK T : T = {p \in S : Orphan(p, ps)}
    OBVIOUS
  <2>4. PICK orphans : orphans = Where(part, T)
    OBVIOUS
  <2>5. /\ orphans \in Seq(S) /\ DOMAIN orphans = 1..Len(orphans)
        /\ \A n \in DOMAIN orphans : orphans[n] \in T
        /\ \A i \in DOMAIN part : part[i] \in T => \E n \in DOMAIN orphans : orphans[n] = part[i]
    <3>1. part \in Seq(S)
      BY <2>2
    <3>2. QED
      BY <2>4, <3>1, WhereSelects
  <2>6. PICK banner : banner = IF memory.provenance = "FIXTURE" THEN <<[rule |-> "MEM-003"]>> ELSE <<>>
    OBVIOUS
  <2>7. PICK most : most = IF banner = <<>> \/ PerRule > 1 THEN PerRule - Len(banner) ELSE 1
    OBVIOUS
  <2>8. /\ banner \in Seq(A) /\ DOMAIN banner = 1..Len(banner) /\ Len(banner) \in {0, 1}
        /\ Len(banner) = 1 <=> memory.provenance = "FIXTURE"
        /\ \A n \in DOMAIN banner : banner[n].rule = "MEM-003"
        /\ most \in Nat /\ Len(banner) + most >= PerRule
    <3>1. CASE memory.provenance = "FIXTURE"
      <4>1. banner = <<[rule |-> "MEM-003"]>> /\ Len(banner) = 1 /\ banner # <<>>
        BY <2>6, <3>1
      <4>2. QED
        BY <1>2, <2>7, <3>1, <4>1
    <3>2. CASE memory.provenance # "FIXTURE"
      <4>1. banner = <<>> /\ Len(banner) = 0
        BY <2>6, <3>2
      <4>2. QED
        BY <1>2, <2>7, <3>2, <4>1
    <3>3. QED
      BY <3>1, <3>2
  <2>9. PICK alerted : alerted = [i \in DOMAIN orphans |-> [rule |-> "MEM-001", subject |-> orphans[i]]]
    OBVIOUS
  <2>10. /\ alerted \in Seq(A) /\ DOMAIN alerted = DOMAIN orphans /\ Len(alerted) = Len(orphans)
    <3>1. \A i \in 1..Len(orphans) : alerted[i] \in A
      BY <2>5, <2>9
    <3>2. QED
      BY <2>5, <2>9, <3>1
  <2>11. PICK rest : rest = UpTo(alerted, most)
    OBVIOUS
  <2>12. /\ rest \in Seq(A) /\ DOMAIN rest = 1..Len(rest)
         /\ Len(rest) = IF Len(alerted) < most THEN Len(alerted) ELSE most
         /\ \A i \in DOMAIN rest : i \in DOMAIN alerted /\ rest[i] = alerted[i]
    <3>1. most \in Nat /\ alerted \in Seq(A)
      BY <2>8, <2>10
    <3> HIDE DEF A
    <3>2. QED
      BY <2>11, <3>1, UpToShortens
  <2>13. \A i \in DOMAIN rest : /\ i \in DOMAIN orphans
                                /\ rest[i].rule = "MEM-001" /\ rest[i].subject = orphans[i]
    <3>1. \A i \in DOMAIN orphans : alerted[i].rule = "MEM-001" /\ alerted[i].subject = orphans[i]
      BY <2>9
    <3>2. \A i \in DOMAIN rest : i \in DOMAIN orphans /\ rest[i] = alerted[i]
      BY <2>10, <2>12
    <3>3. QED
      BY <3>1, <3>2
  <2>14. /\ told = banner \o rest
         /\ memory.provenance \notin {"none", "UNAVAILABLE"}
    BY <1>0, <1>1, <1>4, <2>1, <2>3, <2>4, <2>6, <2>7, <2>9, <2>11 DEF DetectMemory, Orphans, MemorySound
  <2> HIDE DEF A
  <2>15. /\ told \in Seq(A) /\ DOMAIN told = 1..Len(told) /\ Len(told) = Len(banner) + Len(rest)
         /\ \A n \in DOMAIN banner : n \in DOMAIN told /\ told[n] = banner[n]
         /\ \A n \in DOMAIN rest : n + Len(banner) \in DOMAIN told /\ told[n + Len(banner)] = rest[n]
         /\ \A n \in DOMAIN told : n \in DOMAIN banner \/ n - Len(banner) \in DOMAIN rest
    <3>1. banner \in Seq(A) /\ rest \in Seq(A)
      BY <2>8, <2>12
    <3>2. /\ told \in Seq(A) /\ Len(told) = Len(banner) + Len(rest)
          /\ Len(banner) \in Nat /\ Len(rest) \in Nat /\ DOMAIN told = 1..Len(told)
      BY <2>14, <3>1
    <3>3. \A n \in 1..Len(told) :
             told[n] = IF n <= Len(banner) THEN banner[n] ELSE rest[n - Len(banner)]
      BY <2>14, <3>1
    <3>4. QED
      BY <2>8, <2>12, <3>2, <3>3
  <2>16. \A n \in DOMAIN told : told[n].rule \in {"MEM-001", "MEM-003"}
    BY <2>8, <2>13, <2>15
  <2>17. ASSUME NEW n \in DOMAIN told, told[n].rule = "MEM-001"
         PROVE  /\ Orphan(told[n].subject, ps)
                /\ memory.provenance = "FIXTURE" => \E m \in DOMAIN told : told[m].rule = "MEM-003"
    <3>1. n \notin DOMAIN banner
      BY <2>8, <2>15, <2>17
    <3>2. PICK k \in DOMAIN rest : told[n] = rest[k]
      BY <2>8, <2>12, <2>15, <3>1
    <3>3. Orphan(told[n].subject, ps)
      BY <2>3, <2>5, <2>13, <3>2
    <3>4. memory.provenance = "FIXTURE" => 1 \in DOMAIN banner
      BY <2>8
    <3>5. QED
      BY <2>8, <2>15, <3>3, <3>4
  <2>18. ASSUME NEW i \in DOMAIN ps, Orphan(ps[i], ps), ~(i > 4 * PerRule), ~(Len(told) >= PerRule)
         PROVE  \E n \in DOMAIN told : told[n].rule = "MEM-001" /\ told[n].subject = ps[i]
    <3>1. i \in DOMAIN part /\ part[i] = ps[i]
      BY <1>2, <2>2, <2>18
    <3>2. ps[i] \in T
      BY <1>2, <2>3, <2>18
    <3>3. PICK n \in DOMAIN orphans : orphans[n] = ps[i]
      BY <2>5, <3>1, <3>2
    <3>4. n \in DOMAIN rest
      BY <1>2, <2>5, <2>8, <2>10, <2>12, <2>15, <2>18, <3>3
    <3>5. QED
      BY <2>13, <2>15, <3>3, <3>4
  <2>19. QED
    BY <1>0, <1>1, <2>15, <2>16, <2>17, <2>18 DEF A
<1>5. QED
  BY <1>3, <1>4

LEMMA DriverAlertsListed ==
  ASSUME InventorySound
  PROVE  LET told == DetectDrivers
         IN  /\ told \in Seq({[rule |-> "DRV-003"]} \cup
                   [rule : {"DRV-001", "DRV-002"},
                    subject : {r.driver : r \in ToSet(inventory.drivers)}])
             /\ inventory.status = "unavailable" =>
                   1 \in DOMAIN told /\ told[1].rule = "DRV-003"
             /\ inventory.status = "none" => told = <<>>
             /\ inventory.status # "available" =>
                   \A n \in DOMAIN told : told[n].rule = "DRV-003"
<1>1. PICK told : told = DetectDrivers
  OBVIOUS
<1>2. PICK A : A = [rule : {"DRV-001", "DRV-002"},
                    subject : {r.driver : r \in ToSet(inventory.drivers)}]
  OBVIOUS
<1>3. PICK alert : alert = [rule |-> "DRV-003"]
  OBVIOUS
<1>4. CASE inventory.status = "none"
  <2>1. told = <<>>
    BY <1>1, <1>4 DEF DetectDrivers
  <2>2. QED
    BY <1>1, <1>4, <2>1
<1>5. CASE inventory.status = "unavailable"
  <2>1. told = <<alert>> /\ alert.rule = "DRV-003"
    BY <1>1, <1>3, <1>5 DEF DetectDrivers
  <2>2. told \in Seq({alert} \cup A) /\ DOMAIN told = {1} /\ told[1] = alert
    BY <2>1
  <2>3. QED
    BY <1>1, <1>2, <1>3, <1>5, <2>1, <2>2
<1>6. CASE inventory.status = "available"
  <2>1. told \in Seq(A)
    BY <1>1, <1>2, <1>6, DriverAlertsTrue
  <2>2. told \in Seq({alert} \cup A)
    BY <2>1
  <2>3. QED
    BY <1>1, <1>2, <1>3, <1>6, <2>2
<1>7. QED
  BY <1>4, <1>5, <1>6 DEF InventorySound

(* What is detected is true of the drivers and the processes it names.     *)
LEMMA DetectionsHold ==
  ASSUME DetInv
  PROVE  DetectionsSound
<1>0. PerRule \in Nat \ {0} /\ InventorySound /\ MemorySound /\ judged \in BOOLEAN
  BY DetectionsAssumption DEF DetInv
<1>1. CASE ~judged
  <2>1. alerts = <<>> /\ DOMAIN <<>> = {}
    BY <1>1, NoRows DEF DetInv
  <2>2. QED
    BY <1>1, <2>1 DEF DetectionsSound, MatchesAreIdentified, DriversNotPassedOver,
       OrphansAreReal, Subjects
<1>2. CASE judged
  <2>1. PICK d, m : d = DetectDrivers /\ m = DetectMemory /\ alerts = d \o m
    BY <1>2 DEF DetInv
  <2>2. PICK DA, MA :
           /\ DA = {[rule |-> "DRV-003"]} \cup
                   [rule : {"DRV-001", "DRV-002"},
                    subject : {r.driver : r \in ToSet(inventory.drivers)}]
           /\ MA = {[rule |-> "MEM-002"], [rule |-> "MEM-003"]}
                     \cup [rule : {"MEM-001"}, subject : ToSet(memory.processes)]
    OBVIOUS
  <2>3. d \in Seq(DA) /\ m \in Seq(MA)
    BY <1>0, <2>1, <2>2, DriverAlertsListed, OrphanAlertsTrue
  <2>4. /\ \A x \in DA : x.rule \in {"DRV-001", "DRV-002", "DRV-003"}
        /\ \A x \in MA : x.rule \in {"MEM-001", "MEM-002", "MEM-003"}
    BY <2>2
  <2>5. /\ Len(d) \in Nat /\ Len(m) \in Nat /\ DOMAIN d = 1..Len(d) /\ DOMAIN m = 1..Len(m)
        /\ DOMAIN alerts = 1..(Len(d) + Len(m))
        /\ \A n \in DOMAIN d : alerts[n] = d[n]
        /\ \A n \in DOMAIN m : alerts[n + Len(d)] = m[n]
    <3>1. d \in Seq(DA \cup MA) /\ m \in Seq(DA \cup MA)
      BY <2>3
    <3>2. QED
      BY <2>1, <3>1
  <2>6. /\ \A n \in DOMAIN d : d[n].rule \in {"DRV-001", "DRV-002", "DRV-003"}
        /\ \A n \in DOMAIN m : m[n].rule \in {"MEM-001", "MEM-002", "MEM-003"}
    BY <2>3, <2>4
  <2>7. \A n \in DOMAIN alerts :
           \/ n \in DOMAIN d /\ alerts[n] = d[n]
           \/ n - Len(d) \in DOMAIN m /\ alerts[n] = m[n - Len(d)]
    BY <2>5
  <2>8. ASSUME NEW r \in {"DRV-001", "DRV-002", "DRV-003"}, NEW n \in DOMAIN alerts, alerts[n].rule = r
        PROVE  n \in DOMAIN d /\ alerts[n] = d[n]
    BY <2>6, <2>7, <2>8
  <2>9. ASSUME NEW r \in {"MEM-001", "MEM-002", "MEM-003"}, NEW n \in DOMAIN alerts, alerts[n].rule = r
        PROVE  n - Len(d) \in DOMAIN m /\ alerts[n] = m[n - Len(d)]
    BY <2>6, <2>7, <2>9
  <2>10. /\ \A n \in DOMAIN d : n \in DOMAIN alerts
         /\ \A n \in DOMAIN m : n + Len(d) \in DOMAIN alerts
    BY <2>5
  <2>11. MatchesAreIdentified
    <3>1. ASSUME NEW x \in Subjects("DRV-001")
          PROVE  x.digest \in Documented
      <4>1. PICK n \in DOMAIN alerts : alerts[n].rule = "DRV-001" /\ x = alerts[n].subject
        BY DEF Subjects
      <4>2. n \in DOMAIN d /\ d[n].rule = "DRV-001" /\ x = d[n].subject
        BY <2>8, <4>1
      <4>3. inventory.status = "available"
        BY <1>0, <2>1, <4>2, DriverAlertsListed
      <4>4. QED
        BY <1>0, <2>1, <4>2, <4>3, DriverAlertsTrue
    <3>2. ASSUME NEW x \in Subjects("DRV-002")
          PROVE  x.digest \notin Documented /\ x.windows /\ x.name \in Documented
      <4>1. PICK n \in DOMAIN alerts : alerts[n].rule = "DRV-002" /\ x = alerts[n].subject
        BY DEF Subjects
      <4>2. n \in DOMAIN d /\ d[n].rule = "DRV-002" /\ x = d[n].subject
        BY <2>8, <4>1
      <4>3. inventory.status = "available"
        BY <1>0, <2>1, <4>2, DriverAlertsListed
      <4>4. QED
        BY <1>0, <2>1, <4>2, <4>3, DriverAlertsTrue
    <3>3. QED
      BY <3>1, <3>2 DEF MatchesAreIdentified
  <2>12. DriversNotPassedOver
    <3>1. CASE inventory.status = "none"
      BY <3>1 DEF DriversNotPassedOver
    <3>2. CASE inventory.status = "unavailable"
      <4>1. 1 \in DOMAIN d /\ d[1].rule = "DRV-003"
        BY <1>0, <2>1, <3>2, DriverAlertsListed
      <4>2. Alerted("DRV-003")
        BY <2>5, <2>10, <4>1 DEF Alerted
      <4>3. cache # "available"
        BY <1>0, <3>2 DEF InventorySound
      <4>4. QED
        BY <4>2, <4>3 DEF DriversNotPassedOver
    <3>3. CASE inventory.status = "available"
      <4>1. /\ d \in Seq([rule : {"DRV-001", "DRV-002"},
                          subject : {r.driver : r \in ToSet(inventory.drivers)}])
            /\ \A i \in DOMAIN inventory.drivers :
                   KnownDriver(inventory.drivers[i].driver) =>
                      \/ \E n \in DOMAIN d : d[n].subject = inventory.drivers[i].driver
                      \/ i > 2 * PerRule
                      \/ Len(d) = PerRule
        BY <1>0, <2>1, <3>3, DriverAlertsTrue
      <4>2. \A n \in DOMAIN d : d[n].rule \in {"DRV-001", "DRV-002"}
        <5>1. PICK B : B = [rule : {"DRV-001", "DRV-002"},
                            subject : {r.driver : r \in ToSet(inventory.drivers)}]
          OBVIOUS
        <5>2. d \in Seq(B) /\ \A b \in B : b.rule \in {"DRV-001", "DRV-002"}
          BY <4>1, <5>1
        <5>3. QED
          BY <5>2
      <4>3. \A n \in DOMAIN d : d[n].subject \in Subjects("DRV-001") \cup Subjects("DRV-002")
        BY <2>5, <2>10, <4>2 DEF Subjects
      <4>4. {j \in DOMAIN alerts : alerts[j].rule \in {"DRV-001", "DRV-002"}} = 1..Len(d)
        BY <2>5, <2>8, <2>10, <4>2
      <4>5. Cardinality({j \in DOMAIN alerts : alerts[j].rule \in {"DRV-001", "DRV-002"}}) = Len(d)
        <5>1. 1 \in Int /\ Len(d) \in Int
          BY <2>5
        <5>2. Cardinality(1..Len(d)) = IF 1 > Len(d) THEN 0 ELSE Len(d) - 1 + 1
          BY <5>1, FS_Interval
        <5>3. Cardinality(1..Len(d)) = Len(d)
          BY <2>5, <5>2
        <5>4. QED
          BY <4>4, <5>3
      <4>6. QED
        BY <4>1, <4>3, <4>5 DEF DriversNotPassedOver, KnownDriver
    <3>4. QED
      BY <1>0, <3>1, <3>2, <3>3 DEF InventorySound
  <2>13. OrphansAreReal
    <3>1. /\ \A n \in DOMAIN m : m[n].rule = "MEM-001" =>
                   /\ Orphan(m[n].subject, memory.processes)
                   /\ memory.provenance = "FIXTURE" => \E k \in DOMAIN m : m[k].rule = "MEM-003"
          /\ \A i \in DOMAIN memory.processes :
                   Orphan(memory.processes[i], memory.processes) =>
                      \/ \E n \in DOMAIN m : /\ m[n].rule = "MEM-001"
                                             /\ m[n].subject = memory.processes[i]
                      \/ i > 4 * PerRule
                      \/ /\ Len(m) >= PerRule
                         /\ \A n \in DOMAIN m : m[n].rule \in {"MEM-001", "MEM-003"}
      BY <1>0, <2>1, OrphanAlertsTrue
    <3>2. ASSUME NEW p \in Subjects("MEM-001")
          PROVE  /\ Orphan(p, memory.processes)
                 /\ memory.provenance = "FIXTURE" => Alerted("MEM-003")
      <4>1. PICK n \in DOMAIN alerts : alerts[n].rule = "MEM-001" /\ p = alerts[n].subject
        BY DEF Subjects
      <4>2. PICK k \in DOMAIN m : m[k].rule = "MEM-001" /\ p = m[k].subject
        BY <2>9, <4>1
      <4>3. (\E j \in DOMAIN m : m[j].rule = "MEM-003") => Alerted("MEM-003")
        BY <2>5, <2>10 DEF Alerted
      <4>4. QED
        BY <3>1, <4>2, <4>3
    <3>3. ASSUME NEW i \in DOMAIN memory.processes,
                 Orphan(memory.processes[i], memory.processes),
                 memory.processes[i] \notin Subjects("MEM-001"), ~(i > 4 * PerRule)
          PROVE  Cardinality({j \in DOMAIN alerts : alerts[j].rule \in {"MEM-001", "MEM-003"}}) >= PerRule
      <4>1. \A n \in DOMAIN m : m[n].rule = "MEM-001" => m[n].subject \in Subjects("MEM-001")
        BY <2>5, <2>10 DEF Subjects
      <4>2. /\ Len(m) >= PerRule
            /\ \A n \in DOMAIN m : m[n].rule \in {"MEM-001", "MEM-003"}
        BY <3>1, <3>3, <4>1
      <4>3. PICK J : J = {j \in DOMAIN alerts : alerts[j].rule \in {"MEM-001", "MEM-003"}}
        OBVIOUS
      <4>4. (Len(d) + 1)..(Len(d) + Len(m)) \subseteq J
        <5>1. ASSUME NEW j \in (Len(d) + 1)..(Len(d) + Len(m))
              PROVE  j \in J
          <6>1. j - Len(d) \in DOMAIN m /\ (j - Len(d)) + Len(d) = j
            BY <2>5
          <6>2. j \in DOMAIN alerts /\ alerts[j] = m[j - Len(d)]
            BY <2>5, <2>10, <6>1
          <6>3. QED
            BY <4>2, <4>3, <6>1, <6>2
        <5>2. QED
          BY <5>1
      <4>5. IsFiniteSet(J)
        <5>1. IsFiniteSet(1..(Len(d) + Len(m))) /\ J \subseteq 1..(Len(d) + Len(m))
          BY <2>5, <4>3, FS_Interval
        <5>2. QED
          BY <5>1, FS_Subset
      <4>6. Cardinality((Len(d) + 1)..(Len(d) + Len(m))) = Len(m)
        <5>1. Len(d) + 1 \in Int /\ Len(d) + Len(m) \in Int /\ ~(Len(d) + 1 > Len(d) + Len(m))
          BY <1>0, <2>5, <4>2
        <5>2. Cardinality((Len(d) + 1)..(Len(d) + Len(m))) = Len(d) + Len(m) - (Len(d) + 1) + 1
          BY <5>1, FS_Interval
        <5>3. QED
          BY <2>5, <5>2
      <4>7. Cardinality(J) >= Len(m)
        BY <2>5, <4>4, <4>5, <4>6, FS_Subset, FS_CardinalityType
      <4>8. QED
        BY <1>0, <2>5, <4>2, <4>3, <4>5, <4>7, FS_CardinalityType
    <3>4. QED
      BY <3>2, <3>3 DEF OrphansAreReal, Orphan
  <2>14. QED
    BY <2>11, <2>12, <2>13 DEF DetectionsSound
<1>3. QED
  BY <1>0, <1>1, <1>2

(* An alert is true of what it names, and its bounds pass over no match in *)
(* what they examine (verify_driver, detect).                              *)
THEOREM DetectionsAreSound == DSpec => []DetectionsSound
<1>1. DSpec => []DetInv
  BY InitDetInv, NextDetInv, PTL DEF DSpec
<1>2. QED
  BY <1>1, DetectionsHold, PTL
=============================================================================
