----------------------------- MODULE Detections -----------------------------
(***************************************************************************)
(* The driver inventory with its cached reference (analysis/drivers.py)    *)
(* and the rules over drivers and memory images (analysis/detections.py).  *)
(***************************************************************************)
EXTENDS Lists, SequencesExt

CONSTANTS
    Drivers,      \* lists of drivers a host may have loaded: name, digest, windows
    Processes,    \* lists of processes an image may show: pid, parent, expected
    Documented,   \* the digests and names the reference documents
    NoDigest,
    PerRule       \* MAX_FINDINGS_PER_RULE

ASSUME DetectionsAssumption ==
    /\ \A drivers \in Drivers :
          /\ drivers \in Seq(ToSet(drivers))
          /\ \A d \in ToSet(drivers) : d.windows \in BOOLEAN
    /\ \A processes \in Processes :
          /\ processes \in Seq(ToSet(processes))
          /\ \A p \in ToSet(processes) : p.expected \in BOOLEAN
    /\ PerRule \in Nat \ {0}

VARIABLES
    installed,  \* whether the reference can be read from the disk
    cache,      \* _reference_cache: "empty", "available" or "unavailable"
    inventory,  \* the drivers of the last collection with their verdicts
    memory,     \* the last memory analysis
    alerts,     \* the findings of detect
    judged      \* whether detect has seen the last collection

dvars == <<installed, cache, inventory, memory, alerts, judged>>

NoInventory == [status |-> "none", drivers |-> <<>>]
NoAnalysis == [provenance |-> "none", processes |-> <<>>]

DInit ==
    /\ installed \in BOOLEAN /\ cache = "empty"
    /\ inventory = NoInventory /\ memory = NoAnalysis /\ alerts = <<>> /\ judged = FALSE

(* The reference data is removed, or reinstalled.                          *)
ReferenceChanges ==
    installed' = ~installed /\ UNCHANGED <<cache, inventory, memory, alerts, judged>>
ProcessRestarts ==
    cache # "empty" /\ cache' = "empty" /\ UNCHANGED <<installed, inventory, memory, alerts, judged>>

(* load_reference: the first answer is kept while the process lives, and   *)
(* so is the failure to read it.                                           *)
Loaded == IF cache # "empty" THEN cache ELSE IF installed THEN "available" ELSE "unavailable"

(* verify_driver: by digest, or by name for what looks like a Windows file.*)
VerifyByName(d, reference) ==
    IF reference = "unavailable" THEN "UNKNOWN"
    ELSE IF d.windows /\ d.name \in Documented THEN "filename"
    ELSE IF d.digest \in Documented THEN "sha256"
    ELSE IF d.digest = NoDigest THEN "UNKNOWN" ELSE "NOT_MATCHED"
Verify(d, reference) ==
    IF reference = "unavailable" THEN "UNKNOWN"
    ELSE IF d.digest \in Documented THEN "sha256"
    ELSE IF d.windows /\ d.name \in Documented THEN "filename"
    ELSE IF d.digest = NoDigest THEN "UNKNOWN" ELSE "NOT_MATCHED"

(* collect_driver_inventory; a cancelled or failed step leaves no result.  *)
CollectsDrivers ==
    /\ \E drivers \in Drivers :
         /\ cache' = Loaded
         /\ inventory' = [status |-> cache',
                drivers |-> [i \in DOMAIN drivers |->
                    [driver |-> drivers[i], verdict |-> Verify(drivers[i], cache')]]]
    /\ alerts' = <<>> /\ judged' = FALSE /\ UNCHANGED <<installed, memory>>
CollectionFails ==
    /\ inventory' = NoInventory
    /\ alerts' = <<>> /\ judged' = FALSE /\ UNCHANGED <<installed, cache, memory>>

(* analyze_memory_image, or a fixture in its place.                        *)
AnalysesImage ==
    /\ \/ \E processes \in Processes, provenance \in {"REAL", "FIXTURE"} :
            memory' = [provenance |-> provenance, processes |-> processes]
       \/ memory' = [provenance |-> "UNAVAILABLE", processes |-> <<>>]
       \/ memory' = NoAnalysis
    /\ alerts' = <<>> /\ judged' = FALSE /\ UNCHANGED <<installed, cache, inventory>>

-----------------------------------------------------------------------------
(* detect.                                                                 *)

Matched(records, n) ==
    Where(UpTo(records, n), {r \in ToSet(records) : r.verdict \in {"sha256", "filename"}})

DriverAlertsFirst(records) ==
    LET matched == Matched(records, PerRule)
    IN  [i \in DOMAIN matched |-> [rule |-> "DRV-001", subject |-> matched[i].driver]]
DriverAlerts(records) ==
    LET matched == Matched(records, 2 * PerRule)
    IN  UpTo([i \in DOMAIN matched |->
            [rule |-> IF matched[i].verdict = "sha256" THEN "DRV-001" ELSE "DRV-002",
             subject |-> matched[i].driver]], PerRule)
DetectDrivers ==
    CASE inventory.status = "none" -> <<>>
      [] inventory.status = "unavailable" -> <<[rule |-> "DRV-003"]>>
      [] OTHER -> DriverAlerts(inventory.drivers)

Orphan(p, processes) ==
    ~p.expected /\ p.parent # 0 /\ \A i \in DOMAIN processes : processes[i].pid # p.parent
OrphansOfExamined(processes) ==
    LET part == UpTo(processes, 4 * PerRule)
    IN  Where(part, {p \in ToSet(part) : Orphan(p, part)})
Orphans(processes) ==
    Where(UpTo(processes, 4 * PerRule), {p \in ToSet(processes) : Orphan(p, processes)})

(* The banner of a fixture counts against the findings of the rule.        *)
DetectMemory ==
    IF memory.provenance = "none" THEN <<>>
    ELSE IF memory.provenance = "UNAVAILABLE" \/ memory.processes = <<>>
    THEN <<[rule |-> "MEM-002"]>>
    ELSE LET banner == IF memory.provenance = "FIXTURE" THEN <<[rule |-> "MEM-003"]>> ELSE <<>>
             orphans == Orphans(memory.processes)
             most == IF banner = <<>> \/ PerRule > 1 THEN PerRule - Len(banner) ELSE 1
         IN  banner \o UpTo([i \in DOMAIN orphans |->
                 [rule |-> "MEM-001", subject |-> orphans[i]]], most)

Detects ==
    /\ ~judged /\ judged' = TRUE
    /\ alerts' = DetectDrivers \o DetectMemory
    /\ UNCHANGED <<installed, cache, inventory, memory>>

DNext == ReferenceChanges \/ ProcessRestarts \/ CollectsDrivers \/ CollectionFails
         \/ AnalysesImage \/ Detects
DSpec == DInit /\ [][DNext]_dvars

-----------------------------------------------------------------------------
Alerted(rule) == \E i \in DOMAIN alerts : alerts[i].rule = rule
Subjects(rule) == {alerts[i].subject : i \in {j \in DOMAIN alerts : alerts[j].rule = rule}}

(* No driver is called abused unless its bytes or its Windows name are     *)
(* documented, the strong rule is for the bytes alone, and a kernel module *)
(* that merely shares a name with a documented driver is never reported.   *)
MatchesAreIdentified ==
    /\ \A d \in Subjects("DRV-001") : d.digest \in Documented
    /\ \A d \in Subjects("DRV-002") : d.digest \notin Documented /\ d.windows /\ d.name \in Documented

(* Once the findings are made, every documented driver is named by one,    *)
(* unless it comes after the part that is examined or the rule is full;    *)
(* and a reference that could not be read is said to be so.                *)
DriversNotPassedOver ==
    judged /\ inventory.status # "none" =>
        \/ Alerted("DRV-003") /\ cache # "available"
        \/ \A i \in DOMAIN inventory.drivers :
             LET d == inventory.drivers[i].driver
             IN  d.digest \in Documented \/ (d.windows /\ d.name \in Documented) =>
                   \/ d \in Subjects("DRV-001") \cup Subjects("DRV-002")
                   \/ i > 2 * PerRule
                   \/ Cardinality({j \in DOMAIN alerts :
                          alerts[j].rule \in {"DRV-001", "DRV-002"}}) = PerRule

(* A process is an orphan when its parent is nowhere in the image, before   *)
(* or after it: exactly those are reported, up to the bounds, and those of *)
(* a fixture only below a banner that says so.                             *)
OrphansAreReal ==
    judged =>
        /\ \A p \in Subjects("MEM-001") :
             \A i \in DOMAIN memory.processes : memory.processes[i].pid # p.parent
        /\ memory.provenance = "FIXTURE" /\ Subjects("MEM-001") # {} => Alerted("MEM-003")
        /\ \A i \in DOMAIN memory.processes :
             Orphan(memory.processes[i], memory.processes) =>
                \/ memory.processes[i] \in Subjects("MEM-001")
                \/ i > 4 * PerRule
                \/ Cardinality({j \in DOMAIN alerts :
                       alerts[j].rule \in {"MEM-001", "MEM-003"}}) >= PerRule

(* An alert is true of what it names, and its bounds pass over no match in *)
(* what they examine (verify_driver, detect).                              *)
DetectionsSound == MatchesAreIdentified /\ DriversNotPassedOver /\ OrphansAreReal
=============================================================================
