----------------------------- MODULE CatalogProofs -----------------------------
(***************************************************************************)
(* Proofs about Catalog for any names, admins, importers, rows and modes, and *)
(* about RunInputs, which says what a project means for the runs that are    *)
(* asked for with it, for every request and every world.                    *)
(*                                                                         *)
(* What an import does to the tables of runs is proved for any callers of   *)
(* the project routes.  CopyInv says what the maps of an import under way   *)
(* mean: rows are only ever added, so a copy that was made stays one.      *)
(* That the default is the chosen project is proved for one caller beside  *)
(* the importers: ids are used again, so a second one can make a project    *)
(* the default that it never looked up.                                    *)
(***************************************************************************)
EXTENDS Catalog, RunInputs, WellFoundedInduction, SequenceTheorems, TLAPS

Label == Name \cup {"p", "none"}

(* The tables of the source, and what was read of them. *)
SourceTypes ==
    /\ runs \in Nat /\ steps \in Seq(Nat) /\ approvals \subseteq DOMAIN steps
    /\ \A s \in DOMAIN steps : steps[s] \in 1..runs

ExportTypes ==
    /\ export \in [pc : {"idle", "steps", "approvals", "done"}, runs : SUBSET (1..runs),
                   steps : SUBSET (DOMAIN steps), approvals : SUBSET (DOMAIN steps)]
    /\ \A s \in export.steps \cup export.approvals : steps[s] \in export.runs

Copy == [from : Nat, mode : Modes, alone : BOOLEAN]

CopyTypes ==
    /\ copies \in Seq(Copy)
    /\ stepCopies \in Seq([run : Nat, from : Nat])
    /\ \A s \in DOMAIN stepCopies :
          stepCopies[s].run \in DOMAIN copies /\ stepCopies[s].from \in DOMAIN steps
    /\ approvalCopies \in Seq([run : Nat, step : Nat, from : Nat])
    /\ \A a \in DOMAIN approvalCopies : approvalCopies[a].step \in DOMAIN stepCopies

Beginning == {"project", "insert"}

(* The file cannot change under an import, so its maps are over its rows.   *)
Importing == [pc : Beginning \cup {"runs"}, mode : Modes, known : SUBSET Nat,
              runs : SUBSET export.runs, steps : SUBSET export.steps,
              approvals : SUBSET export.approvals,
              runMap : [export.runs -> 0..Len(copies)],
              stepMap : [export.steps -> 0..Len(stepCopies)]]

Refused == [pc : {"refused"}, torn : BOOLEAN]

(* A row that is in a map is the copy it says; steps are mapped when every    *)
(* run is, and only the steps of a skipped run stay out.                    *)
MapsOK(m) ==
    /\ \A r \in export.runs : m.runMap[r] # 0 => copies[m.runMap[r]].from = r
    /\ \A s \in export.steps : m.stepMap[s] # 0 =>
          /\ stepCopies[m.stepMap[s]].from = s
          /\ stepCopies[m.stepMap[s]].run = m.runMap[steps[s]]
    /\ m.pc # "runs" \/ m.runs # {} =>
          m.steps = export.steps /\ \A s \in export.steps : m.stepMap[s] = 0
    /\ \A s \in export.steps \ m.steps :
          m.stepMap[s] = 0 => m.runMap[steps[s]] = 0

ImportOK(m) ==
    /\ m \in {Idle} \cup Refused \cup Importing
    /\ m.pc # "idle" => export.pc = "done"
    /\ m \in Importing => MapsOK(m)
    /\ m.pc = "refused" /\ m.torn => Torn

(* Every copied run was known at the beginning or is this import's.          *)
KnownOK(m) ==
    alone /\ m \in Importing /\ m.mode = "skip_existing" =>
        \A r \in DOMAIN copies : copies[r].from \in m.known \cup (export.runs \ m.runs)

CopyInv ==
    /\ SourceTypes /\ ExportTypes /\ CopyTypes
    /\ import = [i \in Importer |-> import[i]] /\ alone \in BOOLEAN
    /\ \A i \in Importer : ImportOK(import[i]) /\ KnownOK(import[i])
    /\ \A i, j \in Importer : alone /\ import[i] # Idle /\ import[j] # Idle => i = j
    /\ CopiesHangTogether /\ SkipMakesNoDuplicate

(* Rows are only added, and the file stays. *)
Grown ==
    /\ export' = export
    /\ Len(copies) <= Len(copies') /\ \A r \in DOMAIN copies : copies'[r] = copies[r]
    /\ Len(stepCopies) <= Len(stepCopies')
    /\ \A s \in DOMAIN stepCopies : stepCopies'[s] = stepCopies[s]
    /\ \A s \in DOMAIN steps : s \in DOMAIN steps' /\ steps'[s] = steps[s]

(* The projects: names are unique, whoever inserts. *)
AdminCall == {Idle} \cup [pc : {"create"}, name : Name] \cup [pc : {"default"}, id : Id, name : Label]
             \cup [pc : {"delete", "compare", "clear"}, id : Id]

ProjectInv ==
    /\ projects \in [Id -> Label] /\ default \in 0..MaxId /\ chosen \in Label /\ lost \in BOOLEAN
    /\ call \in [Admin -> AdminCall]
    /\ \A i, j \in Rows : projects[i] = projects[j] => i = j

OneAdmin == \A a, b \in Admin : a = b

(* What a caller has looked up is still there; the setting is the chosen     *)
(* project's but for one that is being deleted.                             *)
Clearing(i) == \E a \in Admin : call[a].pc \in {"compare", "clear"} /\ call[a].id = i

DefaultInv ==
    /\ ProjectInv
    /\ \A a \in Admin :
          /\ call[a].pc = "default" => call[a].id \in Rows /\ projects[call[a].id] = call[a].name
          /\ call[a].pc = "clear" => call[a].id = default
    /\ ~lost /\ default # 0 /\ ~Clearing(default) => default \in Rows /\ projects[default] = chosen
--------------------------------------------------------------------------------
(* A set of naturals that is not empty has a least element. *)
LEMMA LeastIs ==
    ASSUME NEW S \in SUBSET Nat, S # {}
    PROVE  Least(S) \in S
<1>1. PICK m \in S : \A n \in S : <<n, m>> \notin OpToRel(<, Nat)
  BY NatLessThanWellFounded, WFMin
<1>2. \A n \in S : ~(n < m)
  BY <1>1 DEF OpToRel
<1>3. \A n \in S : m <= n
  BY <1>2
<1>. QED  BY <1>1, <1>3 DEF Least

(* An import that is neither over nor refused is at work on its maps. *)
LEMMA AtWork ==
    ASSUME CopyInv, NEW i \in Importer, import[i].pc \in Beginning \cup {"runs"}
    PROVE  /\ import[i] \in Importing /\ export.pc = "done" /\ import[i] # Idle
           /\ MapsOK(import[i]) /\ KnownOK(import[i])
<1>1. ImportOK(import[i]) /\ KnownOK(import[i])
  BY DEF CopyInv
<1>. QED  BY <1>1 DEF ImportOK, Refused, Idle, Beginning

LEMMA LengthsAre ==
    ASSUME CopyTypes
    PROVE  /\ Len(copies) \in Nat /\ DOMAIN copies = 1..Len(copies)
           /\ Len(stepCopies) \in Nat /\ DOMAIN stepCopies = 1..Len(stepCopies)
BY DEF CopyTypes

(* Appending a row leaves the others where they are. *)
LEMMA AppendIs ==
    ASSUME NEW S, NEW q \in Seq(S), NEW x \in S
    PROVE  /\ Append(q, x) \in Seq(S) /\ Len(Append(q, x)) = Len(q) + 1
           /\ DOMAIN q = 1..Len(q) /\ DOMAIN Append(q, x) = 1..(Len(q) + 1)
           /\ Append(q, x)[Len(q) + 1] = x
           /\ \A i \in DOMAIN q : i \in DOMAIN Append(q, x) /\ Append(q, x)[i] = q[i]
OBVIOUS

--------------------------------------------------------------------------------
(* What an import relies on stays while rows are added beside it.            *)
LEMMA GrownKeepsImport ==
    ASSUME CopyTypes, CopyTypes', ExportTypes, Grown, NEW m, ImportOK(m)
    PROVE  ImportOK(m)'
<1>1. /\ Len(copies) \in Nat /\ DOMAIN copies = 1..Len(copies) /\ Len(copies') \in Nat
      /\ Len(stepCopies) \in Nat /\ DOMAIN stepCopies = 1..Len(stepCopies) /\ Len(stepCopies') \in Nat
  BY LengthsAre DEF CopyTypes
<1>2. /\ export' = export /\ Len(copies) <= Len(copies') /\ Len(stepCopies) <= Len(stepCopies')
      /\ Torn' <=> Torn
  BY DEF Grown, Torn
<1>3. CASE m \in Importing
  <2>1. 0..Len(copies) \subseteq 0..Len(copies') /\ 0..Len(stepCopies) \subseteq 0..Len(stepCopies')
    BY <1>1, <1>2
  <2>2. m.runMap \in [export.runs -> 0..Len(copies)] /\ m.stepMap \in [export.steps -> 0..Len(stepCopies)]
    BY <1>3 DEF Importing
  <2>3. m.runMap \in [export.runs -> 0..Len(copies')] /\ m.stepMap \in [export.steps -> 0..Len(stepCopies')]
    BY <2>1, <2>2
  <2>4. m \in Importing'
    BY <1>2, <1>3, <2>3 DEF Importing
  <2>5. MapsOK(m)
    BY <1>3 DEF ImportOK
  <2>6. \A r \in export.runs : m.runMap[r] # 0 => copies'[m.runMap[r]].from = r
    BY <1>1, <2>2, <2>5 DEF MapsOK, Grown
  <2>7. \A s \in export.steps : steps'[s] = steps[s]
    BY DEF Grown, ExportTypes
  <2>8. \A s \in export.steps : m.stepMap[s] # 0 =>
            /\ stepCopies'[m.stepMap[s]].from = s
            /\ stepCopies'[m.stepMap[s]].run = m.runMap[steps'[s]]
    BY <1>1, <2>2, <2>5, <2>7 DEF MapsOK, Grown
  <2>9. MapsOK(m)'
    BY <1>2, <2>5, <2>6, <2>7, <2>8 DEF MapsOK
  <2>. QED  BY <1>2, <2>4, <2>9 DEF ImportOK
<1>4. CASE m \notin Importing
  <2>1. m \in {Idle} \cup Refused
    BY <1>4 DEF ImportOK
  <2>2. m.pc \in {"idle", "refused"}
    BY <2>1 DEF Idle, Refused
  <2>3. m \notin Importing'
    BY <2>2 DEF Importing, Beginning
  <2>. QED  BY <1>2, <2>1, <2>3 DEF ImportOK
<1>. QED  BY <1>3, <1>4

(* Who touches none of the copied tables leaves CopyInv alone. *)
LEMMA OthersKeepCopies ==
    ASSUME CopyInv, UNCHANGED <<source, export, runTables, import, alone>>
    PROVE  CopyInv'
<1>1. /\ runs' = runs /\ steps' = steps /\ approvals' = approvals /\ export' = export
      /\ copies' = copies /\ stepCopies' = stepCopies /\ approvalCopies' = approvalCopies
      /\ import' = import /\ alone' = alone
  BY DEF source, runTables
<1>2. SourceTypes' /\ ExportTypes' /\ CopyTypes'
  BY <1>1 DEF CopyInv, SourceTypes, ExportTypes, CopyTypes
<1>3. Importing' = Importing /\ Torn' = Torn
  BY <1>1 DEF Importing, Torn
<1>4. ASSUME NEW i \in Importer PROVE ImportOK(import[i])' /\ KnownOK(import[i])'
  BY <1>1, <1>3 DEF CopyInv, ImportOK, MapsOK, KnownOK
<1>5. CopiesHangTogether' /\ SkipMakesNoDuplicate'
  BY <1>1 DEF CopyInv, CopiesHangTogether, SkipMakesNoDuplicate
<1>. QED  BY <1>1, <1>2, <1>4, <1>5 DEF CopyInv

(* One import goes on, refused for another reason or ended, and may add rows. *)
LEMMA OneImportMoves ==
    ASSUME CopyInv, Grown, SourceTypes', ExportTypes', CopyTypes',
           NEW i \in Importer, import[i] # Idle, NEW m, Proceed(i, m),
           ImportOK(m)', KnownOK(m)', alone' = alone,
           CopiesHangTogether', SkipMakesNoDuplicate'
    PROVE  CopyInv'
<1>1. /\ import' = [j \in Importer |-> import'[j]] /\ import'[i] = m
      /\ \A j \in Importer \ {i} : import'[j] = import[j]
  BY DEF CopyInv, Proceed
<1>2. ASSUME NEW j \in Importer PROVE ImportOK(import[j])' /\ KnownOK(import[j])'
  <2>1. CASE j = i
    BY <1>1, <2>1 DEF ImportOK, MapsOK, KnownOK, Importing, Torn
  <2>2. CASE j # i
    <3>1. PICK n : n = import[j] /\ n = import'[j]
      BY <1>1, <2>2
    <3>2. ImportOK(n)'
      BY <3>1, GrownKeepsImport DEF CopyInv
    <3>3. alone => n = Idle
      BY <2>2, <3>1 DEF CopyInv
    <3>4. KnownOK(n)'
      BY <3>3 DEF KnownOK, Importing, Idle, Beginning
    <3>. QED  BY <3>1, <3>2, <3>4 DEF ImportOK, MapsOK, KnownOK, Importing, Torn
  <2>. QED  BY <2>1, <2>2
<1>3. \A j, k \in Importer : alone' /\ import'[j] # Idle /\ import'[k] # Idle => j = k
  BY <1>1 DEF CopyInv
<1>. QED  BY <1>1, <1>2, <1>3 DEF CopyInv

(* The source only grows: what was read is still there. *)
LEMMA WorkKeepsCopies == ASSUME CopyInv, Work PROVE CopyInv'
<1>1. /\ export' = export /\ copies' = copies /\ stepCopies' = stepCopies
      /\ approvalCopies' = approvalCopies /\ import' = import /\ alone' = alone
  BY DEF Work, runTables
<1>2. SourceTypes' /\ runs <= runs' /\ DOMAIN steps \subseteq DOMAIN steps'
      /\ \A s \in DOMAIN steps : steps'[s] = steps[s]
  <2>1. CASE runs' = runs + 1 /\ UNCHANGED <<steps, approvals>>
    BY <2>1 DEF CopyInv, SourceTypes
  <2>2. ASSUME NEW r \in 1..runs, steps' = Append(steps, r), UNCHANGED <<runs, approvals>>
        PROVE  SourceTypes' /\ runs <= runs' /\ DOMAIN steps \subseteq DOMAIN steps'
               /\ \A s \in DOMAIN steps : steps'[s] = steps[s]
    <3>1. steps \in Seq(Nat) /\ r \in Nat /\ runs \in Nat
      BY DEF CopyInv, SourceTypes
    <3>2. /\ steps' \in Seq(Nat) /\ DOMAIN steps = 1..Len(steps) /\ Len(steps) \in Nat
          /\ DOMAIN steps' = 1..(Len(steps) + 1) /\ steps'[Len(steps) + 1] = r
          /\ \A s \in DOMAIN steps : s \in DOMAIN steps' /\ steps'[s] = steps[s]
      BY <2>2, <3>1, AppendIs
    <3>3. \A s \in DOMAIN steps' : steps'[s] \in 1..runs
      BY <3>2 DEF CopyInv, SourceTypes
    <3>. QED  BY <2>2, <3>1, <3>2, <3>3 DEF CopyInv, SourceTypes
  <2>3. CASE /\ \E s \in 1..Len(steps) : s \notin approvals /\ approvals' = approvals \cup {s}
             /\ UNCHANGED <<runs, steps>>
    BY <2>3 DEF CopyInv, SourceTypes
  <2>. QED  BY <2>1, <2>2, <2>3 DEF Work
<1>3. runs \in Nat /\ runs' \in Nat
  BY <1>2 DEF CopyInv, SourceTypes
<1>4. ExportTypes' /\ CopyTypes'
  <2>1. 1..runs \subseteq 1..runs'
    BY <1>2, <1>3
  <2>2. ExportTypes'
    BY <1>1, <1>2, <2>1 DEF CopyInv, ExportTypes
  <2>. QED  BY <1>1, <1>2, <2>2 DEF CopyInv, CopyTypes
<1>5. Grown /\ Importing' = Importing
  <2>1. Len(copies) \in Nat /\ Len(stepCopies) \in Nat
    BY LengthsAre DEF CopyInv
  <2>. QED  BY <1>1, <1>2, <2>1 DEF Grown, Importing
<1>6. ASSUME NEW i \in Importer PROVE ImportOK(import[i])' /\ KnownOK(import[i])'
  <2>1. PICK m : m = import[i]
    OBVIOUS
  <2>2. ImportOK(m)'
    BY <1>4, <1>5, <2>1, GrownKeepsImport DEF CopyInv
  <2>3. KnownOK(m)'
    BY <1>1, <1>5, <2>1 DEF CopyInv, KnownOK
  <2>. QED  BY <1>1, <2>1, <2>2, <2>3 DEF ImportOK, MapsOK, KnownOK, Importing, Torn
<1>7. CopiesHangTogether' /\ SkipMakesNoDuplicate'
  BY <1>1, <1>2 DEF CopyInv, CopyTypes, CopiesHangTogether, SkipMakesNoDuplicate
<1>. QED  BY <1>1, <1>2, <1>4, <1>6, <1>7 DEF CopyInv

(* An export reads while nothing is imported. *)
LEMMA ExportKeepsCopies == ASSUME CopyInv, Export PROVE CopyInv'
<1>1. /\ runs' = runs /\ steps' = steps /\ approvals' = approvals /\ import' = import
      /\ copies' = copies /\ stepCopies' = stepCopies /\ approvalCopies' = approvalCopies
      /\ alone' = alone
  BY DEF Export, ExportRuns, ExportSteps, ExportApprovals, source, runTables
<1>2. \A i \in Importer : import[i] = Idle
  <2>1. export.pc # "done" => \A i \in Importer : import[i].pc = "idle"
    BY DEF CopyInv, ImportOK
  <2>2. \A i \in Importer : import[i].pc = "idle" => import[i] = Idle
    BY DEF CopyInv, ImportOK, Refused, Importing, Beginning
  <2>. QED  BY <2>1, <2>2 DEF Export, ExportRuns, ExportSteps, ExportApprovals, AllIdle
<1>3. ImportOK(Idle)' /\ KnownOK(Idle)'
  BY DEF ImportOK, KnownOK, Importing, Idle, Beginning
<1>4. ExportTypes'
  <2>1. CASE ExportRuns
    <3>1. PICK wanted \in {1..runs} \cup {{r} : r \in 1..runs} :
             export' = [NoFile EXCEPT !.pc = "steps", !.runs = wanted]
      BY <2>1 DEF ExportRuns
    <3>2. wanted \in SUBSET (1..runs)
      BY <3>1
    <3>. QED  BY <1>1, <3>1, <3>2 DEF ExportTypes, NoFile
  <2>2. CASE ExportSteps
    <3>1. Within(export) \subseteq DOMAIN steps /\ \A s \in Within(export) : steps[s] \in export.runs
      BY DEF Within
    <3>. QED  BY <1>1, <2>2, <3>1 DEF ExportSteps, CopyInv, ExportTypes
  <2>3. CASE ExportApprovals
    <3>1. Within(export) \subseteq DOMAIN steps /\ \A s \in Within(export) : steps[s] \in export.runs
      BY DEF Within
    <3>. QED  BY <1>1, <2>3, <3>1 DEF ExportApprovals, CopyInv, ExportTypes
  <2>. QED  BY <2>1, <2>2, <2>3 DEF Export
<1>5. SourceTypes' /\ CopyTypes'
  BY <1>1 DEF CopyInv, SourceTypes, CopyTypes
<1>6. ASSUME NEW i \in Importer PROVE ImportOK(import[i])' /\ KnownOK(import[i])'
  BY <1>1, <1>2, <1>3 DEF ImportOK, MapsOK, KnownOK, Importing, Torn, Idle
<1>7. CopiesHangTogether' /\ SkipMakesNoDuplicate'
  BY <1>1 DEF CopyInv, CopiesHangTogether, SkipMakesNoDuplicate
<1>. QED  BY <1>1, <1>4, <1>5, <1>6, <1>7 DEF CopyInv

--------------------------------------------------------------------------------
(* An import leaves the tables of runs alone: it goes on, is refused for      *)
(* another reason, or ends.                                                 *)
LEMMA AdvanceKeepsCopies ==
    ASSUME CopyInv, NEW i \in Importer,
           UNCHANGED <<source, export, runTables, alone>>,
           \/ /\ import[i].pc \in Beginning
              /\ \E pc \in Beginning \cup {"runs"} : Goto(i, pc)
           \/ Proceed(i, [pc |-> "refused", torn |-> FALSE]) /\ import[i].pc \in Beginning
           \/ Proceed(i, Idle) /\ import[i] # Idle
    PROVE  CopyInv'
<1>1. /\ runs' = runs /\ steps' = steps /\ approvals' = approvals /\ export' = export
      /\ copies' = copies /\ stepCopies' = stepCopies /\ approvalCopies' = approvalCopies
      /\ alone' = alone
  BY DEF source, runTables
<1>2. SourceTypes' /\ ExportTypes' /\ CopyTypes' /\ Importing' = Importing
  BY <1>1 DEF CopyInv, SourceTypes, ExportTypes, CopyTypes, Importing
<1>3. CopiesHangTogether' /\ SkipMakesNoDuplicate'
  BY <1>1 DEF CopyInv, CopiesHangTogether, SkipMakesNoDuplicate
<1>4. Grown
  <2>1. Len(copies) \in Nat /\ Len(stepCopies) \in Nat
    BY LengthsAre DEF CopyInv
  <2>. QED  BY <1>1, <2>1 DEF Grown
<1>5. ASSUME import[i].pc \in Beginning, NEW pc \in Beginning \cup {"runs"}, Goto(i, pc)
      PROVE  CopyInv'
  <2>1. PICK m : m = import[i]
    OBVIOUS
  <2>2. m \in Importing /\ export.pc = "done" /\ m # Idle /\ MapsOK(m) /\ KnownOK(m)
    BY <1>5, <2>1, AtWork
  <2>. DEFINE next == [m EXCEPT !.pc = pc]
  <2>3. /\ next \in Importing /\ next.pc = pc /\ next.mode = m.mode
        /\ next.known = m.known /\ next.runs = m.runs /\ next.steps = m.steps
        /\ next.runMap = m.runMap /\ next.stepMap = m.stepMap
    BY <2>2 DEF Importing
  <2>4. m.pc # "runs" /\ pc # "refused"
    BY <1>5, <2>1 DEF Beginning
  <2>5. Proceed(i, next)
    BY <1>5, <2>1 DEF Goto
  <2>. HIDE DEF next
  <2>6. ImportOK(next)' /\ KnownOK(next)'
    BY <1>1, <1>2, <2>2, <2>3, <2>4 DEF ImportOK, MapsOK, KnownOK
  <2>. QED  BY <1>1, <1>2, <1>3, <1>4, <2>1, <2>2, <2>5, <2>6, OneImportMoves
<1>6. ASSUME Proceed(i, [pc |-> "refused", torn |-> FALSE]), import[i].pc \in Beginning
      PROVE  CopyInv'
  <2>. DEFINE next == [pc |-> "refused", torn |-> FALSE]
  <2>1. export.pc = "done" /\ import[i] # Idle
    BY <1>6, AtWork
  <2>2. next \in Refused /\ next.pc = "refused" /\ next.torn = FALSE
    BY DEF Refused
  <2>. HIDE DEF next
  <2>3. next \notin Importing
    BY <2>2 DEF Importing, Beginning
  <2>4. ImportOK(next)' /\ KnownOK(next)'
    BY <1>1, <1>2, <2>1, <2>2, <2>3 DEF ImportOK, KnownOK
  <2>5. Proceed(i, next)
    BY <1>6 DEF next
  <2>. QED  BY <1>1, <1>2, <1>3, <1>4, <2>1, <2>4, <2>5, OneImportMoves
<1>7. ASSUME Proceed(i, Idle), import[i] # Idle PROVE CopyInv'
  <2>1. ImportOK(Idle)' /\ KnownOK(Idle)'
    BY DEF ImportOK, KnownOK, Importing, Idle, Beginning
  <2>. QED  BY <1>1, <1>2, <1>3, <1>4, <1>7, <2>1, OneImportMoves
<1>. QED  BY <1>5, <1>6, <1>7

(* A second import that begins beside another ends its being alone.          *)
LEMMA BeginKeepsCopies ==
    ASSUME CopyInv, NEW i \in Importer, NEW mode \in Modes, ImportBegin(i, mode)
    PROVE  CopyInv'
<1>1. /\ runs' = runs /\ steps' = steps /\ approvals' = approvals /\ export' = export
      /\ copies' = copies /\ stepCopies' = stepCopies /\ approvalCopies' = approvalCopies
      /\ alone' = AllIdle /\ alone' \in BOOLEAN
  BY DEF ImportBegin, AllIdle, source, runTables
<1>2. Importing' = Importing /\ Torn' = Torn
  BY <1>1 DEF Importing, Torn
<1>3. PICK m : m = Opened(mode, {copies[r].from : r \in DOMAIN copies})
  OBVIOUS
<1>4. /\ m.pc = "project" /\ m.mode = mode /\ m.known = {copies[r].from : r \in DOMAIN copies}
      /\ m.runs = export.runs /\ m.steps = export.steps
      /\ m.runMap = [r \in export.runs |-> 0] /\ m.stepMap = [s \in export.steps |-> 0]
  BY <1>3 DEF Opened
<1>5. m \in Importing
  <2>1. {copies[r].from : r \in DOMAIN copies} \in SUBSET Nat
    <3>1. \A r \in DOMAIN copies : copies[r] \in Copy
      BY DEF CopyInv, CopyTypes
    <3>2. \A r \in DOMAIN copies : copies[r].from \in Nat
      BY <3>1 DEF Copy
    <3>. QED  BY <3>2
  <2>2. Len(copies) \in Nat /\ Len(stepCopies) \in Nat
    BY LengthsAre DEF CopyInv
  <2>3. [r \in export.runs |-> 0] \in [export.runs -> 0..Len(copies)]
        /\ [s \in export.steps |-> 0] \in [export.steps -> 0..Len(stepCopies)]
    BY <2>2
  <2>. QED  BY <1>3, <2>1, <2>3 DEF Opened, Importing, Beginning
<1>6. import' = [import EXCEPT ![i] = m] /\ export.pc = "done"
  BY <1>3 DEF ImportBegin, Proceed
<1>7. /\ import' = [j \in Importer |-> import'[j]] /\ import'[i] = m
      /\ \A j \in Importer \ {i} : import'[j] = import[j]
  BY <1>6 DEF CopyInv
<1>8. SourceTypes' /\ ExportTypes' /\ CopyTypes'
  BY <1>1 DEF CopyInv, SourceTypes, ExportTypes, CopyTypes
<1>9. ImportOK(m)' /\ KnownOK(m)'
  BY <1>1, <1>2, <1>4, <1>5, <1>6 DEF ImportOK, MapsOK, KnownOK
<1>10. ASSUME NEW j \in Importer PROVE ImportOK(import[j])' /\ KnownOK(import[j])'
  <2>1. CASE j = i
    BY <1>7, <1>9, <2>1 DEF ImportOK, MapsOK, KnownOK, Importing, Torn
  <2>2. CASE j # i
    <3>1. PICK n : n = import[j] /\ n = import'[j]
      BY <1>7, <2>2
    <3>2. ImportOK(n)'
      BY <1>1, <1>2, <3>1 DEF CopyInv, ImportOK, MapsOK
    <3>3. alone' => n = Idle
      BY <1>1, <3>1 DEF AllIdle
    <3>4. KnownOK(n)'
      BY <3>3 DEF KnownOK, Importing, Idle, Beginning
    <3>. QED  BY <3>1, <3>2, <3>4 DEF ImportOK, MapsOK, KnownOK, Importing, Torn
  <2>. QED  BY <2>1, <2>2
<1>11. \A j, k \in Importer : alone' /\ import'[j] # Idle /\ import'[k] # Idle => j = k
  BY <1>1, <1>7 DEF AllIdle
<1>12. CopiesHangTogether' /\ SkipMakesNoDuplicate'
  BY <1>1 DEF CopyInv, CopiesHangTogether, SkipMakesNoDuplicate
<1>. QED  BY <1>1, <1>7, <1>8, <1>10, <1>11, <1>12 DEF CopyInv

LEMMA RunKeepsCopies == ASSUME CopyInv, NEW i \in Importer, ImportRun(i) PROVE CopyInv'
<1>1. /\ runs' = runs /\ steps' = steps /\ approvals' = approvals /\ export' = export
      /\ stepCopies' = stepCopies /\ approvalCopies' = approvalCopies /\ alone' = alone
  BY DEF ImportRun, source
<1>2. PICK m : m = import[i]
  OBVIOUS
<1>3. /\ m \in Importing /\ m.pc = "runs" /\ m.runs # {} /\ export.pc = "done"
      /\ import[i] # Idle /\ MapsOK(m) /\ KnownOK(m)
  BY <1>2, AtWork DEF ImportRun
<1>4. /\ copies \in Seq(Copy) /\ Len(copies) \in Nat /\ DOMAIN copies = 1..Len(copies)
      /\ Len(stepCopies) \in Nat
  BY LengthsAre DEF CopyInv, CopyTypes
<1>5. export.runs \subseteq Nat
  BY DEF CopyInv, ExportTypes
<1>6. /\ m.mode \in Modes /\ m.runs \subseteq export.runs /\ m.known \subseteq Nat
      /\ m.steps \subseteq export.steps /\ m.approvals \subseteq export.approvals
      /\ m.runMap \in [export.runs -> 0..Len(copies)]
      /\ m.stepMap \in [export.steps -> 0..Len(stepCopies)]
  BY <1>3 DEF Importing
<1>. DEFINE r == Least(m.runs)
            skip == m.mode = "skip_existing" /\ r \in m.known
<1>7. r \in m.runs /\ r \in export.runs /\ r \in Nat
  BY <1>3, <1>5, <1>6, LeastIs
<1>8. PICK to : to = IF skip THEN 0 ELSE Len(copies) + 1
  OBVIOUS
<1>. DEFINE next == [m EXCEPT !.runs = @ \ {r}, !.runMap[r] = to]
            row == [from |-> r, mode |-> m.mode, alone |-> alone]
<1>9. /\ copies' = IF skip THEN copies ELSE Append(copies, row)
      /\ Proceed(i, next)
  BY <1>2, <1>8 DEF ImportRun
<1>10. /\ next.pc = "runs" /\ next.mode = m.mode /\ next.known = m.known
       /\ next.runs = m.runs \ {r} /\ next.steps = m.steps
       /\ next.approvals = m.approvals /\ next.stepMap = m.stepMap
       /\ next.runMap = [m.runMap EXCEPT ![r] = to]
       /\ next = [pc |-> "runs", mode |-> m.mode, known |-> m.known, runs |-> m.runs \ {r},
                  steps |-> m.steps, approvals |-> m.approvals,
                  runMap |-> next.runMap, stepMap |-> m.stepMap]
  <2>1. m = [pc |-> "runs", mode |-> m.mode, known |-> m.known, runs |-> m.runs,
             steps |-> m.steps, approvals |-> m.approvals,
             runMap |-> m.runMap, stepMap |-> m.stepMap]
    BY <1>3 DEF Importing
  <2>2. PICK f : f = [m.runMap EXCEPT ![r] = to]
    OBVIOUS
  <2>3. PICK n : n = [m EXCEPT !.runs = @ \ {r}]
    OBVIOUS
  <2>4. n = [pc |-> "runs", mode |-> m.mode, known |-> m.known, runs |-> m.runs \ {r},
             steps |-> m.steps, approvals |-> m.approvals,
             runMap |-> m.runMap, stepMap |-> m.stepMap]
    <3>. HIDE DEF r
    <3>. QED  BY <2>1, <2>3
  <2>5. n.runMap = m.runMap
    BY <2>4
  <2>6. next = [n EXCEPT !.runMap = f]
    BY <2>2, <2>3, <2>5, Zenon
  <2>7. next = [pc |-> "runs", mode |-> m.mode, known |-> m.known, runs |-> m.runs \ {r},
                steps |-> m.steps, approvals |-> m.approvals,
                runMap |-> f, stepMap |-> m.stepMap]
    <3>. HIDE DEF r, next
    <3>. QED  BY <2>4, <2>6
  <2>. HIDE DEF r, next
  <2>. QED  BY <2>2, <2>7
<1>11. row \in Copy /\ row.from = r /\ row.mode = m.mode /\ row.alone = alone
  BY <1>6, <1>7 DEF Copy, CopyInv
<1>. HIDE DEF r, skip, next, row
<1>12. /\ copies' \in Seq(Copy) /\ Len(copies') \in Nat /\ DOMAIN copies' = 1..Len(copies')
       /\ Len(copies) <= Len(copies') /\ \A q \in DOMAIN copies : copies'[q] = copies[q]
       /\ to \in 0..Len(copies')
       /\ to # 0 => copies'[to].from = r
       /\ \A q \in DOMAIN copies' : q \in DOMAIN copies \/
             /\ ~skip /\ q = Len(copies) + 1
             /\ copies'[q].from = r /\ copies'[q].mode = m.mode /\ copies'[q].alone = alone
  <2>1. CASE skip
    BY <1>4, <1>8, <1>9, <2>1
  <2>2. CASE ~skip
    <3>1. copies' = Append(copies, row) /\ to = Len(copies) + 1
      BY <1>8, <1>9, <2>2
    <3>2. /\ copies' \in Seq(Copy) /\ Len(copies') = Len(copies) + 1
          /\ DOMAIN copies' = 1..(Len(copies) + 1)
          /\ copies'[Len(copies) + 1] = row
          /\ \A q \in DOMAIN copies : copies'[q] = copies[q]
      BY <1>4, <1>11, <3>1, AppendIs
    <3>. QED  BY <1>4, <1>11, <2>2, <3>1, <3>2
  <2>. QED  BY <2>1, <2>2
<1>13. next.runMap \in [export.runs -> 0..Len(copies')]
  BY <1>4, <1>6, <1>7, <1>10, <1>12
<1>14. next \in Importing'
  BY <1>1, <1>6, <1>10, <1>13 DEF Importing
<1>15. SourceTypes' /\ ExportTypes'
  BY <1>1 DEF CopyInv, SourceTypes, ExportTypes
<1>16. CopyTypes'
  BY <1>1, <1>4, <1>12 DEF CopyInv, CopyTypes
<1>17. Grown
  BY <1>1, <1>4, <1>12 DEF Grown
<1>18. MapsOK(next)'
  <2>1. ASSUME NEW q \in export.runs, next.runMap[q] # 0
        PROVE  copies'[next.runMap[q]].from = q
    <3>1. CASE q = r
      BY <1>6, <1>7, <1>10, <1>12, <2>1, <3>1
    <3>2. CASE q # r
      <4>1. next.runMap[q] = m.runMap[q] /\ m.runMap[q] \in 1..Len(copies)
        BY <1>4, <1>6, <1>10, <2>1, <3>2
      <4>. QED  BY <1>3, <1>4, <1>12, <2>1, <4>1 DEF MapsOK
    <3>. QED  BY <3>1, <3>2
  <2>2. m.steps = export.steps /\ \A s \in export.steps : m.stepMap[s] = 0
    BY <1>3 DEF MapsOK
  <2>. QED  BY <1>1, <1>10, <2>1, <2>2 DEF MapsOK
<1>19. ImportOK(next)'
  BY <1>1, <1>3, <1>10, <1>14, <1>18 DEF ImportOK
<1>20. KnownOK(next)'
  BY <1>1, <1>3, <1>6, <1>7, <1>10, <1>12 DEF KnownOK
<1>21. CopiesHangTogether'
  BY <1>1, <1>12 DEF CopyInv, CopyTypes, CopiesHangTogether
<1>22. SkipMakesNoDuplicate'
  <2>. SUFFICES ASSUME NEW p \in DOMAIN copies', NEW q \in DOMAIN copies', p < q,
                       copies'[p].from = copies'[q].from,
                       copies'[q].mode = "skip_existing", copies'[q].alone
                PROVE  FALSE
    BY DEF SkipMakesNoDuplicate
  <2>1. CASE q \in DOMAIN copies
    <3>1. p \in DOMAIN copies
      BY <1>4, <1>12, <2>1
    <3>. QED  BY <1>12, <2>1, <3>1 DEF CopyInv, SkipMakesNoDuplicate
  <2>2. CASE q \notin DOMAIN copies
    <3>1. /\ ~skip /\ q = Len(copies) + 1 /\ copies'[q].from = r
          /\ m.mode = "skip_existing" /\ alone
      BY <1>12, <2>2
    <3>2. p \in DOMAIN copies /\ copies[p].from = r
      BY <1>4, <1>12, <3>1
    <3>3. r \notin m.known /\ r \notin export.runs \ m.runs
      BY <1>7, <3>1 DEF skip
    <3>. QED  BY <1>3, <3>1, <3>2, <3>3 DEF KnownOK
  <2>. QED  BY <2>1, <2>2
<1>. QED  BY <1>1, <1>3, <1>9, <1>15, <1>16, <1>17, <1>19, <1>20, <1>21, <1>22, OneImportMoves

LEMMA StepKeepsCopies == ASSUME CopyInv, NEW i \in Importer, ImportStep(i) PROVE CopyInv'
<1>1. /\ runs' = runs /\ steps' = steps /\ approvals' = approvals /\ export' = export
      /\ copies' = copies /\ approvalCopies' = approvalCopies /\ alone' = alone
  BY DEF ImportStep, source
<1>2. PICK m : m = import[i]
  OBVIOUS
<1>3. /\ m \in Importing /\ m.pc = "runs" /\ export.pc = "done" /\ import[i] # Idle
      /\ m.runs = {} /\ m.steps # {} /\ MapsOK(m) /\ KnownOK(m)
  BY <1>2, AtWork DEF ImportStep
<1>. DEFINE StepCopy == [run : Nat, from : Nat]
<1>4. /\ stepCopies \in Seq(StepCopy)
      /\ Len(stepCopies) \in Nat /\ DOMAIN stepCopies = 1..Len(stepCopies)
      /\ Len(copies) \in Nat /\ DOMAIN copies = 1..Len(copies)
  BY LengthsAre DEF CopyInv, CopyTypes
<1>5. /\ export.steps \subseteq DOMAIN steps /\ export.steps \subseteq Nat
      /\ \A x \in export.steps : steps[x] \in export.runs
  <2>1. steps \in Seq(Nat)
    BY DEF CopyInv, SourceTypes
  <2>2. DOMAIN steps \subseteq Nat
    BY <2>1
  <2>. QED  BY <2>2 DEF CopyInv, ExportTypes
<1>6. /\ m.mode \in Modes /\ m.known \subseteq Nat /\ m.runs \subseteq export.runs
      /\ m.steps \subseteq export.steps /\ m.approvals \subseteq export.approvals
      /\ m.runMap \in [export.runs -> 0..Len(copies)]
      /\ m.stepMap \in [export.steps -> 0..Len(stepCopies)]
  BY <1>3 DEF Importing
<1>. DEFINE s == Least(m.steps)
<1>7. s \in m.steps /\ s \in export.steps /\ s \in Nat
  BY <1>3, <1>5, <1>6, LeastIs
<1>8. PICK r, to : r = m.runMap[steps[s]] /\ to = IF r = 0 THEN 0 ELSE Len(stepCopies) + 1
  OBVIOUS
<1>. DEFINE next == [m EXCEPT !.steps = @ \ {s}, !.stepMap[s] = to]
<1>9. /\ stepCopies' = IF r = 0 THEN stepCopies ELSE Append(stepCopies, [run |-> r, from |-> s])
      /\ Proceed(i, next)
  BY <1>2, <1>8 DEF ImportStep
<1>10. /\ r \in 0..Len(copies)
       /\ r # 0 => r \in DOMAIN copies /\ copies[r].from = steps[s]
  <2>1. r \in 0..Len(copies) /\ steps[s] \in export.runs
    BY <1>5, <1>6, <1>7, <1>8
  <2>. QED  BY <1>3, <1>4, <1>8, <2>1 DEF MapsOK
<1>11. /\ next.pc = "runs" /\ next.mode = m.mode /\ next.known = m.known
       /\ next.runs = m.runs /\ next.steps = m.steps \ {s}
       /\ next.approvals = m.approvals /\ next.runMap = m.runMap
       /\ next.stepMap = [m.stepMap EXCEPT ![s] = to]
       /\ next = [pc |-> "runs", mode |-> m.mode, known |-> m.known, runs |-> m.runs,
                  steps |-> m.steps \ {s}, approvals |-> m.approvals,
                  runMap |-> m.runMap, stepMap |-> next.stepMap]
  <2>1. m = [pc |-> "runs", mode |-> m.mode, known |-> m.known, runs |-> m.runs,
             steps |-> m.steps, approvals |-> m.approvals,
             runMap |-> m.runMap, stepMap |-> m.stepMap]
    BY <1>3 DEF Importing
  <2>2. PICK f : f = [m.stepMap EXCEPT ![s] = to]
    OBVIOUS
  <2>3. PICK n : n = [m EXCEPT !.steps = @ \ {s}]
    OBVIOUS
  <2>4. n = [pc |-> "runs", mode |-> m.mode, known |-> m.known, runs |-> m.runs,
             steps |-> m.steps \ {s}, approvals |-> m.approvals,
             runMap |-> m.runMap, stepMap |-> m.stepMap]
    <3>. HIDE DEF s
    <3>. QED  BY <2>1, <2>3
  <2>5. n.stepMap = m.stepMap
    BY <2>4
  <2>6. next = [n EXCEPT !.stepMap = f]
    BY <2>2, <2>3, <2>5, Zenon
  <2>7. next = [pc |-> "runs", mode |-> m.mode, known |-> m.known, runs |-> m.runs,
                steps |-> m.steps \ {s}, approvals |-> m.approvals,
                runMap |-> m.runMap, stepMap |-> f]
    <3>. HIDE DEF s, next
    <3>. QED  BY <2>4, <2>6
  <2>. HIDE DEF s, next
  <2>. QED  BY <2>2, <2>7
<1>. HIDE DEF s, next
<1>12. /\ stepCopies' \in Seq(StepCopy) /\ Len(stepCopies') \in Nat
       /\ DOMAIN stepCopies' = 1..Len(stepCopies') /\ Len(stepCopies) <= Len(stepCopies')
       /\ \A x \in DOMAIN stepCopies : stepCopies'[x] = stepCopies[x]
       /\ to \in 0..Len(stepCopies')
       /\ to # 0 => stepCopies'[to].from = s /\ stepCopies'[to].run = r
       /\ \A x \in DOMAIN stepCopies' : x \in DOMAIN stepCopies \/ (x = to /\ r # 0)
  <2>1. CASE r = 0
    BY <1>4, <1>8, <1>9, <2>1
  <2>2. CASE r # 0
    <3>1. [run |-> r, from |-> s] \in StepCopy
      BY <1>7, <1>10
    <3>2. stepCopies' = Append(stepCopies, [run |-> r, from |-> s]) /\ to = Len(stepCopies) + 1
      BY <1>8, <1>9, <2>2
    <3>. HIDE DEF StepCopy
    <3>3. /\ stepCopies' \in Seq(StepCopy) /\ Len(stepCopies') = Len(stepCopies) + 1
          /\ DOMAIN stepCopies' = 1..(Len(stepCopies) + 1)
          /\ stepCopies'[Len(stepCopies) + 1] = [run |-> r, from |-> s]
          /\ \A x \in DOMAIN stepCopies : stepCopies'[x] = stepCopies[x]
      BY <1>4, <3>1, <3>2, AppendIs
    <3>. QED  BY <1>4, <2>2, <3>2, <3>3
  <2>. QED  BY <2>1, <2>2
<1>13. next.stepMap \in [export.steps -> 0..Len(stepCopies')]
  BY <1>4, <1>6, <1>7, <1>11, <1>12
<1>14. next \in Importing'
  BY <1>1, <1>6, <1>11, <1>13 DEF Importing
<1>15. SourceTypes' /\ ExportTypes' /\ Grown
  BY <1>1, <1>4, <1>12 DEF CopyInv, SourceTypes, ExportTypes, Grown
<1>16. \A x \in DOMAIN stepCopies' :
          /\ stepCopies'[x].run \in DOMAIN copies /\ stepCopies'[x].from \in DOMAIN steps
          /\ copies[stepCopies'[x].run].from = steps[stepCopies'[x].from]
  <2>. SUFFICES ASSUME NEW x \in DOMAIN stepCopies'
                PROVE  /\ stepCopies'[x].run \in DOMAIN copies /\ stepCopies'[x].from \in DOMAIN steps
                       /\ copies[stepCopies'[x].run].from = steps[stepCopies'[x].from]
    OBVIOUS
  <2>1. CASE x \in DOMAIN stepCopies
    BY <1>12, <2>1 DEF CopyInv, CopyTypes, CopiesHangTogether
  <2>2. CASE x = to /\ r # 0
    <3>1. to # 0
      BY <1>4, <1>8, <2>2
    <3>2. stepCopies'[x].from = s /\ stepCopies'[x].run = r
      BY <1>12, <2>2, <3>1
    <3>. QED  BY <1>5, <1>7, <1>10, <2>2, <3>2
  <2>. QED  BY <1>12, <2>1, <2>2
<1>17. CopyTypes'
  <2>1. \A a \in DOMAIN approvalCopies : approvalCopies[a].step \in DOMAIN stepCopies'
    BY <1>4, <1>12 DEF CopyInv, CopyTypes
  <2>. QED  BY <1>1, <1>12, <1>16, <2>1 DEF CopyInv, CopyTypes
<1>18. MapsOK(next)'
  <2>1. ASSUME NEW x \in export.steps, next.stepMap[x] # 0
        PROVE  /\ stepCopies'[next.stepMap[x]].from = x
               /\ stepCopies'[next.stepMap[x]].run = m.runMap[steps[x]]
    <3>1. CASE x = s
      BY <1>6, <1>7, <1>8, <1>11, <1>12, <2>1, <3>1
    <3>2. CASE x # s
      <4>1. next.stepMap[x] = m.stepMap[x] /\ m.stepMap[x] \in 1..Len(stepCopies)
        BY <1>4, <1>6, <1>11, <2>1, <3>2
      <4>2. m.stepMap[x] \in DOMAIN stepCopies /\ m.stepMap[x] # 0
        BY <1>4, <4>1
      <4>3. /\ stepCopies[m.stepMap[x]].from = x
            /\ stepCopies[m.stepMap[x]].run = m.runMap[steps[x]]
        BY <1>3, <4>2 DEF MapsOK
      <4>. QED  BY <1>12, <4>1, <4>2, <4>3
    <3>. QED  BY <3>1, <3>2
  <2>2. ASSUME NEW x \in export.steps \ next.steps, next.stepMap[x] = 0
        PROVE  m.runMap[steps[x]] = 0
    <3>1. CASE x = s
      BY <1>4, <1>6, <1>7, <1>8, <1>11, <2>2, <3>1
    <3>2. CASE x # s
      BY <1>3, <1>6, <1>11, <2>2, <3>2 DEF MapsOK
    <3>. QED  BY <3>1, <3>2
  <2>. QED  BY <1>1, <1>3, <1>11, <2>1, <2>2 DEF MapsOK
<1>19. ImportOK(next)' /\ KnownOK(next)'
  BY <1>1, <1>3, <1>11, <1>14, <1>18 DEF ImportOK, KnownOK
<1>20. CopiesHangTogether'
  <2>1. \A a \in DOMAIN approvalCopies :
            stepCopies'[approvalCopies[a].step] = stepCopies[approvalCopies[a].step]
    BY <1>12 DEF CopyInv, CopyTypes
  <2>. QED  BY <1>1, <1>16, <2>1 DEF CopyInv, CopiesHangTogether
<1>21. SkipMakesNoDuplicate'
  BY <1>1 DEF CopyInv, SkipMakesNoDuplicate
<1>. QED  BY <1>1, <1>3, <1>9, <1>15, <1>17, <1>19, <1>20, <1>21, OneImportMoves

LEMMA ApprovalKeepsCopies == ASSUME CopyInv, NEW i \in Importer, ImportApproval(i) PROVE CopyInv'
<1>1. /\ runs' = runs /\ steps' = steps /\ approvals' = approvals /\ export' = export
      /\ copies' = copies /\ stepCopies' = stepCopies /\ alone' = alone
  BY DEF ImportApproval, source
<1>2. PICK m : m = import[i]
  OBVIOUS
<1>3. /\ m \in Importing /\ m.pc = "runs" /\ export.pc = "done" /\ import[i] # Idle
      /\ m.runs = {} /\ m.steps = {} /\ m.approvals # {} /\ MapsOK(m) /\ KnownOK(m)
  BY <1>2, AtWork DEF ImportApproval
<1>. DEFINE ApprovalCopy == [run : Nat, step : Nat, from : Nat]
<1>4. /\ Len(copies) \in Nat /\ Len(stepCopies) \in Nat /\ DOMAIN stepCopies = 1..Len(stepCopies)
      /\ approvalCopies \in Seq(ApprovalCopy)
  BY LengthsAre DEF CopyInv, CopyTypes
<1>5. /\ export.approvals \subseteq Nat /\ \A x \in export.approvals : steps[x] \in export.runs
  <2>1. steps \in Seq(Nat)
    BY DEF CopyInv, SourceTypes
  <2>2. DOMAIN steps \subseteq Nat
    BY <2>1
  <2>. QED  BY <2>2 DEF CopyInv, ExportTypes
<1>6. /\ m.approvals \subseteq export.approvals
      /\ m.runMap \in [export.runs -> 0..Len(copies)]
      /\ m.stepMap \in [export.steps -> 0..Len(stepCopies)]
  BY <1>3 DEF Importing
<1>. DEFINE s == Least(m.approvals)
<1>7. s \in m.approvals /\ s \in export.approvals /\ s \in Nat
  BY <1>3, <1>5, <1>6, LeastIs
<1>8. PICK r, step : /\ r = m.runMap[steps[s]]
                     /\ step = IF s \in DOMAIN m.stepMap THEN m.stepMap[s] ELSE 0
  OBVIOUS
<1>9. r \in Nat /\ step \in Nat
  BY <1>4, <1>5, <1>6, <1>7, <1>8
<1>10. /\ r # 0 /\ step = 0 =>
             Proceed(i, [pc |-> "refused", torn |-> TRUE]) /\ UNCHANGED approvalCopies
       /\ ~(r # 0 /\ step = 0) =>
             /\ Proceed(i, [m EXCEPT !.approvals = @ \ {s}])
             /\ approvalCopies' = IF r = 0 THEN approvalCopies
                   ELSE Append(approvalCopies, [run |-> r, step |-> step, from |-> s])
  <2>1. PlaceApproval(i, s)
    BY <1>2 DEF ImportApproval
  <2>. HIDE DEF s
  <2>. QED  BY <1>2, <1>8, <2>1 DEF PlaceApproval
<1>11. /\ s \in export.steps => step = m.stepMap[s]
       /\ s \notin export.steps => step = 0
  BY <1>6, <1>8
<1>12. step # 0 => /\ step \in DOMAIN stepCopies
                   /\ stepCopies[step].from = s /\ stepCopies[step].run = r
  BY <1>3, <1>4, <1>6, <1>8, <1>11 DEF MapsOK
<1>. HIDE DEF s
<1>13. /\ SourceTypes' /\ ExportTypes' /\ SkipMakesNoDuplicate' /\ Grown
       /\ Importing' = Importing /\ Torn' = Torn
  BY <1>1, <1>4 DEF CopyInv, SourceTypes, ExportTypes, SkipMakesNoDuplicate, Grown, Importing, Torn
<1>14. CASE r # 0 /\ step = 0
  <2>1. PICK next : next = [pc |-> "refused", torn |-> TRUE]
    OBVIOUS
  <2>2. Proceed(i, next) /\ approvalCopies' = approvalCopies
    BY <1>10, <1>14, <2>1
  <2>3. next \in Refused /\ next.pc = "refused"
    BY <2>1 DEF Refused
  <2>4. next \notin Importing
    BY <2>3 DEF Importing, Beginning
  <2>5. s \notin export.steps
    BY <1>3, <1>8, <1>11, <1>14 DEF MapsOK
  <2>6. Torn
    BY <1>6, <1>7, <2>5 DEF Torn
  <2>7. ImportOK(next)' /\ KnownOK(next)'
    BY <1>1, <1>3, <1>13, <2>3, <2>4, <2>6 DEF ImportOK, KnownOK
  <2>8. CopyTypes' /\ CopiesHangTogether'
    BY <1>1, <2>2 DEF CopyInv, CopyTypes, CopiesHangTogether
  <2>. QED  BY <1>1, <1>3, <1>13, <2>2, <2>7, <2>8, OneImportMoves
<1>15. CASE ~(r # 0 /\ step = 0)
  <2>. DEFINE next == [m EXCEPT !.approvals = @ \ {s}]
  <2>1. /\ next \in Importing /\ next.pc = "runs" /\ next.mode = m.mode
        /\ next.known = m.known /\ next.runs = m.runs /\ next.steps = m.steps
        /\ next.runMap = m.runMap /\ next.stepMap = m.stepMap
    BY <1>3 DEF Importing
  <2>. HIDE DEF next
  <2>2. ImportOK(next)' /\ KnownOK(next)'
    BY <1>1, <1>3, <1>13, <2>1 DEF ImportOK, MapsOK, KnownOK
  <2>3. /\ approvalCopies' \in Seq(ApprovalCopy)
        /\ \A a \in DOMAIN approvalCopies' :
              \/ a \in DOMAIN approvalCopies /\ approvalCopies'[a] = approvalCopies[a]
              \/ step # 0 /\ approvalCopies'[a] = [run |-> r, step |-> step, from |-> s]
    <3>1. CASE r = 0
      BY <1>4, <1>10, <1>15, <3>1
    <3>2. CASE r # 0
      <4>1. [run |-> r, step |-> step, from |-> s] \in ApprovalCopy
        BY <1>7, <1>9
      <4>2. approvalCopies' = Append(approvalCopies, [run |-> r, step |-> step, from |-> s]) /\ step # 0
        BY <1>10, <1>15, <3>2
      <4>. HIDE DEF ApprovalCopy
      <4>3. /\ approvalCopies' \in Seq(ApprovalCopy) /\ Len(approvalCopies) \in Nat
            /\ DOMAIN approvalCopies = 1..Len(approvalCopies)
            /\ DOMAIN approvalCopies' = 1..(Len(approvalCopies) + 1)
            /\ approvalCopies'[Len(approvalCopies) + 1] = [run |-> r, step |-> step, from |-> s]
            /\ \A a \in DOMAIN approvalCopies : approvalCopies'[a] = approvalCopies[a]
        BY <1>4, <4>1, <4>2, AppendIs
      <4>4. ASSUME NEW a \in DOMAIN approvalCopies', a \notin DOMAIN approvalCopies
            PROVE  a = Len(approvalCopies) + 1
        BY <4>3, <4>4
      <4>. QED  BY <4>2, <4>3, <4>4
    <3>. QED  BY <3>1, <3>2
  <2>4. ASSUME NEW a \in DOMAIN approvalCopies'
        PROVE  /\ approvalCopies'[a].step \in DOMAIN stepCopies
               /\ stepCopies[approvalCopies'[a].step].from = approvalCopies'[a].from
               /\ stepCopies[approvalCopies'[a].step].run = approvalCopies'[a].run
    <3>1. CASE a \in DOMAIN approvalCopies /\ approvalCopies'[a] = approvalCopies[a]
      BY <3>1 DEF CopyInv, CopyTypes, CopiesHangTogether
    <3>2. CASE step # 0 /\ approvalCopies'[a] = [run |-> r, step |-> step, from |-> s]
      BY <1>12, <3>2
    <3>. QED  BY <2>3, <3>1, <3>2
  <2>5. CopyTypes' /\ CopiesHangTogether'
    BY <1>1, <2>3, <2>4 DEF CopyInv, CopyTypes, CopiesHangTogether
  <2>6. Proceed(i, next)
    BY <1>10, <1>15 DEF next
  <2>. QED  BY <1>1, <1>3, <1>13, <2>2, <2>5, <2>6, OneImportMoves
<1>. QED  BY <1>14, <1>15

LEMMA InitCopyInv == Init => CopyInv
<1>. SUFFICES ASSUME Init PROVE CopyInv
  OBVIOUS
<1>1. /\ import = [i \in Importer |-> Idle] /\ alone = FALSE
      /\ copies = <<>> /\ stepCopies = <<>> /\ approvalCopies = <<>>
      /\ runs = 0 /\ steps = <<>> /\ approvals = {} /\ export = NoFile
  BY DEF Init
<1>2. SourceTypes
  BY <1>1 DEF SourceTypes
<1>3. ExportTypes
  BY <1>1 DEF ExportTypes, NoFile
<1>4. CopyTypes
  BY <1>1 DEF CopyTypes
<1>5. \A i \in Importer : ImportOK(import[i]) /\ KnownOK(import[i])
  BY <1>1 DEF ImportOK, KnownOK, Importing, Idle, Beginning
<1>6. CopiesHangTogether /\ SkipMakesNoDuplicate
  BY <1>1 DEF CopiesHangTogether, SkipMakesNoDuplicate
<1>. QED  BY <1>1, <1>2, <1>3, <1>4, <1>5, <1>6 DEF CopyInv

LEMMA NextKeepsCopyInv == CopyInv /\ [Next]_vars => CopyInv'
<1>. SUFFICES ASSUME CopyInv, [Next]_vars PROVE CopyInv'
  OBVIOUS
<1>1. CASE UNCHANGED vars
  BY <1>1, OthersKeepCopies DEF vars, source, runTables
<1>2. CASE Admins
  <2>1. UNCHANGED <<source, export, runTables, import, alone>>
    BY <1>2 DEF Admins, CreateCheck, DefaultGet, DeleteGet, CreateInsert, DefaultSet, DeleteRow,
                DeleteRefused, CompareDefault, ClearDefault, AdminDies
  <2>. QED  BY <2>1, OthersKeepCopies
<1>3. ASSUME NEW i \in Importer,
             ImportProjectCheck(i) \/ ImportProjectInsert(i) \/ ImportEnd(i)
      PROVE  CopyInv'
  <2>1. UNCHANGED <<source, export, runTables, alone>>
    BY <1>3 DEF ImportProjectCheck, ImportProjectInsert, ImportEnd
  <2>2. \/ /\ import[i].pc \in Beginning
           /\ \E pc \in Beginning \cup {"runs"} : Goto(i, pc)
        \/ Proceed(i, [pc |-> "refused", torn |-> FALSE]) /\ import[i].pc \in Beginning
        \/ Proceed(i, Idle) /\ import[i] # Idle
    BY <1>3 DEF ImportProjectCheck, ImportProjectInsert, ImportEnd, Beginning, Idle
  <2>. QED  BY <2>1, <2>2, AdvanceKeepsCopies
<1>4. ASSUME NEW i \in Importer, Import(i) PROVE CopyInv'
  BY <1>3, <1>4, BeginKeepsCopies, RunKeepsCopies, StepKeepsCopies, ApprovalKeepsCopies DEF Import
<1>. QED  BY <1>1, <1>2, <1>4, WorkKeepsCopies, ExportKeepsCopies DEF Next

THEOREM CopyInvariance == Spec => []CopyInv
BY InitCopyInv, NextKeepsCopyInv, PTL DEF Spec

(* A copied step hangs under the copy of its run, a copied approval under     *)
(* the copy of its step, whatever was imported before or beside, and died     *)
(* halfway.                                                                 *)
THEOREM ImportsHangTogether == Spec => []CopiesHangTogether
<1>1. CopyInv => CopiesHangTogether
  BY DEF CopyInv
<1>. QED  BY <1>1, CopyInvariance, PTL

(* import_export_payload with skip_existing brings no run a second time,      *)
(* unless another import was under way with it.                             *)
THEOREM SkippingMakesNoDuplicate == Spec => []SkipMakesNoDuplicate
<1>1. CopyInv => SkipMakesNoDuplicate
  BY DEF CopyInv
<1>. QED  BY <1>1, CopyInvariance, PTL

(* Rows are refused only when the export was taken beside a running agent.   *)
THEOREM ImportsOfTornExportsOnlyAreRefused == Spec => []RefusedOnlyIfTorn
<1>1. CopyInv => RefusedOnlyIfTorn
  BY DEF CopyInv, ImportOK, RefusedOnlyIfTorn
<1>. QED  BY <1>1, CopyInvariance, PTL

--------------------------------------------------------------------------------
(* A set of naturals that has a member and a bound has a greatest element.   *)
LEMMA GreatestNat ==
    ASSUME NEW B \in Nat, NEW T \in SUBSET (0..B), T # {}
    PROVE  \E m \in T : \A n \in T : n <= m
<1> DEFINE S == {B - n : n \in T}
<1>1. S \in SUBSET Nat /\ S # {}
  <2>1. \A n \in T : B - n \in Nat
    OBVIOUS
  <2>. QED  BY <2>1
<1>2. PICK m \in T : Least(S) = B - m
  BY <1>1, LeastIs
<1>3. \A k \in S : Least(S) <= k
  <2>1. PICK k \in S : \A n \in S : <<n, k>> \notin OpToRel(<, Nat)
    BY <1>1, NatLessThanWellFounded, WFMin
  <2>2. \A n \in S : ~(n < k)
    BY <1>1, <2>1 DEF OpToRel
  <2>3. \A n \in S : n \in Nat /\ k \in Nat
    BY <1>1
  <2>4. \A n \in S : k <= n
    BY <2>2, <2>3
  <2>. QED  BY <2>4 DEF Least
<1>4. ASSUME NEW n \in T
      PROVE  n <= m
  <2>1. B - m <= B - n
    BY <1>2, <1>3
  <2>. QED  BY <2>1
<1>. QED  BY <1>4

(* An id is handed out that no row has. *)
LEMMA NextIdIsNew ==
    ASSUME NextId \in Id
    PROVE  NextId \notin Rows
<1>1. CASE Rows = {}
  BY <1>1
<1>2. CASE Rows # {}
  <2> DEFINE top == CHOOSE i \in Rows : \A j \in Rows : j <= i
  <2>1. Rows \in SUBSET (0..MaxId) /\ MaxId \in Nat
    BY CatalogAssumption DEF Rows, Id
  <2>2. top \in Rows /\ \A j \in Rows : j <= top
    BY <1>2, <2>1, GreatestNat
  <2>3. NextId = 1 + top
    BY <1>2 DEF NextId
  <2> HIDE DEF top
  <2>. QED  BY <2>1, <2>2, <2>3
<1>. QED  BY <1>1, <1>2

(* An insert adds a row under a new name and moves no other. *)
LEMMA InsertIs ==
    ASSUME ProjectInv, NEW name \in Label, name # "none", Insert(name)
    PROVE  /\ projects' \in [Id -> Label]
           /\ \A i \in Rows : i \in Rows' /\ projects'[i] = projects[i]
           /\ \A i \in Rows' \ Rows : i = NextId
           /\ \A i, j \in Rows' : projects'[i] = projects'[j] => i = j
<1>1. /\ projects \in [Id -> Label] /\ \A i, j \in Rows : projects[i] = projects[j] => i = j
  BY DEF ProjectInv
<1>2. /\ projects' = [projects EXCEPT ![NextId] = name] /\ NextId \in Id /\ NextId \notin Rows
      /\ \A i \in Rows : projects[i] # name
  BY NextIdIsNew DEF Insert, Named
<1>3. projects' \in [Id -> Label] /\ projects'[NextId] = name
      /\ \A i \in Id : i # NextId => projects'[i] = projects[i]
  BY <1>1, <1>2
<1>4. \A i \in Rows : i \in Rows' /\ projects'[i] = projects[i]
  BY <1>2, <1>3 DEF Rows
<1>5. \A i \in Rows' \ Rows : i = NextId
  BY <1>2, <1>3 DEF Rows
<1>6. ASSUME NEW i \in Rows', NEW j \in Rows', projects'[i] = projects'[j]
      PROVE  i = j
  BY <1>1, <1>2, <1>3, <1>4, <1>5, <1>6
<1>. QED  BY <1>3, <1>4, <1>5, <1>6

(* What the importer adds takes nothing from the callers: the default stays   *)
(* the row it was.                                                          *)
LEMMA AddingKeepsDefault ==
    ASSUME DefaultInv, UNCHANGED <<default, chosen, lost>>,
           projects' \in [Id -> Label],
           \A i \in Rows : i \in Rows' /\ projects'[i] = projects[i],
           \A i, j \in Rows' : projects'[i] = projects'[j] => i = j,
           call' \in [Admin -> AdminCall],
           \A a \in Admin : \/ call'[a] = call[a]
                            \/ call[a].pc \in {"idle", "create"} /\ call'[a] = Idle
    PROVE  DefaultInv'
<1>1. ProjectInv'
  BY DEF DefaultInv, ProjectInv
<1>2. Clearing(default)' <=> Clearing(default)
  BY DEF Clearing, Idle
<1>3. \A a \in Admin :
          /\ call'[a].pc = "default" => call'[a].id \in Rows' /\ projects'[call'[a].id] = call'[a].name
          /\ call'[a].pc = "clear" => call'[a].id = default
  BY DEF DefaultInv, Idle
<1>4. ~lost /\ default # 0 /\ ~Clearing(default) => default \in Rows' /\ projects'[default] = chosen
  BY DEF DefaultInv
<1>. QED  BY <1>1, <1>2, <1>3, <1>4 DEF DefaultInv

LEMMA ImportKeepsDefault ==
    ASSUME DefaultInv, (\E i \in Importer : Import(i)) \/ Work \/ Export
    PROVE  DefaultInv'
<1>1. /\ default' = default /\ chosen' = chosen /\ lost' = lost /\ call' = call
      /\ projects' = projects \/ Insert("p")
  BY DEF Import, ImportBegin, ImportProjectCheck, ImportProjectInsert, ImportRun, ImportStep, ImportApproval, ImportEnd, Work, Export,
         ExportRuns, ExportSteps, ExportApprovals
<1>2. call \in [Admin -> AdminCall] /\ ProjectInv
  BY DEF DefaultInv, ProjectInv
<1>3. CASE projects' = projects
  <2>1. Rows' = Rows
    BY <1>3 DEF Rows
  <2>. QED  BY <1>1, <1>2, <1>3, <2>1, AddingKeepsDefault DEF ProjectInv
<1>4. CASE Insert("p")
  <2>1. "p" \in Label
    BY DEF Label
  <2>. QED  BY <1>1, <1>2, <1>4, <2>1, InsertIs, AddingKeepsDefault
<1>. QED  BY <1>1, <1>3, <1>4

(* One caller at a time: what it does is the only thing that is done.        *)
LEMMA AdminKeepsDefault ==
    ASSUME OneAdmin, DefaultInv, NEW a \in Admin,
           \/ \E name \in Name : CreateCheck(a, name)
           \/ \E i \in Id : DefaultGet(a, i) \/ DeleteGet(a, i)
           \/ CreateInsert(a) \/ DefaultSet(a)
           \/ DeleteRow(a) \/ DeleteRefused(a) \/ CompareDefault(a) \/ ClearDefault(a) \/ AdminDies(a)
    PROVE  DefaultInv'
<1>1. /\ \A b \in Admin : b = a
      /\ ProjectInv /\ call \in [Admin -> AdminCall] /\ call[a] \in AdminCall
      /\ projects \in [Id -> Label] /\ default \in 0..MaxId /\ chosen \in Label /\ lost \in BOOLEAN
      /\ \A i, j \in Rows : projects[i] = projects[j] => i = j
      /\ \A i \in Rows : i \in Id /\ projects[i] # "none"
  BY DEF OneAdmin, DefaultInv, ProjectInv, Rows
<1>2. MaxId \in Nat /\ Id \subseteq 0..MaxId /\ 0 \notin Id
  BY CatalogAssumption DEF Id
<1>3. \A to : Become(a, to) => call' = [call EXCEPT ![a] = to] /\ call'[a] = to
  BY <1>1 DEF Become
<1>4. \A i : Clearing(i) <=> (call[a].pc \in {"compare", "clear"} /\ call[a].id = i)
  BY <1>1 DEF Clearing
<1>5. \A i : Clearing(i)' <=> (call'[a].pc \in {"compare", "clear"} /\ call'[a].id = i)
  BY <1>1 DEF Clearing
<1>6. Idle \in AdminCall /\ Idle.pc = "idle"
  BY DEF AdminCall, Idle
<1>7. \A to \in AdminCall : Become(a, to) => call' \in [Admin -> AdminCall]
  BY <1>1 DEF Become
<1>8. projects' = projects => Rows' = Rows
  BY DEF Rows
<1>9. /\ call[a].pc = "default" => call[a].id \in Rows /\ projects[call[a].id] = call[a].name
      /\ call[a].pc = "clear" => call[a].id = default
      /\ ~lost /\ default # 0 /\ ~Clearing(default) => default \in Rows /\ projects[default] = chosen
  BY DEF DefaultInv
<1>10. ASSUME /\ projects' \in [Id -> Label] /\ default' \in 0..MaxId
              /\ chosen' \in Label /\ lost' \in BOOLEAN
              /\ call' \in [Admin -> AdminCall]
              /\ \A i, j \in Rows' : projects'[i] = projects'[j] => i = j
              /\ call'[a].pc = "default" => call'[a].id \in Rows' /\ projects'[call'[a].id] = call'[a].name
              /\ call'[a].pc = "clear" => call'[a].id = default'
              /\ ~lost' /\ default' # 0 /\ ~Clearing(default)' =>
                    default' \in Rows' /\ projects'[default'] = chosen'
       PROVE  DefaultInv'
  BY <1>1, <1>10 DEF DefaultInv, ProjectInv
<1>11. ASSUME NEW to \in AdminCall, Become(a, to), UNCHANGED <<projects, default, chosen, lost>>,
              \/ At(a, "idle") /\ to.pc \in {"create", "default", "delete"}
              \/ At(a, "compare") /\ to.pc = "clear" /\ call[a].id = default /\ to.id = default
              \/ At(a, "compare") /\ to = Idle /\ call[a].id # default,
              to.pc = "default" => to.id \in Rows /\ projects[to.id] = to.name
       PROVE  DefaultInv'
  <2>1. call'[a] = to /\ call' \in [Admin -> AdminCall] /\ Rows' = Rows
    BY <1>3, <1>7, <1>8, <1>11
  <2>2. ~Clearing(default)' => ~Clearing(default)
    BY <1>4, <1>5, <1>6, <1>11, <2>1 DEF At
  <2>3. to.pc = "clear" => to.id = default
    BY <1>6, <1>11
  <2>. QED  BY <1>1, <1>9, <1>10, <1>11, <2>1, <2>2, <2>3
<1>12. CASE \/ \E name \in Name : CreateCheck(a, name)
            \/ \E i \in Id : DefaultGet(a, i) \/ DeleteGet(a, i)
            \/ CompareDefault(a)
  <2>1. ASSUME NEW name \in Name, CreateCheck(a, name) PROVE DefaultInv'
    <3>1. [pc |-> "create", name |-> name] \in AdminCall
      BY DEF AdminCall
    <3>. QED  BY <1>11, <2>1, <3>1 DEF CreateCheck
  <2>2. ASSUME NEW i \in Id, DefaultGet(a, i) PROVE DefaultInv'
    <3>1. i \in Rows /\ projects[i] \in Label
      BY <1>1, <2>2 DEF DefaultGet
    <3>2. [pc |-> "default", id |-> i, name |-> projects[i]] \in AdminCall
      BY <3>1 DEF AdminCall
    <3>. QED  BY <1>11, <2>2, <3>1, <3>2 DEF DefaultGet
  <2>3. ASSUME NEW i \in Id, DeleteGet(a, i) PROVE DefaultInv'
    <3>1. [pc |-> "delete", id |-> i] \in AdminCall
      BY DEF AdminCall
    <3>. QED  BY <1>11, <2>3, <3>1 DEF DeleteGet
  <2>4. CASE CompareDefault(a)
    <3>1. CASE default = call[a].id
      <4>1. default \in Id
        BY <1>1, <2>4, <3>1 DEF CompareDefault, At, AdminCall, Idle
      <4>2. [pc |-> "clear", id |-> default] \in AdminCall
        BY <4>1 DEF AdminCall
      <4>. QED  BY <1>11, <2>4, <3>1, <4>2 DEF CompareDefault
    <3>2. CASE default # call[a].id
      BY <1>6, <1>11, <2>4, <3>2 DEF CompareDefault, Return
    <3>. QED  BY <3>1, <3>2
  <2>. QED  BY <1>12, <2>1, <2>2, <2>3, <2>4
<1>13. CASE CreateInsert(a)
  <2>1. call[a].pc = "create" /\ call[a].name \in Label /\ call[a].name # "none"
    BY <1>1, <1>13, CatalogAssumption DEF CreateInsert, At, AdminCall, Idle, Label
  <2>2. call' \in [Admin -> AdminCall] /\ call'[a] = Idle /\ UNCHANGED <<default, chosen, lost>>
    BY <1>3, <1>6, <1>7, <1>13 DEF CreateInsert, Return
  <2>3. \A b \in Admin : call[b].pc \in {"idle", "create"} /\ call'[b] = Idle
    BY <1>1, <2>1, <2>2
  <2>4. CASE Named(call[a].name) = {}
    <3>1. Insert(call[a].name)
      BY <1>13, <2>4 DEF CreateInsert
    <3>. QED  BY <1>1, <2>1, <2>2, <2>3, <3>1, InsertIs, AddingKeepsDefault
  <2>5. CASE Named(call[a].name) # {}
    <3>1. projects' = projects
      BY <1>13, <2>5 DEF CreateInsert
    <3>. QED  BY <1>1, <1>8, <2>2, <2>3, <3>1, AddingKeepsDefault
  <2>. QED  BY <2>4, <2>5
<1>14. CASE DefaultSet(a)
  <2>1. /\ call[a].pc = "default" /\ call[a].id \in Id /\ call[a].name \in Label
        /\ default' = call[a].id /\ chosen' = call[a].name /\ lost' = FALSE
        /\ projects' = projects /\ Become(a, Idle)
    BY <1>1, <1>14 DEF DefaultSet, At, AdminCall, Idle, Return
  <2>2. call' \in [Admin -> AdminCall] /\ call'[a] = Idle /\ Rows' = Rows
    BY <1>3, <1>6, <1>7, <1>8, <2>1
  <2>. QED  BY <1>1, <1>2, <1>6, <1>9, <1>10, <2>1, <2>2
<1>15. CASE DeleteRow(a)
  <2> DEFINE i == call[a].id
             to == [pc |-> "compare", id |-> i]
  <2>1. /\ i \in Id /\ projects' = [projects EXCEPT ![i] = "none"] /\ Become(a, to)
        /\ chosen' = IF projects[i] = chosen THEN "none" ELSE chosen
        /\ UNCHANGED <<default, lost>> /\ call[a].pc = "delete"
    BY <1>1, <1>15 DEF DeleteRow, At, AdminCall, Idle
  <2> HIDE DEF i
  <2>2. to \in AdminCall
    BY <2>1 DEF AdminCall
  <2>3. call' \in [Admin -> AdminCall] /\ call'[a].pc = "compare" /\ call'[a].id = i
    BY <1>3, <1>7, <2>1, <2>2
  <2>4. "none" \in Label
    BY DEF Label
  <2>5. projects' \in [Id -> Label] /\ Rows' = Rows \ {i}
        /\ \A j \in Id : j # i => projects'[j] = projects[j]
    BY <1>1, <2>1, <2>4 DEF Rows
  <2>6. ~lost /\ default # 0 /\ ~Clearing(default)' => default \in Rows' /\ projects'[default] = chosen'
    <3>. SUFFICES ASSUME ~lost, default # 0, ~Clearing(default)'
                  PROVE  default \in Rows' /\ projects'[default] = chosen'
      OBVIOUS
    <3>1. default # i
      BY <2>1, <2>3 DEF Clearing
    <3>2. default \in Rows /\ projects[default] = chosen
      BY <1>4, <1>9, <2>1
    <3>3. i \in Rows => projects[i] # chosen
      BY <1>1, <3>1, <3>2
    <3>4. projects[i] # chosen
      BY <1>1, <2>1, <3>2, <3>3 DEF Rows
    <3>. QED  BY <1>1, <2>1, <2>5, <3>1, <3>2, <3>4
  <2>. QED  BY <1>1, <1>10, <2>1, <2>3, <2>4, <2>5, <2>6
<1>16. CASE ClearDefault(a)
  <2>1. default' = 0 /\ UNCHANGED <<projects, chosen, lost>> /\ Become(a, Idle)
    BY <1>16 DEF ClearDefault, Return
  <2>2. call' \in [Admin -> AdminCall] /\ call'[a] = Idle /\ Rows' = Rows
    BY <1>3, <1>6, <1>7, <1>8, <2>1
  <2>. QED  BY <1>1, <1>2, <1>6, <1>10, <2>1, <2>2
<1>17. CASE AdminDies(a)
  <2>1. UNCHANGED <<projects, chosen, default>> /\ Become(a, Idle)
        /\ lost' = (lost \/ At(a, "compare") \/ At(a, "clear"))
    BY <1>17 DEF AdminDies, Return
  <2>2. call' \in [Admin -> AdminCall] /\ call'[a] = Idle /\ Rows' = Rows
    BY <1>3, <1>6, <1>7, <1>8, <2>1
  <2>3. lost' \in BOOLEAN /\ (~lost' => ~lost /\ ~Clearing(default))
    BY <1>1, <1>4, <2>1 DEF At
  <2>. QED  BY <1>1, <1>6, <1>9, <1>10, <2>1, <2>2, <2>3
<1>18. CASE DeleteRefused(a)
  <2>1. call[a].pc = "delete" /\ UNCHANGED <<projects, default, chosen, lost>> /\ Become(a, Idle)
    BY <1>18 DEF DeleteRefused, Return, At
  <2>2. call' \in [Admin -> AdminCall] /\ call'[a] = Idle /\ Rows' = Rows
    BY <1>3, <1>6, <1>7, <1>8, <2>1
  <2>. QED  BY <1>1, <1>4, <1>5, <1>6, <1>9, <1>10, <2>1, <2>2
<1>. QED  BY <1>12, <1>13, <1>14, <1>15, <1>16, <1>17, <1>18

LEMMA InitDefaultInv == Init => DefaultInv
<1>. SUFFICES ASSUME Init PROVE DefaultInv
  OBVIOUS
<1>1. /\ projects = [i \in Id |-> "none"] /\ default = 0 /\ chosen = "none" /\ lost = FALSE
      /\ call = [a \in Admin |-> Idle] /\ MaxId \in Nat
  BY CatalogAssumption DEF Init
<1>2. "none" \in Label /\ Idle \in AdminCall /\ Rows = {}
  BY <1>1 DEF Label, AdminCall, Rows
<1>3. ProjectInv
  <2>1. projects \in [Id -> Label] /\ chosen \in Label
    BY <1>1, <1>2
  <2>2. default \in 0..MaxId
    BY <1>1
  <2>3. lost \in BOOLEAN
    BY <1>1
  <2>4. call \in [Admin -> AdminCall]
    BY <1>1, <1>2
  <2>. QED  BY <1>2, <2>1, <2>2, <2>3, <2>4 DEF ProjectInv
<1>. QED  BY <1>1, <1>3 DEF DefaultInv, Idle

LEMMA NextKeepsDefaultInv ==
    ASSUME OneAdmin
    PROVE  DefaultInv /\ [Next]_vars => DefaultInv'
<1>. SUFFICES ASSUME DefaultInv, [Next]_vars PROVE DefaultInv'
  OBVIOUS
<1>1. CASE UNCHANGED vars
  <2>1. projects' = projects /\ default' = default /\ chosen' = chosen /\ lost' = lost /\ call' = call
    BY <1>1 DEF vars
  <2>2. Rows' = Rows
    BY <2>1 DEF Rows
  <2>3. Clearing(default)' <=> Clearing(default)
    BY <2>1 DEF Clearing
  <2>. QED  BY <2>1, <2>2, <2>3 DEF DefaultInv, ProjectInv
<1>2. CASE Admins
  BY <1>2, AdminKeepsDefault DEF Admins
<1>. QED  BY <1>1, <1>2, ImportKeepsDefault DEF Next

(* A default that is set is the project somebody chose, although ids are used *)
(* again and an importer adds projects, but for a deletion that died; with   *)
(* one caller of the project routes at a time.                              *)
THEOREM TheDefaultWasChosen ==
    ASSUME OneAdmin
    PROVE  Spec => []DefaultIsChosen
<1>1. DefaultInv => DefaultIsChosen
  <2>. SUFFICES ASSUME DefaultInv, default \in Rows, ~lost,
                       \A a \in Admin : call[a].pc \notin {"compare", "clear"}
                PROVE  projects[default] = chosen
    BY DEF DefaultIsChosen
  <2>1. default # 0
    BY CatalogAssumption DEF Rows, Id
  <2>. QED  BY <2>1 DEF DefaultInv, Clearing
<1>. QED  BY <1>1, InitDefaultInv, NextKeepsDefaultInv, PTL DEF Spec

--------------------------------------------------------------------------------
(* What an accepted verdict says of the settings. *)
LEMMA Accepted ==
    ASSUME NEW request, NEW world, Verdict(request, world) = "accepted",
           NEW s, s = Settings(request, world)
    PROVE  /\ OnePrompt(request) /\ world.loads
           /\ Found("project", request, world.projects)
           /\ ProviderRuns(s.provider, world.profiles)
           /\ LoopsAllowed(s.max_loops, world.limits)
           /\ TimeoutAllowed(s.timeout_seconds, world.limits)
           /\ WorkspaceFits(s, world)
BY DEF Verdict

(* What resolve_run_inputs accepts, the backstop of create_run_only accepts  *)
(* (run_service.py:181-210).                                                 *)
THEOREM AcceptedRunsCanBeCreated ==
    ASSUME NEW request, NEW world
    PROVE  AcceptedIsCreatable(request, world)
<1>1. SUFFICES ASSUME Verdict(request, world) = "accepted"
               PROVE  Creates(Settings(request, world), world)
      BY DEF AcceptedIsCreatable
<1> DEFINE s == Settings(request, world)
<1>2. /\ ProviderRuns(s.provider, world.profiles)
      /\ LoopsAllowed(s.max_loops, world.limits)
      /\ TimeoutAllowed(s.timeout_seconds, world.limits)
      BY <1>1, Accepted
<1>3. s.provider \in BuiltInTypes \/ Given(s.provider, world.profiles)
      BY <1>2 DEF ProviderRuns
<1> QED BY <1>2, <1>3 DEF Creates

(* A selected project keeps the config file and the environment out of a     *)
(* run: two worlds that differ in their settings only give the same verdict  *)
(* and the same run (run_service.py:130-132).                                *)
THEOREM ProjectsShieldTheirRuns ==
    ASSUME NEW request, NEW world, NEW other, NEW Field,
           world = [f \in Field |-> world[f]],
           {"projects", "default", "worktrees", "templates", "profiles", "directories",
            "allowed", "limits", "loads"} \subseteq Field
    PROVE  ProjectShields(request, world, other)
<1> DEFINE elsewhere == [world EXCEPT !.settings = other]
<1>1. /\ elsewhere.projects = world.projects /\ elsewhere.default = world.default
      /\ elsewhere.worktrees = world.worktrees /\ elsewhere.templates = world.templates
      /\ elsewhere.profiles = world.profiles /\ elsewhere.directories = world.directories
      /\ elsewhere.allowed = world.allowed /\ elsewhere.limits = world.limits
      /\ elsewhere.loads = world.loads
      OBVIOUS
<1> HIDE DEF elsewhere
<1>2. Selected(request, elsewhere) = Selected(request, world)
      BY <1>1 DEF Selected
<1>3. SUFFICES ASSUME IsProject(Selected(request, world))
               PROVE  /\ Settings(request, elsewhere) = Settings(request, world)
                      /\ Verdict(request, elsewhere) = Verdict(request, world)
      BY DEF ProjectShields, elsewhere
<1>4. Explicit(request, elsewhere) = Explicit(request, world)
      BY <1>2, <1>3 DEF Explicit
<1>5. Workspace(request, elsewhere) = Workspace(request, world)
      BY <1>1, <1>2, <1>3 DEF Workspace
<1>6. Settings(request, elsewhere) = Settings(request, world)
      BY <1>2, <1>4, <1>5 DEF Settings
<1>7. \A s : WorkspaceFits(s, elsewhere) <=> WorkspaceFits(s, world)
      BY <1>1 DEF WorkspaceFits
<1>8. /\ TemplateRenders(request, elsewhere) <=> TemplateRenders(request, world)
      /\ WorktreeOpen(request, elsewhere) <=> WorktreeOpen(request, world)
      BY <1>1 DEF TemplateRenders, WorktreeOpen
<1>9. Verdict(request, elsewhere) = Verdict(request, world)
      BY <1>1, <1>6, <1>7, <1>8 DEF Verdict
<1> QED BY <1>6, <1>9

--------------------------------------------------------------------------------
(* The approval a run asks for is its project's, unless waived by the        *)
(* request; limits and provider are the explicit ones where there are any.   *)
LEMMA RunSettingsKeys ==
    ASSUME NEW project, NEW explicit, NEW workspace, NEW waived \in BOOLEAN
    PROVE  LET s == RunSettings(project, explicit, workspace, waived) IN
           /\ DOMAIN BuiltInRun \subseteq DOMAIN s
           /\ \A k \in RunKeys \cap DOMAIN explicit : s[k] = explicit[k]
           /\ s.require_approval =
                 (~waived /\ RequiresApproval(project))
<1> DEFINE own == Overlay(BuiltInRun, Only(DOMAIN BuiltInRun, project))
           gate == [k \in {"require_approval"} |-> ~waived /\ RequiresApproval(project)]
           asked == Only(RunKeys, explicit)
           s == Overlay(Overlay(own, gate), asked)
           full(path) == Overlay(s, [workspace |-> path])
<1>1. DOMAIN BuiltInRun = {"provider", "max_loops", "timeout_seconds", "require_approval"}
      BY DEF BuiltInRun
<1>2. DOMAIN BuiltInRun \subseteq DOMAIN own
      BY DEF Overlay
<1>3. DOMAIN asked = RunKeys \cap DOMAIN explicit /\ \A k \in DOMAIN asked : asked[k] = explicit[k]
      BY DEF Only
<1>4. DOMAIN gate = {"require_approval"} /\ gate["require_approval"] = (~waived /\ RequiresApproval(project))
      OBVIOUS
<1> HIDE DEF own, gate, asked
<1>5. /\ DOMAIN Overlay(own, gate) = DOMAIN own \cup {"require_approval"}
      /\ Overlay(own, gate)["require_approval"] = gate["require_approval"]
      BY <1>4 DEF Overlay, Given
<1>6. "require_approval" \notin DOMAIN asked
      BY <1>3 DEF RunKeys
<1>7. /\ DOMAIN BuiltInRun \subseteq DOMAIN s
      /\ \A k \in RunKeys \cap DOMAIN explicit : s[k] = explicit[k]
      /\ s["require_approval"] = gate["require_approval"]
      BY <1>2, <1>3, <1>5, <1>6 DEF Overlay, Given
<1> HIDE DEF s
<1>8. ASSUME NEW path
      PROVE  /\ DOMAIN s \subseteq DOMAIN full(path)
             /\ \A k \in DOMAIN s \ {"workspace"} : full(path)[k] = s[k]
      BY DEF Overlay, Given
<1> HIDE DEF full
<1>9. "workspace" \notin RunKeys /\ "workspace" # "require_approval"
      BY DEF RunKeys
<1>10. RunSettings(project, explicit, workspace, waived) \in
          {s, full(workspace.path), full(project.repo_path)}
      BY DEF RunSettings, own, gate, asked, s, full
<1>11. RunKeys \subseteq DOMAIN s /\ "require_approval" \in DOMAIN s
      BY <1>1, <1>7 DEF RunKeys
<1> QED BY <1>1, <1>4, <1>7, <1>8, <1>9, <1>10, <1>11 DEF own

(* No config file and no variable opens the approval gate: only the request, *)
(* or a project whose row does not hold TRUE for it (projects.py:72-77,      *)
(* storage.py:3102).                                                        *)
THEOREM GateOpensByRequestOnly ==
    ASSUME NEW request, request.no_approval \in BOOLEAN, NEW world
    PROVE  GateOpenedByRequest(request, world)
<1> DEFINE project == Selected(request, world)
<1>1. Settings(request, world).require_approval = (~request.no_approval /\ RequiresApproval(project))
      BY RunSettingsKeys DEF Settings
<1>2. ~IsProject(project) => RequiresApproval(project)
      BY DEF RequiresApproval
<1> QED BY <1>1, <1>2 DEF GateOpenedByRequest

(* Valid settings are never refused over limits that come from them          *)
(* (settings.py:294-305 against run_service.py:199-210).                     *)
THEOREM ValidSettingsAreAccepted ==
    ASSUME NEW request, request.no_approval \in BOOLEAN, NEW world,
           {"max_loops", "timeout_seconds"} \subseteq DOMAIN world.settings
    PROVE  ValidConfigSuffices(request, world)
<1> DEFINE s == Settings(request, world)
           explicit == Explicit(request, world)
<1>1. SUFFICES ASSUME ValidSettings(world.settings),
                      world.limits.max_loops = world.settings.max_loops_hard_limit,
                      world.limits.timeout_seconds = world.settings.timeout_seconds_hard_limit,
                      ~IsProject(Selected(request, world)),
                      ~Given("max_loops", request), ~Given("timeout_seconds", request)
               PROVE  LoopsAllowed(s.max_loops, world.limits)
                      /\ TimeoutAllowed(s.timeout_seconds, world.limits)
      BY DEF ValidConfigSuffices
<1>2. \A k \in {"max_loops", "timeout_seconds"} : k \in DOMAIN explicit /\ explicit[k] = world.settings[k]
      BY <1>1 DEF Explicit, Overlay, Only, Given, RunKeys
<1>3. \A k \in {"max_loops", "timeout_seconds"} : s[k] = explicit[k]
      BY <1>2, RunSettingsKeys DEF Settings, RunKeys
<1>4. s.max_loops = world.settings.max_loops /\ s.timeout_seconds = world.settings.timeout_seconds
      BY <1>2, <1>3
<1> QED BY <1>1, <1>4 DEF ValidSettings, LoopsAllowed, TimeoutAllowed

--------------------------------------------------------------------------------
(* The settings of a run before its workspace: explicit over project over     *)
(* built-in, and the gate.                                                  *)
Core(project, explicit, waived) ==
    LET own == Overlay(BuiltInRun, Only(DOMAIN BuiltInRun, project)) IN
    [k \in DOMAIN BuiltInRun |->
        IF k \in RunKeys \cap DOMAIN explicit THEN explicit[k]
        ELSE IF k = "require_approval" THEN ~waived /\ RequiresApproval(project)
        ELSE own[k]]

(* resolve_run_settings adds the workspace to them, if there is one.         *)
LEMMA RunSettingsAre ==
    ASSUME NEW project, NEW explicit, NEW workspace, NEW waived
    PROVE  RunSettings(project, explicit, workspace, waived) =
              LET core == Core(project, explicit, waived) IN
              IF Given("path", workspace) THEN Overlay(core, [workspace |-> workspace.path])
              ELSE IF core.provider # "mock" /\ Given("repo_path", project)
              THEN Overlay(core, [workspace |-> project.repo_path])
              ELSE core
<1> DEFINE own == Overlay(BuiltInRun, Only(DOMAIN BuiltInRun, project))
           gate == [k \in {"require_approval"} |-> ~waived /\ RequiresApproval(project)]
           asked == Only(RunKeys, explicit)
           s == Overlay(Overlay(own, gate), asked)
           core == Core(project, explicit, waived)
<1>1. /\ DOMAIN BuiltInRun = {"provider", "max_loops", "timeout_seconds", "require_approval"}
      /\ RunKeys \subseteq DOMAIN BuiltInRun /\ "require_approval" \notin RunKeys
  BY DEF BuiltInRun, RunKeys
<1>2. DOMAIN own = DOMAIN BuiltInRun
  BY DEF Overlay, Only
<1>3. DOMAIN asked = RunKeys \cap DOMAIN explicit /\ \A k \in DOMAIN asked : asked[k] = explicit[k]
  BY DEF Only
<1>4. core = [k \in DOMAIN BuiltInRun |->
                 IF k \in DOMAIN asked THEN asked[k]
                 ELSE IF k = "require_approval" THEN ~waived /\ RequiresApproval(project)
                 ELSE own[k]]
  BY <1>3 DEF Core
<1>5. DOMAIN gate = {"require_approval"} /\ gate["require_approval"] = (~waived /\ RequiresApproval(project))
  OBVIOUS
<1> HIDE DEF own, gate, asked
<1>6. Overlay(own, gate) = [k \in DOMAIN BuiltInRun |->
                               IF k = "require_approval" THEN gate["require_approval"] ELSE own[k]]
  BY <1>1, <1>2, <1>5 DEF Overlay, Given
<1>7. s = [k \in DOMAIN BuiltInRun |->
              IF k \in DOMAIN asked THEN asked[k]
              ELSE IF k = "require_approval" THEN gate["require_approval"] ELSE own[k]]
  BY <1>1, <1>3, <1>6 DEF Overlay, Given
<1>8. s = core
  BY <1>4, <1>5, <1>7
<1>. QED  BY <1>8 DEF RunSettings, own, gate, asked

(* What an answer is made of can be asked for: the same project, the same     *)
(* settings in so many words give the same run (run_service.py:120-178).    *)
THEOREM NothingIsResolvedTwice ==
    ASSUME NEW request, NEW world
    PROVE  Stable(request, world)
<1> DEFINE s == Settings(request, world)
           again == AskFor(s, request)
           project == Selected(request, world)
           core == Core(project, Explicit(request, world), request.no_approval)
           place == Workspace(request, world)
<1>1. SUFFICES ASSUME Verdict(request, world) = "accepted"
               PROVE  Verdict(again, world) = "accepted" /\ Settings(again, world) = s
  BY DEF Stable
<1>2. DOMAIN BuiltInRun = {"provider", "max_loops", "timeout_seconds", "require_approval"}
      /\ RunKeys = {"provider", "max_loops", "timeout_seconds"}
  BY DEF BuiltInRun, RunKeys
<1>3. DOMAIN core = DOMAIN BuiltInRun /\ core = [k \in DOMAIN BuiltInRun |-> core[k]]
  BY DEF Core
<1>4. s = IF Given("path", place) THEN Overlay(core, [workspace |-> place.path])
          ELSE IF core.provider # "mock" /\ Given("repo_path", project)
          THEN Overlay(core, [workspace |-> project.repo_path])
          ELSE core
  BY RunSettingsAre DEF Settings
<1>5. core.require_approval =
         (~request.no_approval /\ RequiresApproval(project))
  BY <1>2 DEF Core
<1> HIDE DEF core, s, place
<1>6. /\ DOMAIN s = DOMAIN BuiltInRun \cup (IF Given("workspace", s) THEN {"workspace"} ELSE {})
      /\ \A k \in DOMAIN BuiltInRun : s[k] = core[k]
  BY <1>2, <1>3, <1>4 DEF Overlay, Given
<1>7. /\ DOMAIN again = (DOMAIN s \ {"require_approval"}) \cup ({"project"} \cap DOMAIN request)
                           \cup {"prompt", "no_approval"}
      /\ \A k \in DOMAIN s \ {"require_approval"} : again[k] = s[k]
      /\ Given("project", request) => again["project"] = request["project"]
      /\ again["no_approval"] = ~s["require_approval"]
  BY <1>2, <1>6 DEF AskFor, Overlay, Without, Only, Given
<1> HIDE DEF again
<1>8. Selected(again, world) = project
  BY <1>2, <1>6, <1>7 DEF Selected, Given
<1>9. RunKeys \subseteq DOMAIN Explicit(again, world)
      /\ \A k \in RunKeys : Explicit(again, world)[k] = core[k]
  BY <1>2, <1>6, <1>7, <1>8 DEF Explicit, Overlay, Only, Given
<1>10. Core(project, Explicit(again, world), again.no_approval) = core
  <2> DEFINE own == Overlay(BuiltInRun, Only(DOMAIN BuiltInRun, project))
             core2 == Core(project, Explicit(again, world), again.no_approval)
  <2>1. core2 = [k \in DOMAIN BuiltInRun |-> core2[k]]
    BY DEF Core
  <2>2. \A k \in RunKeys : core2[k] = core[k]
    BY <1>2, <1>9 DEF Core
  <2>3. core2["require_approval"] = (~again.no_approval /\ RequiresApproval(project))
    BY <1>2 DEF Core
  <2>4. core2["require_approval"] = core["require_approval"]
    BY <1>2, <1>5, <1>6, <1>7, <2>3
  <2> HIDE DEF core2
  <2>5. \A k \in DOMAIN BuiltInRun : core2[k] = core[k]
    BY <1>2, <2>2, <2>4
  <2>6. core2 = core
    BY <1>3, <2>1, <2>5
  <2>. QED  BY <2>6 DEF core2
<1>11. /\ Given("workspace", s) => Workspace(again, world) = [path |-> s.workspace]
       /\ ~Given("workspace", s) => Workspace(again, world) = Nothing
  <2>1. ~Given("worktree", again)
    BY <1>2, <1>6, <1>7 DEF Given
  <2>2. CASE Given("workspace", s)
    BY <1>2, <1>6, <1>7, <2>2 DEF Workspace, Given
  <2>3. CASE ~Given("workspace", s)
    <3>1. ~Given("workspace", again)
      BY <1>2, <1>6, <1>7, <2>3 DEF Given
    <3>2. ~Given("path", place)
      BY <1>4, <2>3 DEF Overlay, Given
    <3>3. ~(~IsProject(project) /\ Given("workspace", world.settings))
      BY <3>2 DEF place, Workspace, Given
    <3>. QED  BY <1>8, <2>1, <2>3, <3>1, <3>3 DEF Workspace
  <2>. QED  BY <2>2, <2>3
<1>12. Settings(again, world) = s
  <2>1. Settings(again, world) =
          IF Given("path", Workspace(again, world))
          THEN Overlay(core, [workspace |-> Workspace(again, world).path])
          ELSE IF core.provider # "mock" /\ Given("repo_path", project)
          THEN Overlay(core, [workspace |-> project.repo_path])
          ELSE core
    BY <1>8, <1>10, RunSettingsAre DEF Settings
  <2>2. CASE Given("workspace", s)
    <3>1. Settings(again, world) = Overlay(core, [workspace |-> s.workspace])
      BY <1>11, <2>1, <2>2 DEF Given
    <3>2. "workspace" \notin DOMAIN core
      BY <1>2, <1>3
    <3>3. PICK w : s = Overlay(core, [workspace |-> w])
      BY <1>4, <2>2, <3>2 DEF Given
    <3>4. s.workspace = w
      BY <3>3 DEF Overlay, Given
    <3>. QED  BY <3>1, <3>3, <3>4
  <2>3. CASE ~Given("workspace", s)
    <3>1. ~Given("path", Workspace(again, world))
      BY <1>11, <2>3 DEF Given, Nothing
    <3>2. s = core /\ ~(core.provider # "mock" /\ Given("repo_path", project))
      BY <1>4, <2>3 DEF Overlay, Given
    <3>. QED  BY <2>1, <3>1, <3>2
  <2>. QED  BY <2>2, <2>3
<1>13. Verdict(again, world) = "accepted"
  <2>1. /\ world.loads /\ Found("project", request, world.projects)
        /\ ProviderRuns(s.provider, world.profiles)
        /\ LoopsAllowed(s.max_loops, world.limits)
        /\ TimeoutAllowed(s.timeout_seconds, world.limits)
        /\ WorkspaceFits(s, world)
    BY <1>1, Accepted DEF s
  <2>2. Given("prompt", again) /\ ~Given("template", again) /\ ~Given("worktree", again)
    BY <1>2, <1>6, <1>7 DEF Given
  <2>3. Given("project", again) => Given("project", request) /\ again["project"] = request["project"]
    BY <1>2, <1>6, <1>7 DEF Given
  <2>. QED  BY <1>12, <2>1, <2>2, <2>3 DEF Verdict, OnePrompt, Found, WorktreeOpen, TemplateRenders
<1>. QED  BY <1>12, <1>13

(* A recovery's run can be created wherever its source could.                *)
THEOREM RecoveriesCanBeCreated ==
    ASSUME NEW run, {"provider", "max_loops", "timeout_seconds"} \subseteq DOMAIN run, NEW world
    PROVE  LikeIsCreatable(run, world)
<1>1. /\ Like(run).provider = run.provider /\ Like(run).max_loops = run.max_loops
      /\ Like(run).timeout_seconds = run.timeout_seconds
  BY DEF Like, Overlay, Given
<1>. QED  BY <1>1 DEF LikeIsCreatable, Creates
================================================================================
