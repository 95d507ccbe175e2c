-------------------------- MODULE ApplicationProofs --------------------------
(***************************************************************************)
(* LeadStore and Application for any URLs, handles, leads and number of    *)
(* launches.                                                               *)
(*                                                                         *)
(* The store's invariants are inductive.  Of the program, LeadsMatchRows   *)
(* is; the two about the output file need what the exporter was given      *)
(* (SnapshotTaken) and how far the file may be trusted (FileUntouched).    *)
(***************************************************************************)
EXTENDS Application, FiniteSetTheorems, TLAPS

StoreInv == StoreTypeOK /\ RowHandlesAccepted /\ MarkedRowsHaveReason /\ MarkIsOfText

(* While the file is written, the exporter holds every collected lead, and *)
(* nothing else unless it reads the table.                                 *)
SnapshotTaken ==
    phase = "writing" =>
        /\ Collected \subseteq snapshot
        /\ format # "xlsx" => snapshot = Collected

(* The output file is that of the former launch until an exporter that     *)
(* writes in place has opened it.                                          *)
FileUntouched ==
    \/ phase \in {"running", "exporting"}
    \/ phase = "writing" /\ format \notin {"csv", "json"}
    => former = <<table, complete>>

AppInv ==
    /\ StoreInv /\ AppTypeOK /\ LeadsMatchRows
    /\ SnapshotTaken /\ FileUntouched /\ SuccessExportsAll /\ FailureKeepsFile

-----------------------------------------------------------------------------
(* Both ways to write a row give a row. *)
LEMMA WrittenRow ==
    ASSUME NEW l \in Leads
    PROVE  /\ InsertedRow(l) \in Row
           /\ \A row \in Row : UpdatedRow(row, l) \in Row
BY LeadsAssumption DEF LeadShape, InsertedRow, UpdatedRow, Row, Texts, Reasons, IsCIS,
   NewUnlessBlank, Judged

(* What SaveLead leaves in the table. *)
LEMMA SavedRow ==
    ASSUME StoreTypeOK, NEW u \in URLs, NEW l \in Leads, SaveLead(u, l)
    PROVE  /\ \A v \in URLs \ {u} :
                 rows'[v] = rows[v] /\ accepted'[v] = accepted[v] /\ marked'[v] = marked[v]
           /\ \/ rows[u] = NoRow /\ rows'[u] = InsertedRow(l)
              \/ rows[u] # NoRow /\ rows[u] \in Row /\ rows'[u] = UpdatedRow(rows[u], l)
           /\ rows'[u] \in Row /\ rows'[u] # NoRow
           /\ accepted'[u] = accepted[u] \cup l.accepted
           /\ marked'[u] = marked[u] \cup IF l.mx THEN {l.text} ELSE {}
           /\ rows' \in [URLs -> Row \cup {NoRow}]
<1>1. rows'[u] = IF rows[u] = NoRow THEN InsertedRow(l) ELSE UpdatedRow(rows[u], l)
    BY DEF SaveLead, StoreTypeOK
<1>2. rows[u] \in Row \cup {NoRow}
    BY DEF StoreTypeOK
<1>3. rows'[u] \in Row /\ rows'[u] # NoRow
    BY <1>1, <1>2, WrittenRow, NoRowAssumption
<1>4. rows' \in [URLs -> Row \cup {NoRow}]
    BY <1>1, <1>3 DEF SaveLead, StoreTypeOK
<1> QED
    BY <1>1, <1>2, <1>3, <1>4 DEF SaveLead, StoreTypeOK

(* Every save keeps the store's invariants. *)
LEMMA SaveKeepsStore ==
    ASSUME StoreInv, NEW u \in URLs, NEW l \in Leads, SaveLead(u, l)
    PROVE  StoreInv'
<1> USE DEF StoreInv
<1>1. l.accepted \subseteq Handles /\ l.mx \in BOOLEAN /\ (l.mx => l.text # Blank)
    BY LeadsAssumption DEF LeadShape
<1>2. StoreTypeOK'
  <2>1. accepted' \in [URLs -> SUBSET Handles]
    BY <1>1 DEF StoreTypeOK, SaveLead
  <2>2. l.text \in Texts
    BY DEF Texts
  <2>3. marked' \in [URLs -> SUBSET Texts]
    BY <2>2 DEF StoreTypeOK, SaveLead
  <2> QED
    BY <2>1, <2>3, SavedRow DEF StoreTypeOK
<1>3. ASSUME NEW v \in URLs \ {u}, rows'[v] # NoRow
      PROVE  /\ rows'[v].good # {} => rows'[v].handles = rows'[v].good
             /\ rows'[v].handles \cup rows'[v].good \subseteq accepted'[v]
             /\ rows'[v].isCIS => rows'[v].reason # Blank
             /\ rows'[v].mx => rows'[v].text \in marked'[v]
    BY <1>3, SavedRow DEF RowHandlesAccepted, MarkedRowsHaveReason, MarkIsOfText, SavedURLs
<1>4. /\ rows'[u].good # {} => rows'[u].handles = rows'[u].good
      /\ rows'[u].handles \cup rows'[u].good \subseteq accepted'[u]
      /\ rows'[u].isCIS => rows'[u].reason # Blank
      /\ rows'[u].mx => rows'[u].text \in marked'[u]
  <2>0. /\ accepted'[u] = accepted[u] \cup l.accepted
        /\ l.mx => l.text \in marked'[u]
        /\ rows'[u].mx \in BOOLEAN /\ rows'[u].isCIS \in BOOLEAN
    BY <1>1, SavedRow DEF Row
  <2>1. CASE rows[u] = NoRow /\ rows'[u] = InsertedRow(l)
    <3>1. /\ rows'[u].handles = l.accepted /\ rows'[u].good = l.accepted
          /\ rows'[u].isCIS = (l.reason # Blank) /\ rows'[u].reason = l.reason
          /\ rows'[u].mx = l.mx /\ rows'[u].text = l.text
      BY <2>1 DEF InsertedRow, IsCIS
    <3> QED
      BY <1>1, <2>0, <3>1
  <2>2. CASE rows[u] # NoRow /\ rows'[u] = UpdatedRow(rows[u], l)
    <3>1. /\ rows[u].good # {} => rows[u].handles = rows[u].good
          /\ rows[u].handles \cup rows[u].good \subseteq accepted[u]
      BY <2>2 DEF RowHandlesAccepted, SavedURLs
    <3>2. /\ rows'[u].handles \in {l.accepted, rows[u].handles}
          /\ rows'[u].good \in {l.accepted, rows[u].good}
          /\ rows'[u].isCIS = (l.reason # Blank)
          /\ l.reason # Blank => rows'[u].reason = l.reason
          /\ rows'[u].mx = l.mx
          /\ l.text # Blank => rows'[u].text = l.text
      BY <2>2 DEF UpdatedRow, NewUnlessBlank, IsCIS
    <3>3. rows'[u].good # {} => rows'[u].handles = rows'[u].good
      <4>1. CASE l.accepted = {}
        <5>1. rows'[u].handles = rows[u].handles
          BY <2>2, <4>1 DEF UpdatedRow, NewUnlessBlank
        <5> QED
          BY <3>1, <3>2, <4>1, <5>1
      <4>2. CASE l.accepted # {}
        <5>1. rows'[u].handles = l.accepted /\ rows'[u].good = l.accepted
          BY <2>2, <4>2 DEF UpdatedRow, NewUnlessBlank, Judged
        <5> QED
          BY <5>1
      <4> QED
        BY <4>1, <4>2
    <3> QED
      BY <1>1, <2>0, <3>1, <3>2, <3>3
  <2> QED
    BY <2>1, <2>2, SavedRow
<1> QED
    BY <1>2, <1>3, <1>4 DEF RowHandlesAccepted, MarkedRowsHaveReason, MarkIsOfText, SavedURLs

(* A step that leaves the store's variables alone keeps its invariants. *)
LEMMA StoreUntouched ==
    ASSUME StoreInv, UNCHANGED storeVars
    PROVE  StoreInv'
BY DEF StoreInv, storeVars, StoreTypeOK, RowHandlesAccepted, MarkedRowsHaveReason,
   MarkIsOfText, SavedURLs

(* Whatever the program does, the store's invariants stay. *)
LEMMA StoreStep ==
    ASSUME StoreInv, [AppNext]_appVars
    PROVE  StoreInv'
<1>1. ASSUME NEW u \in URLs, NEW l \in Leads, Save(u, l)
      PROVE  StoreInv'
    BY <1>1, SaveKeepsStore DEF Save
<1>2. ASSUME UNCHANGED storeVars
      PROVE  StoreInv'
    BY <1>2, StoreUntouched
<1> QED
    BY <1>1, <1>2 DEF AppNext, appVars, Launch, GiveUp, Collect, DropSaved, RunReturns,
       ReadRows, CreateFile, RefuseExport, StopCSV, StopXLSX, WriteFile, Interrupt, Kill

-----------------------------------------------------------------------------
(* Collected leads are finitely many, so the log's count is a number. *)
LEMMA CollectedFinite == Cardinality(Collected) \in Nat
<1>1. Collected \subseteq URLs
    BY DEF Collected
<1>2. IsFiniteSet(Collected)
    BY <1>1, URLsAssumption, FS_Subset
<1> QED
    BY <1>2, FS_CardinalityType

(* Initially the invariant holds. *)
LEMMA AppInitInv == AppInit => AppInv
<1> SUFFICES ASSUME AppInit PROVE AppInv
    OBVIOUS
<1>1. StoreInv
    BY NoRowAssumption DEF AppInit, StoreInit, StoreInv, StoreTypeOK, RowHandlesAccepted,
       MarkedRowsHaveReason, MarkIsOfText, SavedURLs
<1>2. AppTypeOK
  <2>1. launched \in 0..Launches
    BY LaunchesAssumption DEF AppInit
  <2>2. former \in (SUBSET URLs) \X BOOLEAN
    BY DEF AppInit
  <2> QED
    BY <1>1, <2>1, <2>2 DEF AppInit, AppTypeOK, StoreInv, Formats
<1>3. LeadsMatchRows /\ SnapshotTaken /\ FileUntouched /\ SuccessExportsAll /\ FailureKeepsFile
    BY DEF AppInit, LeadsMatchRows, SnapshotTaken, FileUntouched, SuccessExportsAll,
       FailureKeepsFile, Collected
<1> QED
    BY <1>1, <1>2, <1>3 DEF AppInv

(* Every step keeps the variables in their sets. *)
LEMMA AppTypeStep ==
    ASSUME StoreInv, AppTypeOK, [AppNext]_appVars
    PROVE  AppTypeOK'
<1> USE DEF AppTypeOK
<1>1. StoreTypeOK'
    BY StoreStep DEF StoreInv
<1>2. CASE Launch
  <2>1. launched' \in 0..Launches
    BY <1>2, LaunchesAssumption DEF Launch
  <2>2. former' \in (SUBSET URLs) \X BOOLEAN
    BY <1>2 DEF Launch
  <2>3. format' \in Formats /\ phase' \in {"running", "failed"} /\ pending' \subseteq URLs
    BY <1>2 DEF Launch
  <2> QED
    BY <1>1, <1>2, <2>1, <2>2, <2>3 DEF Launch, fileVars
<1>3. ASSUME NEW u \in URLs, NEW l \in Leads, Save(u, l)
      PROVE  AppTypeOK'
    BY <1>1, <1>3 DEF Save, runVars, fileVars
<1>4. ASSUME NEW u \in URLs, GiveUp(u) \/ Collect(u) \/ DropSaved(u)
      PROVE  AppTypeOK'
    BY <1>1, <1>4 DEF GiveUp, Collect, DropSaved, runVars, fileVars
<1>5. CASE RunReturns
    BY <1>1, <1>5 DEF RunReturns, runVars, fileVars
<1>6. CASE ReadRows
    BY <1>1, <1>6 DEF ReadRows, SavedURLs, runVars, memVars, fileVars
<1>7. CASE CreateFile
    BY <1>1, <1>7 DEF CreateFile, Collected, runVars, memVars
<1>8. CASE RefuseExport
    BY <1>1, <1>8 DEF RefuseExport, runVars, memVars, fileVars
<1>9. CASE StopCSV \/ StopXLSX
    BY <1>1, <1>9 DEF StopCSV, StopXLSX, runVars, memVars, fileVars
<1>10. CASE WriteFile
    BY <1>1, <1>10, CollectedFinite DEF WriteFile, runVars, memVars
<1>11. CASE Interrupt
    BY <1>1, <1>11 DEF Interrupt, memVars, fileVars
<1>12. CASE Kill
    BY <1>1, <1>12 DEF Kill, runVars, memVars, fileVars
<1>13. CASE UNCHANGED appVars
    BY <1>1, <1>13 DEF appVars, runVars, memVars, fileVars
<1> QED
    BY <1>2, <1>3, <1>4, <1>5, <1>6, <1>7, <1>8, <1>9, <1>10, <1>11, <1>12, <1>13 DEF AppNext

(* A lead in memory and its row tell the same, in every step. *)
LEMMA LeadsMatchStep ==
    ASSUME StoreInv, AppTypeOK, LeadsMatchRows, [AppNext]_appVars
    PROVE  LeadsMatchRows'
<1>1. ASSUME NEW u \in URLs, NEW l \in Leads, Save(u, l)
      PROVE  LeadsMatchRows'
  <2>1. /\ SaveLead(u, l) /\ leads'[u] = l
        /\ \A v \in URLs \ {u} : leads'[v] = leads[v]
    BY <1>1 DEF Save, AppTypeOK
  <2>2. ASSUME NEW v \in URLs \ {u}, leads'[v] # NoRow
        PROVE  /\ rows'[v] # NoRow
               /\ leads'[v].text # Blank => rows'[v].text = leads'[v].text
               /\ leads'[v].accepted # {} => rows'[v].handles = leads'[v].accepted
               /\ rows'[v].isCIS = (leads'[v].reason # Blank)
               /\ rows'[v].mx = leads'[v].mx
    BY <2>1, <2>2, SavedRow DEF LeadsMatchRows, Collected, SavedURLs, IsCIS, StoreInv
  <2>3. /\ rows'[u] # NoRow
        /\ l.text # Blank => rows'[u].text = l.text
        /\ l.accepted # {} => rows'[u].handles = l.accepted
        /\ rows'[u].isCIS = (l.reason # Blank)
        /\ rows'[u].mx = l.mx
    <3>1. CASE rows'[u] = InsertedRow(l)
      BY <2>1, <3>1, SavedRow DEF InsertedRow, IsCIS, StoreInv
    <3>2. CASE rows'[u] = UpdatedRow(rows[u], l)
      BY <2>1, <3>2, SavedRow DEF UpdatedRow, NewUnlessBlank, IsCIS, StoreInv
    <3> QED
      BY <2>1, <3>1, <3>2, SavedRow DEF StoreInv
  <2> QED
    BY <2>1, <2>2, <2>3 DEF LeadsMatchRows, Collected, SavedURLs, IsCIS
<1>2. ASSUME UNCHANGED rows, \A u \in URLs : leads'[u] \in {leads[u], NoRow}
      PROVE  LeadsMatchRows'
    BY <1>2 DEF LeadsMatchRows, Collected, SavedURLs, IsCIS
<1>3. ASSUME UNCHANGED storeVars, UNCHANGED leads
      PROVE  LeadsMatchRows'
    BY <1>2, <1>3 DEF storeVars
<1>4. CASE Launch
    BY <1>2, <1>4 DEF Launch, storeVars
<1>5. ASSUME NEW u \in URLs, DropSaved(u)
      PROVE  LeadsMatchRows'
    BY <1>2, <1>5 DEF DropSaved, storeVars, AppTypeOK
<1> QED
    BY <1>1, <1>3, <1>4, <1>5 DEF AppNext, appVars, GiveUp, Collect, RunReturns, memVars,
       ReadRows, CreateFile, RefuseExport, StopCSV, StopXLSX, WriteFile, Interrupt, Kill

(* What the exporter holds, the file shows and the log says fit together. *)
LEMMA ExportStep ==
    ASSUME AppInv, [AppNext]_appVars
    PROVE  (SnapshotTaken /\ FileUntouched /\ SuccessExportsAll /\ FailureKeepsFile)'
<1> USE DEF SnapshotTaken, FileUntouched, SuccessExportsAll, FailureKeepsFile, AppInv, AppTypeOK
<1>1. Collected \subseteq SavedURLs
    BY DEF LeadsMatchRows
<1>2. CASE Launch
    BY <1>2 DEF Launch, fileVars
<1>3. ASSUME NEW u \in URLs, NEW l \in Leads, Save(u, l)
      PROVE  (SnapshotTaken /\ FileUntouched /\ SuccessExportsAll /\ FailureKeepsFile)'
    BY <1>3 DEF Save, runVars, fileVars
<1>4. ASSUME NEW u \in URLs, GiveUp(u) \/ Collect(u) \/ DropSaved(u)
      PROVE  (SnapshotTaken /\ FileUntouched /\ SuccessExportsAll /\ FailureKeepsFile)'
    BY <1>4 DEF GiveUp, Collect, DropSaved, runVars, fileVars
<1>5. CASE RunReturns
    BY <1>5 DEF RunReturns, runVars, fileVars
<1>6. CASE ReadRows
    BY <1>1, <1>6 DEF ReadRows, runVars, memVars, fileVars, Collected
<1>7. CASE CreateFile
    BY <1>7 DEF CreateFile, runVars, memVars, Collected
<1>8. CASE RefuseExport
    BY <1>8 DEF RefuseExport, runVars, memVars, fileVars
<1>9. CASE StopCSV \/ StopXLSX
    BY <1>9 DEF StopCSV, StopXLSX, runVars, memVars, fileVars
<1>10. CASE WriteFile
    BY <1>10 DEF WriteFile, runVars, memVars, Collected
<1>11. CASE Interrupt
    BY <1>11 DEF Interrupt, memVars, fileVars, Collected
<1>12. CASE Kill
    BY <1>12 DEF Kill, runVars, memVars, fileVars
<1>13. CASE UNCHANGED appVars
    BY <1>13 DEF appVars, runVars, memVars, fileVars, Collected
<1> QED
    BY <1>2, <1>3, <1>4, <1>5, <1>6, <1>7, <1>8, <1>9, <1>10, <1>11, <1>12, <1>13 DEF AppNext

-----------------------------------------------------------------------------
(* The inductive invariant of the application and its store. *)
THEOREM AppInvHolds == AppSpec => []AppInv
<1>1. AppInv /\ [AppNext]_appVars => AppInv'
    BY StoreStep, AppTypeStep, LeadsMatchStep, ExportStep DEF AppInv
<1> QED
    BY AppInitInv, <1>1, PTL DEF AppSpec

(* Type correctness of store, program and file. *)
THEOREM AppTypeCorrect == AppSpec => []AppTypeOK
<1>1. AppInv => AppTypeOK
    BY DEF AppInv
<1> QED
    BY AppInvHolds, <1>1, PTL

(* No handle stands in a row that no validation of the page has accepted.   *)
THEOREM RowHandlesAcceptedHolds == AppSpec => []RowHandlesAccepted
<1>1. AppInv => RowHandlesAccepted
    BY DEF AppInv, StoreInv
<1> QED
    BY AppInvHolds, <1>1, PTL

(* A row marked as CIS has a reason, after any updates.                     *)
THEOREM MarkedRowsHaveReasonHolds == AppSpec => []MarkedRowsHaveReason
<1>1. AppInv => MarkedRowsHaveReason
    BY DEF AppInv, StoreInv
<1> QED
    BY AppInvHolds, <1>1, PTL

(* A row's mail mark is that of the addresses beside it.                    *)
THEOREM MarkIsOfTextHolds == AppSpec => []MarkIsOfText
<1>1. AppInv => MarkIsOfText
    BY DEF AppInv, StoreInv
<1> QED
    BY AppInvHolds, <1>1, PTL

(* Memory and store agree on every lead of the launch.                      *)
THEOREM LeadsMatchRowsHolds == AppSpec => []LeadsMatchRows
<1>1. AppInv => LeadsMatchRows
    BY DEF AppInv
<1> QED
    BY AppInvHolds, <1>1, PTL

(* Success means that every lead of the result is in a complete file.       *)
THEOREM SuccessExportsAllHolds == AppSpec => []SuccessExportsAll
<1>1. AppInv => SuccessExportsAll
    BY DEF AppInv
<1> QED
    BY AppInvHolds, <1>1, PTL

(* An error that is not CSV's leaves the former output file as it was.      *)
THEOREM FailureKeepsFileHolds == AppSpec => []FailureKeepsFile
<1>1. AppInv => FailureKeepsFile
    BY DEF AppInv
<1> QED
    BY AppInvHolds, <1>1, PTL

(* No step of any launch empties a row's text or handles, or deletes it.    *)
THEOREM RowsSurviveHolds == AppSpec => RowsSurvive
<1>1. ASSUME StoreInv, [AppNext]_appVars, NEW v \in SavedURLs
      PROVE  /\ rows'[v] # NoRow
             /\ rows[v].text # Blank => rows'[v].text # Blank
             /\ rows[v].handles # {} => rows'[v].handles # {}
  <2>1. ASSUME NEW u \in URLs, NEW l \in Leads, SaveLead(u, l)
        PROVE  /\ rows'[v] # NoRow
               /\ rows[v].text # Blank => rows'[v].text # Blank
               /\ rows[v].handles # {} => rows'[v].handles # {}
    <3>1. StoreTypeOK /\ v \in URLs /\ rows[v] # NoRow
      BY <1>1 DEF StoreInv, SavedURLs
    <3>2. CASE v # u
      BY <2>1, <3>1, <3>2, SavedRow
    <3>3. CASE v = u
      <4>1. rows'[u] = UpdatedRow(rows[u], l) /\ rows'[u] # NoRow
        BY <2>1, <3>1, <3>3, SavedRow
      <4> QED
        BY <3>3, <4>1 DEF UpdatedRow, NewUnlessBlank
    <3> QED
      BY <3>2, <3>3
  <2>2. CASE UNCHANGED storeVars
    BY <2>2 DEF storeVars, SavedURLs
  <2> QED
    BY <1>1, <2>1, <2>2 DEF AppNext, appVars, Launch, Save, GiveUp, Collect, DropSaved,
       RunReturns, ReadRows, CreateFile, RefuseExport, StopCSV, StopXLSX, WriteFile, Interrupt, Kill
<1>2. AppInv /\ [AppNext]_appVars =>
        [\A u \in SavedURLs :
            /\ rows'[u] # NoRow
            /\ rows[u].text # Blank => rows'[u].text # Blank
            /\ rows[u].handles # {} => rows'[u].handles # {}]_appVars
    BY <1>1 DEF AppInv
<1> QED
    BY AppInvHolds, <1>2, PTL DEF AppSpec, RowsSurvive
=============================================================================
