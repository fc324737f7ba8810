-------------------------- MODULE NoteSyncProofs --------------------------
(***************************************************************************)
(* Theorems about the note backup, for every number of outputs, page size, *)
(* number of concurrent scans and budget of the user.                      *)
(***************************************************************************)
EXTENDS NoteSync, FiniteSetTheorems, TLAPS

USE DEF Outputs, Below, Storages, AllModes

RequestOK ==
  \A s \in Scans : /\ pc[s] # "fetching" => answered[s] = {}
                   /\ got[s] \subseteq table

\* The strengthening under which the backups' safety is inductive.
SyncInv == TypeOK /\ BackupGapless /\ NeverBehind /\ RequestOK

-----------------------------------------------------------------------------
(* Facts about the operators.                                              *)

LEMMA CountAtLeastPrefix ==
  ASSUME NEW T \in SUBSET Outputs, NEW n \in Nat, Below(n) \subseteq T
  PROVE  Cardinality(T) \in 0..MaxOutputs /\ n <= Cardinality(T)
<1>1. /\ IsFiniteSet(0..(MaxOutputs - 1)) /\ Cardinality(0..(MaxOutputs - 1)) = MaxOutputs
      /\ IsFiniteSet(0..(n - 1)) /\ Cardinality(0..(n - 1)) = n
  <2>1. MaxOutputs \in Nat /\ 0 \in Int /\ MaxOutputs - 1 \in Int /\ n - 1 \in Int
    BY SizesAssumption
  <2>2. IsFiniteSet(0..(MaxOutputs - 1)) /\ IsFiniteSet(0..(n - 1))
    BY <2>1, FS_Interval
  <2>3. /\ Cardinality(0..(MaxOutputs - 1))
              = IF 0 > MaxOutputs - 1 THEN 0 ELSE MaxOutputs - 1 - 0 + 1
        /\ Cardinality(0..(n - 1)) = IF 0 > n - 1 THEN 0 ELSE n - 1 - 0 + 1
    BY <2>1, FS_Interval, Zenon
  <2>. QED  BY <2>1, <2>2, <2>3
<1>2. IsFiniteSet(T) /\ Cardinality(T) <= MaxOutputs
  <2>1. T \in SUBSET (0..(MaxOutputs - 1))
    OBVIOUS
  <2>2. IsFiniteSet(T) /\ Cardinality(T) <= Cardinality(0..(MaxOutputs - 1))
    BY <2>1, <1>1, FS_Subset, Zenon
  <2>. QED  BY <2>2, <1>1
<1>3. Cardinality(T) \in Nat
  BY <1>2, FS_CardinalityType
<1>4. Cardinality(Below(n)) <= Cardinality(T)
  BY <1>2, FS_Subset DEF Below
<1>. QED  BY <1>1, <1>2, <1>3, <1>4, SizesAssumption

LEMMA ExtendedIsGapless ==
  ASSUME table \subseteq Outputs, NEW b \in Backups, Gapless(b),
         NEW page \in SUBSET table, IsConsecutive(b, page)
  PROVE  Extended(b, page) \in Backups /\ Gapless(Extended(b, page))
<1>1. PICK k \in Nat : k = Cardinality(page)
  <2>1. page \in SUBSET Outputs /\ Below(0) \subseteq page
    BY DEF Below
  <2>. QED  BY <2>1, CountAtLeastPrefix
<1>2. page = b.offset..(b.offset + k - 1)
  BY <1>1 DEF IsConsecutive
<1>3. b.offset \in 0..MaxOutputs /\ b.outputs = 0..(b.offset - 1) /\ b.outputs \subseteq table
  BY DEF Backups, Gapless
<1>4. b.outputs \union page = 0..(b.offset + k - 1)
  BY <1>2, <1>3
<1>5. b.offset + k \in 0..MaxOutputs
  <2>1. CASE k = 0
    BY <2>1, <1>3
  <2>2. CASE k > 0
    <3>1. b.offset + k - 1 \in page
      BY <1>2, <1>3, <2>2
    <3>2. b.offset + k - 1 \in 0..(MaxOutputs - 1)
      BY <3>1
    <3>. QED  BY <3>2, <1>3, SizesAssumption
  <2>. QED  BY <2>1, <2>2
<1>6. Extended(b, page) = [outputs |-> b.outputs \union page, offset |-> b.offset + k]
  BY <1>1 DEF Extended
<1>7. b.outputs \union page \subseteq table
  BY <1>3
<1>. QED  BY <1>4, <1>5, <1>6, <1>7 DEF Backups, Gapless

LEMMA MergedIsGapless ==
  ASSUME NEW b \in Backups, NEW c \in Backups, Gapless(b), Gapless(c)
  PROVE  Merged(b, c) \in Backups /\ Gapless(Merged(b, c))
BY SizesAssumption DEF Merged, Backups, Gapless

LEMMA EmptyIsGapless == Empty \in Backups /\ Gapless(Empty)
BY SizesAssumption DEF Empty, Backups, Gapless

\* A backup stays gapless while the backend's table grows.
LEMMA GaplessKept ==
  ASSUME NEW b, Gapless(b), table \subseteq table'
  PROVE  b.outputs = Below(b.offset) /\ b.outputs \subseteq table'
BY DEF Gapless

LEMMA SyncInit == Init => SyncInv
<1>. SUFFICES ASSUME Init PROVE SyncInv
  OBVIOUS
<1>1. TypeOK
  BY SizesAssumption, EmptyIsGapless DEF Init, TypeOK, Places
<1>2. BackupGapless
  BY EmptyIsGapless DEF Init, BackupGapless
<1>3. NeverBehind /\ RequestOK
  BY DEF Init, NeverBehind, RequestOK
<1>. QED  BY <1>1, <1>2, <1>3 DEF SyncInv

-----------------------------------------------------------------------------
(* Each step keeps SyncInv.                                                *)

LEMMA InsertKeeps ==
  ASSUME SyncInv, NEW i \in Outputs, InsertOutput(i)
  PROVE  SyncInv'
<1>1. TypeOK'
  BY DEF SyncInv, TypeOK, InsertOutput, requestVars, userVars
<1>2. BackupGapless'
  BY DEF SyncInv, BackupGapless, Gapless, InsertOutput, requestVars
<1>3. NeverBehind' /\ RequestOK'
  BY DEF SyncInv, NeverBehind, IsBehind, RequestOK, InsertOutput, requestVars
<1>. QED  BY <1>1, <1>2, <1>3 DEF SyncInv

LEMMA QueryRowsKeeps ==
  ASSUME SyncInv, NEW s \in Scans, QueryRows(s)
  PROVE  SyncInv'
<1>. DEFINE page == {i \in table : base[s].offset <= i /\ i < base[s].offset + BatchSize}
<1>1. page \subseteq table /\ got' = [got EXCEPT ![s] = page] /\ page \subseteq Outputs
  BY DEF QueryRows, SyncInv, TypeOK
<1>. HIDE DEF page
<1>2. TypeOK'
  BY <1>1 DEF SyncInv, TypeOK, QueryRows, userVars
<1>3. BackupGapless'
  BY DEF SyncInv, BackupGapless, Gapless, QueryRows
<1>4. NeverBehind' /\ RequestOK'
  BY <1>1 DEF SyncInv, NeverBehind, IsBehind, RequestOK, TypeOK, QueryRows
<1>. QED  BY <1>2, <1>3, <1>4 DEF SyncInv

LEMMA QueryTotalKeeps ==
  ASSUME SyncInv, NEW s \in Scans, QueryTotal(s)
  PROVE  SyncInv'
<1>1. base[s].offset \in Nat /\ Below(base[s].offset) \subseteq table /\ table \subseteq Outputs
  BY DEF SyncInv, TypeOK, BackupGapless, Gapless, Backups
<1>2. Cardinality(table) \in 0..MaxOutputs /\ base[s].offset <= Cardinality(table)
  BY <1>1, CountAtLeastPrefix
<1>3. TypeOK'
  BY <1>2 DEF SyncInv, TypeOK, QueryTotal, userVars
<1>4. BackupGapless'
  BY DEF SyncInv, BackupGapless, Gapless, QueryTotal
<1>5. NeverBehind' /\ RequestOK'
  BY <1>1, <1>2, SizesAssumption DEF SyncInv, NeverBehind, IsBehind, RequestOK, TypeOK, QueryTotal
<1>. QED  BY <1>3, <1>4, <1>5 DEF SyncInv

\* A step that only sends a request from a gapless backup.
LEMMA ExportKeeps ==
  ASSUME SyncInv, NEW s \in Scans, NEW b \in Backups, Gapless(b), Export(s, b), pc[s] # "fetching",
         UNCHANGED <<table, store, answered, got, total, userVars>>,
         mode' \in [Scans -> Modes], seen' \in [Scans -> SUBSET Outputs], due' \in [Scans -> SUBSET Outputs]
  PROVE  SyncInv'
<1>1. TypeOK'
  BY DEF SyncInv, TypeOK, Export, userVars, Places
<1>2. BackupGapless'
  BY DEF SyncInv, BackupGapless, Gapless, Export, TypeOK
<1>3. NeverBehind' /\ RequestOK'
  BY DEF SyncInv, NeverBehind, IsBehind, RequestOK, TypeOK, Export
<1>. QED  BY <1>1, <1>2, <1>3 DEF SyncInv

LEMMA StartKeeps ==
  ASSUME SyncInv, NEW s \in Scans, NEW m \in Modes, Start(s, m)
  PROVE  SyncInv'
<1>. DEFINE b == IF m = "full" THEN Empty ELSE store[Local]
<1>1. b \in Backups /\ Gapless(b)
  BY EmptyIsGapless DEF SyncInv, TypeOK, BackupGapless
<1>2. Export(s, b) /\ pc[s] # "fetching"
  BY DEF Start
<1>3. /\ mode' \in [Scans -> Modes] /\ seen' \in [Scans -> SUBSET Outputs]
      /\ due' \in [Scans -> SUBSET Outputs]
  BY DEF Start, SyncInv, TypeOK
<1>4. UNCHANGED <<table, store, answered, got, total, userVars>>
  BY DEF Start
<1>. HIDE DEF b
<1>. QED  BY <1>1, <1>2, <1>3, <1>4, ExportKeeps

LEMMA SyncAgainKeeps ==
  ASSUME SyncInv, NEW s \in Scans, SyncAgain(s)
  PROVE  SyncInv'
<1>1. store[StorageOf(s)] \in Backups /\ Gapless(store[StorageOf(s)])
  BY DEF SyncInv, TypeOK, BackupGapless, StorageOf
<1>2. /\ mode' \in [Scans -> Modes] /\ seen' \in [Scans -> SUBSET Outputs]
      /\ due' \in [Scans -> SUBSET Outputs]
  BY DEF SyncAgain, SyncInv, TypeOK
<1>. QED  BY <1>1, <1>2, ExportKeeps DEF SyncAgain

\* A scan leaves its request or takes a step between two requests.
StepsTo(s, x) ==
  /\ x \in Places \ {"fetching"}
  /\ pc' = [pc EXCEPT ![s] = x]
  /\ RequestOver(s) \/ (pc[s] # "fetching" /\ UNCHANGED requestVars)

ScanMoves(s) ==
  /\ \A r \in Scans \ {s} : pc'[r] = pc[r]
  /\ pc'[s] # "fetching"
  /\ RequestOver(s) \/ (pc[s] # "fetching" /\ UNCHANGED requestVars)

RequestsKept == UNCHANGED <<pc, requestVars>>

Frame ==
  /\ UNCHANGED <<table, mode>>
  /\ seen' \in [Scans -> SUBSET Outputs] /\ due' \in [Scans -> SUBSET Outputs]
  /\ clears' \in 0..MaxClears /\ imports' \in 0..MaxImports

\* A write can only make less due.
LEMMA ExcuseShrinks ==
  ASSUME TypeOK, Excuse
  PROVE  /\ due' \in [Scans -> SUBSET Outputs]
         /\ \A s \in Scans : due'[s] \subseteq due[s]
<1>1. due \in [Scans -> SUBSET Outputs]
  BY DEF TypeOK
<1>. QED  BY <1>1 DEF Excuse

\* The user writes the shared storage, and seen stays.
LEMMA UserExcuses ==
  ASSUME TypeOK,
         ClearNotes \/ \E n \in 0..MaxOutputs, merge \in BOOLEAN : ImportNotes(n, merge)
  PROVE  /\ Excuse /\ UNCHANGED <<table, mode, pc, requestVars, seen>>
         /\ \A s \in Scans : store'[s] = store[s]
<1>1. Excuse /\ UNCHANGED <<table, mode, pc, requestVars, seen>>
  BY DEF ClearNotes, ImportNotes
<1>2. \E b : store' = [store EXCEPT ![Local] = b]
  BY Zenon DEF ClearNotes, ImportNotes
<1>. QED  BY <1>1, <1>2, ScansAssumption DEF TypeOK

\* A step that writes a gapless backup to one storage.
LEMMA StoreKeeps ==
  ASSUME SyncInv, Frame, NEW p \in Storages, NEW b \in Backups, Gapless(b),
         store' = [store EXCEPT ![p] = b],
         \/ \E s \in Scans, x \in Places : StepsTo(s, x)
         \/ UNCHANGED <<pc, requestVars>>
  PROVE  SyncInv'
<1>. USE DEF Frame
<1>0. pc' \in [Scans -> Places] /\ (RequestsKept \/ \E s \in Scans : ScanMoves(s))
  BY DEF SyncInv, TypeOK, StepsTo, ScanMoves, RequestsKept
<1>1. TypeOK'
  <2>1. store' \in [Storages -> Backups] /\ pc' \in [Scans -> Places]
    BY <1>0 DEF SyncInv, TypeOK
  <2>2. /\ base' \in [Scans -> Backups] /\ answered' \in [Scans -> SUBSET {"rows", "total"}]
        /\ got' \in [Scans -> SUBSET Outputs] /\ total' \in [Scans -> 0..MaxOutputs]
    BY <1>0, EmptyIsGapless, SizesAssumption DEF SyncInv, TypeOK, RequestOver, requestVars, ScanMoves, RequestsKept
  <2>. QED  BY <2>1, <2>2 DEF SyncInv, TypeOK
<1>2. BackupGapless'
  <2>1. \A q \in Storages : Gapless(store'[q])
    BY DEF SyncInv, BackupGapless, TypeOK
  <2>2. \A r \in Scans : Gapless(base'[r])
    BY <1>0, EmptyIsGapless DEF SyncInv, BackupGapless, TypeOK, RequestOver, requestVars, ScanMoves, RequestsKept
  <2>. QED  BY <2>1, <2>2 DEF BackupGapless, Gapless
<1>3. NeverBehind'
  BY <1>0 DEF SyncInv, NeverBehind, IsBehind, RequestOver, requestVars, ScanMoves, RequestsKept, TypeOK
<1>4. RequestOK'
  <2>1. \A r \in Scans : pc[r] # "fetching" => answered[r] = {}
    BY DEF SyncInv, RequestOK
  <2>2. \A r \in Scans : got[r] \subseteq table /\ got'[r] \subseteq got[r]
    BY <1>0 DEF SyncInv, RequestOK, RequestOver, requestVars, ScanMoves, RequestsKept, TypeOK
  <2>3. ASSUME NEW r \in Scans, pc'[r] # "fetching" PROVE answered'[r] = {}
    <3>1. CASE RequestsKept
      BY <2>1, <2>3, <3>1 DEF requestVars, RequestsKept
    <3>2. CASE ~RequestsKept
      <4>1. PICK q \in Scans : ScanMoves(q)
        BY <1>0, <3>2
      <4>2. CASE RequestOver(q)
        BY <2>1, <2>3, <4>1, <4>2 DEF ScanMoves, RequestOver, SyncInv, TypeOK
      <4>3. CASE pc[q] # "fetching" /\ UNCHANGED requestVars
        BY <2>1, <2>3, <4>1, <4>3 DEF ScanMoves, requestVars
      <4>. QED  BY <4>1, <4>2, <4>3 DEF ScanMoves
    <3>. QED  BY <3>1, <3>2
  <2>. QED  BY <2>2, <2>3 DEF RequestOK
<1>. QED  BY <1>1, <1>2, <1>3, <1>4 DEF SyncInv

LEMMA AfterPageIsPlace == \A s : AfterPage(s) \in Places \ {"fetching"}
BY DEF AfterPage, Places

LEMMA ReceiveKeeps ==
  ASSUME SyncInv, NEW s \in Scans, Receive(s)
  PROVE  SyncInv'
<1>1. Frame /\ RequestOver(s)
  BY DEF Frame, Receive, Excuse, userVars, SyncInv, TypeOK
<1>3. CASE IsAcceptable(base[s], got[s], total[s])
  <2>1. Extended(base[s], got[s]) \in Backups /\ Gapless(Extended(base[s], got[s]))
    <3>1. base[s] \in Backups /\ Gapless(base[s]) /\ got[s] \in SUBSET table /\ table \subseteq Outputs
      BY DEF SyncInv, TypeOK, BackupGapless, RequestOK
    <3>. QED  BY <3>1, <1>3, ExtendedIsGapless DEF IsAcceptable
  <2>2. StorageOf(s) \in Storages
    BY DEF StorageOf
  <2>3. /\ store' = [store EXCEPT ![StorageOf(s)] = Extended(base[s], got[s])]
        /\ StepsTo(s, AfterPage(s)) /\ AfterPage(s) \in Places
    BY <1>1, <1>3, AfterPageIsPlace DEF Receive, StepsTo
  <2>. QED  BY <1>1, <2>1, <2>2, <2>3, StoreKeeps
<1>4. CASE ~IsAcceptable(base[s], got[s], total[s])
  <2>1. store' = [store EXCEPT ![s] = Empty] /\ s \in Storages
    BY <1>4 DEF Receive, Failed
  <2>2. StepsTo(s, "failed") /\ "failed" \in Places
    BY <1>1, <1>4 DEF Receive, Failed, StepsTo, Places
  <2>. QED  BY <1>1, <2>1, <2>2, EmptyIsGapless, StoreKeeps
<1>. QED  BY <1>3, <1>4

LEMMA FailKeeps ==
  ASSUME SyncInv, NEW s \in Scans, Fail(s)
  PROVE  SyncInv'
<1>1. Frame
  BY DEF Frame, Fail, userVars, SyncInv, TypeOK
<1>2. store' = [store EXCEPT ![s] = Empty] /\ s \in Storages
  BY DEF Fail, Failed
<1>3. StepsTo(s, "failed") /\ "failed" \in Places
  BY DEF Fail, Failed, StepsTo, Places
<1>. QED  BY <1>1, <1>2, <1>3, EmptyIsGapless, StoreKeeps

LEMMA PublishKeeps ==
  ASSUME SyncInv, NEW s \in Scans, Publish(s)
  PROVE  SyncInv'
<1>1. Frame
  BY DEF Frame, Publish, Excuse, userVars, SyncInv, TypeOK
<1>2. store[s] \in Backups /\ Gapless(store[s]) /\ Local \in Storages
  BY DEF SyncInv, TypeOK, BackupGapless
<1>3. store' = [store EXCEPT ![Local] = store[s]] /\ StepsTo(s, "list") /\ "list" \in Places
  BY DEF Publish, StepsTo, Places
<1>. QED  BY <1>1, <1>2, <1>3, StoreKeeps

LEMMA ListKeeps ==
  ASSUME SyncInv, NEW s \in Scans, ListOwnedNotes(s)
  PROVE  SyncInv'
<1>1. seen' \in [Scans -> SUBSET Outputs]
  BY DEF ListOwnedNotes, SyncInv, TypeOK, Backups, StorageOf
<1>2. Frame
  BY <1>1 DEF Frame, ListOwnedNotes, userVars, SyncInv, TypeOK
<1>3. /\ store' = [store EXCEPT ![s] = Empty] /\ s \in Storages
      /\ StepsTo(s, "done") /\ "done" \in Places
  BY DEF ListOwnedNotes, StepsTo, Places
<1>. QED  BY <1>2, <1>3, EmptyIsGapless, StoreKeeps

LEMMA UserKeeps ==
  ASSUME SyncInv, ClearNotes \/ \E n \in 0..MaxOutputs, merge \in BOOLEAN : ImportNotes(n, merge)
  PROVE  SyncInv'
<1>1. UNCHANGED <<table, mode>> /\ UNCHANGED <<pc, requestVars>>
  BY DEF ClearNotes, ImportNotes
<1>2. Frame
  <2>1. seen' \in [Scans -> SUBSET Outputs] /\ due' \in [Scans -> SUBSET Outputs]
    BY UserExcuses, ExcuseShrinks DEF SyncInv, TypeOK
  <2>2. /\ clears \in 0..MaxClears /\ imports \in 0..MaxImports
        /\ MaxClears \in Nat /\ MaxImports \in Nat
    BY SizesAssumption DEF SyncInv, TypeOK
  <2>3. \/ clears' = clears + 1 /\ clears < MaxClears /\ imports' = imports
        \/ imports' = imports + 1 /\ imports < MaxImports /\ clears' = clears
    BY DEF ClearNotes, ImportNotes
  <2>. QED  BY <1>1, <2>1, <2>2, <2>3 DEF Frame
<1>3. \E b \in Backups : Gapless(b) /\ store' = [store EXCEPT ![Local] = b]
  <2>1. CASE ClearNotes
    BY <2>1, EmptyIsGapless DEF ClearNotes
  <2>2. ASSUME NEW n \in 0..MaxOutputs, NEW merge \in BOOLEAN, ImportNotes(n, merge)
        PROVE  \E b \in Backups : Gapless(b) /\ store' = [store EXCEPT ![Local] = b]
    <3>. DEFINE c == [outputs |-> Below(n), offset |-> n]
                d == IF merge THEN Merged(store[Local], c) ELSE c
    <3>1. c \in Backups /\ Gapless(c)
      BY <2>2 DEF ImportNotes, Backups, Gapless, SyncInv, TypeOK
    <3>2. store[Local] \in Backups /\ Gapless(store[Local])
      BY DEF SyncInv, TypeOK, BackupGapless
    <3>3. store' = [store EXCEPT ![Local] = d]
      BY <2>2 DEF ImportNotes, SyncInv, TypeOK
    <3>. HIDE DEF c
    <3>4. d \in Backups /\ Gapless(d)
      BY <3>1, <3>2, MergedIsGapless
    <3>. HIDE DEF d
    <3>. QED  BY <3>3, <3>4
  <2>. QED  BY <2>1, <2>2
<1>. QED  BY <1>1, <1>2, <1>3, StoreKeeps DEF Storages

LEMMA StutterKeeps == SyncInv /\ UNCHANGED vars => SyncInv'
BY DEF SyncInv, TypeOK, BackupGapless, Gapless, NeverBehind, IsBehind, RequestOK,
       vars, requestVars, userVars

LEMMA SyncStep == SyncInv /\ [Next]_vars => SyncInv'
<1>. SUFFICES ASSUME SyncInv, [Next]_vars PROVE SyncInv'
  OBVIOUS
<1>1. ASSUME NEW i \in Outputs, InsertOutput(i) PROVE SyncInv'
  BY <1>1, InsertKeeps
<1>2. ASSUME NEW s \in Scans, Continue(s) PROVE SyncInv'
  BY <1>2, QueryRowsKeeps, QueryTotalKeeps, ReceiveKeeps, SyncAgainKeeps, PublishKeeps, ListKeeps
     DEF Continue
<1>3. ASSUME NEW s \in Scans, Fail(s) PROVE SyncInv'
  BY <1>3, FailKeeps
<1>4. ASSUME NEW s \in Scans, NEW m \in Modes, Start(s, m) PROVE SyncInv'
  BY <1>4, StartKeeps
<1>5. CASE ClearNotes \/ \E n \in 0..MaxOutputs, merge \in BOOLEAN : ImportNotes(n, merge)
  BY <1>5, UserKeeps
<1>6. CASE UNCHANGED vars
  BY <1>6, StutterKeeps
<1>. QED  BY <1>1, <1>2, <1>3, <1>4, <1>5, <1>6 DEF Next

LEMMA SyncInvariant == Spec => []SyncInv
BY SyncInit, SyncStep, PTL DEF Spec

\* Every variable stays in its domain, whatever the number of outputs and scans.
THEOREM TypeInvariant == Spec => []TypeOK
<1>1. SyncInv => TypeOK
  BY DEF SyncInv
<1>. QED  BY <1>1, SyncInvariant, PTL

\* Whatever scans and imports share the storage, no backup in it ever skips an
\* output: what is below a fetch offset is in the backup (syncNotes and importNotes).
THEOREM BackupsAreGapless == Spec => []BackupGapless
<1>1. SyncInv => BackupGapless
  BY DEF SyncInv
<1>. QED  BY <1>1, SyncInvariant, PTL

\* The total that getOutputRange reports is never behind the offset that was asked
\* for: the first error of syncNotes tells of a backend that lost rows.
THEOREM TotalIsNeverBehind == Spec => []NeverBehind
<1>1. SyncInv => NeverBehind
  BY DEF SyncInv
<1>. QED  BY <1>1, SyncInvariant, PTL

-----------------------------------------------------------------------------
(* A full scan covers what was due when it started.                        *)

\* The outputs that were due are in the page asked for, the total counts them, and
\* they are in the scan's own backup once it has asked for all there is.
CoverOf(s) ==
  /\ \A i \in due[s] : 0..i \subseteq table
  /\ "rows" \in answered[s] => \A i \in due[s] :
       base[s].offset <= i /\ i < base[s].offset + BatchSize => i \in got[s]
  /\ "total" \in answered[s] => \A i \in due[s] : i < total[s]
  /\ pc[s] = "publish" => mode[s] = "full"
  /\ mode[s] = "full" /\ pc[s] \in {"publish", "list"} => due[s] \subseteq store[s].outputs
  /\ mode[s] = "full" /\ pc[s] = "done" => due[s] \subseteq seen[s]

CoverInv == \A s \in Scans : CoverOf(s)

\* What the steps of others leave alone.
Same(s) ==
  /\ pc'[s] = pc[s] /\ mode'[s] = mode[s] /\ base'[s] = base[s]
  /\ answered'[s] = answered[s] /\ got'[s] = got[s] /\ total'[s] = total[s]
  /\ seen'[s] = seen[s] /\ due'[s] \subseteq due[s] /\ store'[s] = store[s]
  /\ table \subseteq table'

LEMMA SameKeepsCover ==
  ASSUME NEW s \in Scans, CoverOf(s), Same(s)
  PROVE  CoverOf(s)'
BY DEF CoverOf, Same

LEMMA OthersKeep ==
  ASSUME SyncInv, NEW s \in Scans, NEW r \in Scans \ {s},
         Continue(s) \/ Fail(s) \/ \E m \in Modes : Start(s, m)
  PROVE  Same(r)
<1>. USE DEF Same, requestVars
<1>0. StorageOf(s) # r
  BY ScansAssumption DEF StorageOf
<1>1. ASSUME QueryRows(s) \/ QueryTotal(s) PROVE Same(r)
  BY <1>1 DEF QueryRows, QueryTotal, SyncInv, TypeOK
<1>2. ASSUME Receive(s) PROVE Same(r)
  BY <1>0, <1>2 DEF Receive, RequestOver, Failed, Excuse, SyncInv, TypeOK
<1>3. ASSUME SyncAgain(s) PROVE Same(r)
  BY <1>3 DEF SyncAgain, Export, SyncInv, TypeOK
<1>4. ASSUME Publish(s) \/ ListOwnedNotes(s) PROVE Same(r)
  BY <1>4, ScansAssumption DEF Publish, ListOwnedNotes, Excuse, SyncInv, TypeOK
<1>5. ASSUME Fail(s) PROVE Same(r)
  BY <1>5 DEF Fail, Failed, RequestOver, SyncInv, TypeOK
<1>6. ASSUME NEW m \in Modes, Start(s, m) PROVE Same(r)
  BY <1>6 DEF Start, Export, SyncInv, TypeOK
<1>. QED  BY <1>1, <1>2, <1>3, <1>4, <1>5, <1>6 DEF Continue

LEMMA EnvironmentKeeps ==
  ASSUME SyncInv, NEW r \in Scans,
         \/ \E i \in Outputs : InsertOutput(i)
         \/ ClearNotes \/ \E n \in 0..MaxOutputs, merge \in BOOLEAN : ImportNotes(n, merge)
         \/ UNCHANGED vars
  PROVE  Same(r)
<1>1. CASE (\E i \in Outputs : InsertOutput(i)) \/ UNCHANGED vars
  BY <1>1 DEF Same, InsertOutput, vars, requestVars
<1>2. CASE ClearNotes \/ \E n \in 0..MaxOutputs, merge \in BOOLEAN : ImportNotes(n, merge)
  BY <1>2, UserExcuses, ExcuseShrinks DEF Same, requestVars, SyncInv
<1>. QED  BY <1>1, <1>2

LEMMA StartCovers ==
  ASSUME SyncInv, NEW s \in Scans, NEW m \in Modes, Start(s, m)
  PROVE  CoverOf(s)'
<1>1. /\ due' = [due EXCEPT ![s] = {i \in table : 0..i \subseteq table}] /\ table' = table
      /\ answered' = answered /\ pc' = [pc EXCEPT ![s] = "fetching"]
  BY DEF Start, Export
<1>2. answered'[s] = {} /\ pc'[s] = "fetching"
  BY <1>1 DEF Start, SyncInv, TypeOK, RequestOK
<1>3. \A i \in due'[s] : 0..i \subseteq table'
  BY <1>1 DEF SyncInv, TypeOK
<1>. QED  BY <1>2, <1>3 DEF CoverOf

LEMMA QueryRowsCovers ==
  ASSUME SyncInv, NEW s \in Scans, CoverOf(s), QueryRows(s)
  PROVE  CoverOf(s)'
<1>1. \A i \in due[s] : i \in table
  BY DEF CoverOf, SyncInv, TypeOK
<1>2. got'[s] = {i \in table : base[s].offset <= i /\ i < base[s].offset + BatchSize}
  BY DEF QueryRows, SyncInv, TypeOK
<1>3. /\ UNCHANGED <<table, store, mode, pc, base, total, seen, due>>
      /\ answered'[s] = answered[s] \union {"rows"}
  BY DEF QueryRows, SyncInv, TypeOK
<1>. QED  BY <1>1, <1>2, <1>3 DEF CoverOf

LEMMA QueryTotalCovers ==
  ASSUME SyncInv, NEW s \in Scans, CoverOf(s), QueryTotal(s)
  PROVE  CoverOf(s)'
<1>1. ASSUME NEW i \in due[s] PROVE i < Cardinality(table)
  <2>1. i \in Outputs /\ 0..i \subseteq table /\ table \in SUBSET Outputs
    BY DEF CoverOf, SyncInv, TypeOK
  <2>2. i + 1 \in Nat /\ Below(i + 1) \subseteq table /\ i \in Nat
    BY <2>1
  <2>3. Cardinality(table) \in 0..MaxOutputs /\ i + 1 <= Cardinality(table)
    BY <2>1, <2>2, CountAtLeastPrefix
  <2>. QED  BY <2>2, <2>3, SizesAssumption
<1>2. /\ UNCHANGED <<table, store, mode, pc, base, got, seen, due>>
      /\ answered'[s] = answered[s] \union {"total"} /\ total'[s] = Cardinality(table)
  BY DEF QueryTotal, SyncInv, TypeOK
<1>. QED  BY <1>1, <1>2 DEF CoverOf

\* The last page of a scan ends what was due when it started.
LEMMA DueIsRead ==
  ASSUME SyncInv, NEW s \in Scans, CoverOf(s), "rows" \in answered[s], "total" \in answered[s],
         ~HasMore(base[s].offset + BatchSize, total[s])
  PROVE  due[s] \subseteq base[s].outputs \union got[s]
<1>. SUFFICES ASSUME NEW i \in due[s] PROVE i \in base[s].outputs \union got[s]
  OBVIOUS
<1>1. /\ i \in Nat /\ base[s].offset \in Nat /\ total[s] \in Nat /\ BatchSize \in Nat
      /\ base[s].outputs = 0..(base[s].offset - 1)
  BY SizesAssumption DEF SyncInv, TypeOK, Backups, BackupGapless, Gapless
<1>2. i < total[s]
  BY DEF CoverOf
<1>3. i < base[s].offset + BatchSize
  BY <1>1, <1>2 DEF HasMore
<1>4. base[s].offset <= i => i \in got[s]
  BY <1>3 DEF CoverOf
<1>. QED  BY <1>1, <1>4

LEMMA ReceiveCovers ==
  ASSUME SyncInv, NEW s \in Scans, CoverOf(s), Receive(s)
  PROVE  CoverOf(s)'
<1>1. /\ UNCHANGED <<table, mode, seen>> /\ due'[s] = due[s] /\ answered'[s] = {}
      /\ "rows" \in answered[s] /\ "total" \in answered[s]
  BY DEF Receive, RequestOver, Excuse, SyncInv, TypeOK
<1>2. ASSUME mode'[s] = "full", pc'[s] \in {"publish", "list"}
      PROVE  due'[s] \subseteq store'[s].outputs
  <2>1. IsAcceptable(base[s], got[s], total[s]) /\ pc'[s] = AfterPage(s)
    BY <1>2 DEF Receive, Failed, SyncInv, TypeOK
  <2>2. ~HasMore(base[s].offset + BatchSize, total[s])
    BY <1>1, <1>2, <2>1 DEF AfterPage
  <2>3. store'[s].outputs = base[s].outputs \union got[s]
    BY <1>1, <1>2, <2>1 DEF Receive, StorageOf, Extended, SyncInv, TypeOK
  <2>. QED  BY <1>1, <2>2, <2>3, DueIsRead
<1>3. ~(mode'[s] = "full" /\ pc'[s] = "done")
  BY <1>1 DEF Receive, Failed, AfterPage, SyncInv, TypeOK
<1>4. pc'[s] = "publish" => mode'[s] = "full"
  BY <1>1 DEF Receive, Failed, AfterPage, SyncInv, TypeOK
<1>. QED  BY <1>1, <1>2, <1>3, <1>4 DEF CoverOf

LEMMA LaterCovers ==
  ASSUME SyncInv, NEW s \in Scans, CoverOf(s),
         SyncAgain(s) \/ Fail(s) \/ Publish(s) \/ ListOwnedNotes(s)
  PROVE  CoverOf(s)'
<1>1. CASE SyncAgain(s)
  BY <1>1 DEF SyncAgain, Export, CoverOf, SyncInv, TypeOK, RequestOK
<1>2. CASE Fail(s)
  BY <1>2 DEF Fail, Failed, RequestOver, CoverOf, SyncInv, TypeOK
<1>3. CASE Publish(s)
  <2>1. /\ UNCHANGED <<table, mode, requestVars, seen>> /\ due'[s] = due[s]
        /\ store'[s] = store[s] /\ pc[s] = "publish" /\ pc'[s] = "list"
    BY <1>3, ScansAssumption DEF Publish, Excuse, SyncInv, TypeOK
  <2>. QED  BY <2>1 DEF CoverOf, requestVars
<1>4. CASE ListOwnedNotes(s)
  <2>1. /\ UNCHANGED <<table, mode, requestVars, due>> /\ seen'[s] = store[StorageOf(s)].outputs
        /\ pc[s] = "list" /\ pc'[s] = "done"
    BY <1>4 DEF ListOwnedNotes, SyncInv, TypeOK
  <2>. QED  BY <2>1 DEF CoverOf, StorageOf, requestVars
<1>. QED  BY <1>1, <1>2, <1>3, <1>4

LEMMA CoverStep == SyncInv /\ CoverInv /\ [Next]_vars => CoverInv'
<1>. SUFFICES ASSUME SyncInv, CoverInv, [Next]_vars, NEW r \in Scans PROVE CoverOf(r)'
  BY DEF CoverInv
<1>1. CoverOf(r)
  BY DEF CoverInv
<1>2. ASSUME NEW s \in Scans, Continue(s) \/ Fail(s) \/ \E m \in Modes : Start(s, m)
      PROVE  CoverOf(r)'
  <2>1. CASE r = s
    BY <1>1, <1>2, <2>1, StartCovers, QueryRowsCovers, QueryTotalCovers, ReceiveCovers, LaterCovers
       DEF Continue
  <2>2. CASE r # s
    BY <1>1, <1>2, <2>2, OthersKeep, SameKeepsCover
  <2>. QED  BY <2>1, <2>2
<1>3. CASE \/ \E i \in Outputs : InsertOutput(i)
           \/ ClearNotes \/ \E n \in 0..MaxOutputs, merge \in BOOLEAN : ImportNotes(n, merge)
           \/ UNCHANGED vars
  BY <1>1, <1>3, EnvironmentKeeps, SameKeepsCover
<1>. QED  BY <1>2, <1>3 DEF Next

\* Whatever the other scans and the user write meanwhile, a full scan lists every output
\* that was there, without a hole, when it started (scanPrivateNotes in "full" mode).
THEOREM FullScansCover == Spec => []FullScanCovers
<1>1. Init => CoverInv
  BY DEF Init, CoverInv, CoverOf
<1>2. CoverInv => FullScanCovers
  BY DEF CoverInv, CoverOf, FullScanCovers
<1>. QED  BY <1>1, <1>2, CoverStep, SyncInvariant, PTL DEF Spec

-----------------------------------------------------------------------------
(* A scan that runs alone on its page: without an overlap of scans the     *)
(* shared storage loses nothing.                                           *)

Alone == \A s, r \in Scans : s = r
NoImports == MaxImports = 0

\* What the shared storage holds is in the backup that will overwrite it: in the one
\* a scan of that storage has exported, or in what a full scan cannot miss.
KeepOf(s) ==
  /\ mode[s] # "full" /\ pc[s] = "fetching" => store[Local].outputs \subseteq base[s].outputs
  /\ mode[s] = "full" /\ pc[s] \in {"fetching", "export", "publish"} =>
       store[Local].outputs \subseteq due[s]

KeepInv == Alone /\ NoImports /\ \A s \in Scans : KeepOf(s)

\* A gapless backup holds nothing that a full scan starting now may miss.
LEMMA LocalIsDue ==
  ASSUME SyncInv
  PROVE  store[Local].outputs \subseteq {i \in table : 0..i \subseteq table}
<1>1. /\ store[Local] \in Backups /\ table \subseteq Outputs
      /\ store[Local].outputs = Below(store[Local].offset) /\ store[Local].outputs \subseteq table
  BY DEF SyncInv, TypeOK, BackupGapless, Gapless
<1>2. store[Local].offset \in Nat
  BY <1>1, SizesAssumption DEF Backups
<1>. QED  BY <1>1, <1>2

LEMMA ContinueKeeps ==
  ASSUME SyncInv, CoverInv, KeepInv, NEW s \in Scans, Continue(s)
  PROVE  KeepOf(s)' /\ store[Local].outputs \subseteq store'[Local].outputs
<1>. USE DEF SyncInv, TypeOK, KeepInv, KeepOf, requestVars
<1>0. s # Local
  BY ScansAssumption
<1>1. CASE QueryRows(s) \/ QueryTotal(s)
  BY <1>1 DEF QueryRows, QueryTotal
<1>2. CASE SyncAgain(s)
  BY <1>2 DEF SyncAgain, Export, StorageOf
<1>3. CASE Publish(s)
  <2>1. store[Local].outputs \subseteq store[s].outputs
    BY <1>3 DEF Publish, CoverInv, CoverOf
  <2>. QED  BY <1>3, <2>1 DEF Publish, Excuse
<1>4. CASE ListOwnedNotes(s)
  BY <1>0, <1>4, ScansAssumption DEF ListOwnedNotes
<1>5. CASE Receive(s)
  BY <1>0, <1>5 DEF Receive, Failed, Excuse, StorageOf, Extended, AfterPage, Backups
<1>. QED  BY <1>1, <1>2, <1>3, <1>4, <1>5 DEF Continue

LEMMA KeepStep ==
  SyncInv /\ CoverInv /\ KeepInv /\ [Next]_vars
    => KeepInv' /\ (userVars' = userVars => store[Local].outputs \subseteq store'[Local].outputs)
<1>. SUFFICES ASSUME SyncInv, CoverInv, KeepInv, [Next]_vars
              PROVE  /\ \A s \in Scans : KeepOf(s)'
                     /\ userVars' = userVars => store[Local].outputs \subseteq store'[Local].outputs
  BY DEF KeepInv, Alone, NoImports
<1>0. \A s \in Scans : s # Local /\ \A r \in Scans : r = s
  BY ScansAssumption DEF KeepInv, Alone
<1>1. ASSUME UNCHANGED <<mode, pc, base, due, store>>
      PROVE  /\ \A s \in Scans : KeepOf(s)' /\ store[Local].outputs \subseteq store'[Local].outputs
  BY <1>1 DEF KeepInv, KeepOf
<1>2. CASE UNCHANGED vars \/ \E i \in Outputs : InsertOutput(i)
  BY <1>1, <1>2 DEF vars, requestVars, InsertOutput
<1>3. ASSUME NEW s \in Scans, Continue(s)
      PROVE  (\A r \in Scans : KeepOf(r)') /\ store[Local].outputs \subseteq store'[Local].outputs
  BY <1>0, <1>3, ContinueKeeps
<1>4. ASSUME NEW s \in Scans, Fail(s)
      PROVE  (\A r \in Scans : KeepOf(r)') /\ store[Local].outputs \subseteq store'[Local].outputs
  <2>1. pc'[s] = "failed" /\ store'[Local] = store[Local]
    BY <1>0, <1>4 DEF Fail, Failed, SyncInv, TypeOK
  <2>. QED  BY <1>0, <2>1 DEF KeepOf
<1>5. ASSUME NEW s \in Scans, NEW m \in Modes, Start(s, m)
      PROVE  (\A r \in Scans : KeepOf(r)') /\ store[Local].outputs \subseteq store'[Local].outputs
  <2>1. /\ mode'[s] = m /\ pc'[s] = "fetching" /\ store' = store
        /\ due'[s] = {i \in table : 0..i \subseteq table}
        /\ m # "full" => base'[s] = store[Local]
    BY <1>5 DEF Start, Export, SyncInv, TypeOK
  <2>2. KeepOf(s)'
    BY <2>1, LocalIsDue DEF KeepOf
  <2>. QED  BY <1>0, <2>1, <2>2
<1>6. CASE ClearNotes
  <2>1. /\ UNCHANGED <<mode, pc, base>> /\ store'[Local].outputs = {}
        /\ userVars' # userVars
    <3>1. clears \in Nat /\ clears' = clears + 1
      BY <1>6, SizesAssumption DEF ClearNotes, SyncInv, TypeOK
    <3>. QED  BY <1>6, <3>1 DEF ClearNotes, Empty, requestVars, userVars, SyncInv, TypeOK
  <2>. QED  BY <2>1 DEF KeepOf
<1>7. CASE \E n \in 0..MaxOutputs, merge \in BOOLEAN : ImportNotes(n, merge)
  BY <1>7 DEF ImportNotes, KeepInv, NoImports, SyncInv, TypeOK
<1>. QED  BY <1>2, <1>3, <1>4, <1>5, <1>6, <1>7 DEF Next

\* A scan that runs alone takes nothing out of the shared storage, whatever its mode,
\* its failures and the clears meanwhile: what note_sync_race finds needs an overlap.
THEOREM SyncingAlonePreserves == Alone /\ NoImports /\ Spec => SyncPreserves
<1>1. Alone /\ NoImports /\ Init => KeepInv
  BY DEF Init, KeepInv, KeepOf
<1>2. Init => CoverInv
  BY DEF Init, CoverInv, CoverOf
<1>3. SyncInv /\ CoverInv /\ KeepInv /\ [Next]_vars
        => KeepInv' /\ [userVars' = userVars => store[Local].outputs \subseteq store'[Local].outputs]_vars
  BY KeepStep
<1>. QED  BY <1>1, <1>2, <1>3, CoverStep, SyncInvariant, PTL DEF Spec, SyncPreserves

-----------------------------------------------------------------------------
(* An incremental scan covers what was due when it started.                *)

\* One that has read all there is finds what is still due in the shared storage.
IncrementOf(s) ==
  mode[s] = "incremental" =>
    /\ pc[s] = "list" => due[s] \subseteq store[Local].outputs
    /\ pc[s] = "done" => due[s] \subseteq seen[s]

IncrementInv == \A s \in Scans : IncrementOf(s)

LEMMA ReceiveIncrements ==
  ASSUME SyncInv, NEW s \in Scans, CoverOf(s), Receive(s)
  PROVE  IncrementOf(s)'
<1>1. /\ UNCHANGED <<table, mode, seen>> /\ due'[s] = due[s]
      /\ "rows" \in answered[s] /\ "total" \in answered[s]
  BY DEF Receive, Excuse
<1>2. ASSUME mode'[s] = "incremental", pc'[s] = "list"
      PROVE  due'[s] \subseteq store'[Local].outputs
  <2>1. IsAcceptable(base[s], got[s], total[s]) /\ pc'[s] = AfterPage(s)
    BY <1>2 DEF Receive, Failed, SyncInv, TypeOK
  <2>2. ~HasMore(base[s].offset + BatchSize, total[s])
    BY <1>1, <1>2, <2>1 DEF AfterPage
  <2>3. store'[Local].outputs = base[s].outputs \union got[s]
    BY <1>1, <1>2, <2>1 DEF Receive, StorageOf, Extended, SyncInv, TypeOK
  <2>. QED  BY <1>1, <2>2, <2>3, DueIsRead
<1>3. ~(mode'[s] = "incremental" /\ pc'[s] = "done")
  BY <1>1 DEF Receive, Failed, AfterPage, SyncInv, TypeOK
<1>. QED  BY <1>2, <1>3 DEF IncrementOf

\* A scan that another step overtakes: the storage changes only together with what is
\* due, and what the step takes out is excused.
Overtaken(r) ==
  /\ pc'[r] = pc[r] /\ mode'[r] = mode[r] /\ seen'[r] = seen[r]
  /\ Excuse \/ (due'[r] = due[r] /\ store'[Local] = store[Local])

LEMMA OvertakenIncrements ==
  ASSUME NEW r \in Scans, IncrementOf(r), Overtaken(r)
  PROVE  IncrementOf(r)'
BY DEF IncrementOf, Overtaken, Excuse

LEMMA OthersOvertake ==
  ASSUME SyncInv, NEW s \in Scans, NEW r \in Scans \ {s},
         Continue(s) \/ Fail(s) \/ \E m \in Modes : Start(s, m)
  PROVE  Overtaken(r)
<1>. USE DEF Overtaken, SyncInv, TypeOK
<1>0. s # Local /\ s # r
  BY ScansAssumption
<1>1. ASSUME QueryRows(s) \/ QueryTotal(s) PROVE Overtaken(r)
  BY <1>1 DEF QueryRows, QueryTotal
<1>2. ASSUME Receive(s) PROVE Overtaken(r)
  BY <1>0, <1>2 DEF Receive, Failed
<1>3. ASSUME SyncAgain(s) PROVE Overtaken(r)
  BY <1>0, <1>3 DEF SyncAgain, Export
<1>4. ASSUME Publish(s) \/ ListOwnedNotes(s) PROVE Overtaken(r)
  BY <1>0, <1>4 DEF Publish, ListOwnedNotes
<1>5. ASSUME Fail(s) PROVE Overtaken(r)
  BY <1>0, <1>5 DEF Fail, Failed
<1>6. ASSUME NEW m \in Modes, Start(s, m) PROVE Overtaken(r)
  BY <1>0, <1>6 DEF Start, Export
<1>. QED  BY <1>1, <1>2, <1>3, <1>4, <1>5, <1>6 DEF Continue

LEMMA OwnStepIncrements ==
  ASSUME SyncInv, NEW s \in Scans, CoverOf(s), IncrementOf(s),
         Continue(s) \/ Fail(s) \/ \E m \in Modes : Start(s, m)
  PROVE  IncrementOf(s)'
<1>. USE DEF SyncInv, TypeOK, IncrementOf
<1>0. s # Local
  BY ScansAssumption
<1>1. CASE QueryRows(s) \/ QueryTotal(s)
  BY <1>1 DEF QueryRows, QueryTotal
<1>2. CASE SyncAgain(s) \/ \E m \in Modes : Start(s, m)
  BY <1>2 DEF SyncAgain, Start, Export
<1>3. CASE Publish(s)
  BY <1>0, <1>3 DEF Publish, CoverOf
<1>4. CASE ListOwnedNotes(s)
  BY <1>0, <1>4 DEF ListOwnedNotes, StorageOf
<1>5. CASE Fail(s)
  BY <1>5 DEF Fail, Failed
<1>. QED  BY <1>1, <1>2, <1>3, <1>4, <1>5, ReceiveIncrements DEF Continue

LEMMA IncrementStep ==
  SyncInv /\ CoverInv /\ IncrementInv /\ [Next]_vars => IncrementInv'
<1>. SUFFICES ASSUME SyncInv, CoverInv, IncrementInv, [Next]_vars, NEW r \in Scans
              PROVE  IncrementOf(r)'
  BY DEF IncrementInv
<1>0. IncrementOf(r) /\ CoverOf(r)
  BY DEF IncrementInv, CoverInv
<1>1. ASSUME NEW s \in Scans, Continue(s) \/ Fail(s) \/ \E m \in Modes : Start(s, m)
      PROVE  IncrementOf(r)'
  <2>1. CASE r = s
    BY <1>0, <1>1, <2>1, OwnStepIncrements
  <2>2. CASE r # s
    BY <1>0, <1>1, <2>2, OthersOvertake, OvertakenIncrements
  <2>. QED  BY <2>1, <2>2
<1>2. CASE \/ \E i \in Outputs : InsertOutput(i)
           \/ ClearNotes \/ \E n \in 0..MaxOutputs, merge \in BOOLEAN : ImportNotes(n, merge)
           \/ UNCHANGED vars
  <2>1. Overtaken(r)
    BY <1>2 DEF Overtaken, InsertOutput, ClearNotes, ImportNotes, vars
  <2>. QED  BY <1>0, <2>1, OvertakenIncrements
<1>. QED  BY <1>1, <1>2 DEF Next

\* Whatever the other scans and the user write meanwhile, an incremental scan lists every
\* output that was there without a hole when it started, but for those a write took out
\* of the shared storage after its last page (syncAllNotes, then listOwnedNotes).
THEOREM IncrementalScansCover == Spec => []IncrementalScanCovers
<1>1. Init => IncrementInv /\ CoverInv
  BY DEF Init, IncrementInv, IncrementOf, CoverInv, CoverOf
<1>2. IncrementInv => IncrementalScanCovers
  BY DEF IncrementInv, IncrementOf, IncrementalScanCovers
<1>. QED  BY <1>1, <1>2, IncrementStep, CoverStep, SyncInvariant, PTL DEF Spec
=============================================================================
