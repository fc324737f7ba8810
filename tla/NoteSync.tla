----------------------------- MODULE NoteSync -----------------------------
(***************************************************************************)
(* How a browser keeps one owner's note backup in step with the backend:   *)
(* syncNotes (sync.ts) fetches one page of outputs after an await,         *)
(* scanPrivateNotes (browser.ts) repeats it to the end and lists the       *)
(* notes, and the store (notes.ts) is one key of the tab's sessionStorage  *)
(* that every scan of the page reads and writes.                           *)
(*                                                                         *)
(* An output is its index.  The backend's table is filled by its indexer   *)
(* in any order, so it may have holes; nothing is ever removed from it.    *)
(***************************************************************************)
EXTENDS Integers, FiniteSets

CONSTANTS
  MaxOutputs,              \* outputs the pool ever has
  BatchSize,               \* outputs asked for per request
  Scans,                   \* scans that may run at the same time
  Modes,                   \* kinds of scan: "full", "incremental" or "single" page
  Local,                   \* the storage the scans share
  MaxClears, MaxImports    \* bounds on what the user does to that storage

Outputs == 0..(MaxOutputs - 1)
Below(n) == 0..(n - 1)
AllModes == {"full", "incremental", "single"}

ASSUME SizesAssumption == /\ MaxOutputs \in Nat /\ BatchSize \in Nat \ {0}
                          /\ {MaxClears, MaxImports} \subseteq Nat
ASSUME ScansAssumption == Local \notin Scans /\ Modes \subseteq AllModes

VARIABLES
  table,           \* output indexes in the backend's pool_outputs
  store,           \* the backup under the key in each storage: the shared one, and
                   \* the memory storage of each full scan
  mode, pc,        \* each scan's kind and place in the code
  base,            \* the backup it exported before its request
  answered,        \* the queries of its request the database has answered
  got, total,      \* their answers: the page's outputs, the number of all outputs
  seen,            \* the outputs it listed at its end
  due,             \* history: outputs the backend held without a hole when it started,
                   \* less what an incremental scan could no longer list
  clears, imports  \* bounds used

requestVars == <<base, answered, got, total>>
userVars == <<clears, imports>>
vars == <<table, store, mode, pc, requestVars, seen, due, userVars>>

Empty == [outputs |-> {}, offset |-> 0]
Storages == Scans \union {Local}

Init ==
  /\ table = {}
  /\ store = [p \in Storages |-> Empty]
  /\ mode \in [Scans -> Modes]
  /\ pc = [s \in Scans |-> "idle"]
  /\ base = [s \in Scans |-> Empty]
  /\ answered = [s \in Scans |-> {}]
  /\ got = [s \in Scans |-> {}]
  /\ total = [s \in Scans |-> 0]
  /\ seen = [s \in Scans |-> {}]
  /\ due = [s \in Scans |-> {}]
  /\ clears = 0 /\ imports = 0

-----------------------------------------------------------------------------
(* The backend.                                                            *)

InsertOutput(i) ==
  /\ i \notin table
  /\ table' = table \union {i}
  /\ UNCHANGED <<store, mode, pc, requestVars, seen, due, userVars>>

\* getOutputRange runs its two queries at once and each sees its own snapshot.
QueryRows(s) ==
  /\ pc[s] = "fetching" /\ "rows" \notin answered[s]
  /\ got' = [got EXCEPT ![s] =
               {i \in table : base[s].offset <= i /\ i < base[s].offset + BatchSize}]
  /\ answered' = [answered EXCEPT ![s] = @ \union {"rows"}]
  /\ UNCHANGED <<table, store, mode, pc, base, total, seen, due, userVars>>

QueryTotal(s) ==
  /\ pc[s] = "fetching" /\ "total" \notin answered[s]
  /\ total' = [total EXCEPT ![s] = Cardinality(table)]
  /\ answered' = [answered EXCEPT ![s] = @ \union {"total"}]
  /\ UNCHANGED <<table, store, mode, pc, base, got, seen, due, userVars>>

MoreThanOne(end, n) == end + 1 < n
HasMore(end, n) == end < n

-----------------------------------------------------------------------------
(* One page: syncNotes.                                                    *)

StorageOf(s) == IF mode[s] = "full" THEN s ELSE Local

\* History: what a write of the shared storage takes out of it is no longer due of an
\* incremental scan that has read its last page and has yet to list its notes.
Excuse ==
  due' = [s \in Scans |->
            IF mode[s] = "incremental" /\ pc[s] = "list"
              THEN due[s] \ (store[Local].outputs \ store'[Local].outputs)
              ELSE due[s]]

\* syncNotes exports the backup and sends its request without an await between.
Export(s, b) ==
  /\ base' = [base EXCEPT ![s] = b]
  /\ pc' = [pc EXCEPT ![s] = "fetching"]

\* The request is over and the call's locals with it.
RequestOver(s) ==
  /\ base' = [base EXCEPT ![s] = Empty]
  /\ answered' = [answered EXCEPT ![s] = {}]
  /\ got' = [got EXCEPT ![s] = {}]
  /\ total' = [total EXCEPT ![s] = 0]

\* A scan begins; a full one on a new, empty memory storage.
Start(s, m) ==
  /\ pc[s] \in {"idle", "done", "failed"}
  /\ mode' = [mode EXCEPT ![s] = m]
  /\ Export(s, IF m = "full" THEN Empty ELSE store[Local])
  /\ seen' = [seen EXCEPT ![s] = {}]
  /\ due' = [due EXCEPT ![s] = {i \in table : 0..i \subseteq table}]
  /\ UNCHANGED <<table, store, answered, got, total, userVars>>

SyncAgain(s) ==
  /\ pc[s] = "export"
  /\ Export(s, store[StorageOf(s)])
  /\ UNCHANGED <<table, store, mode, answered, got, total, seen, due, userVars>>

IsBehind(b, n) == n < b.offset
NeverEmpty(b, page, n) == FALSE
IsEmptyButMore(b, page, n) == page = {} /\ HasMore(b.offset + BatchSize, n)
WithinPage(b, page) == TRUE
IsConsecutive(b, page) == page = b.offset..(b.offset + Cardinality(page) - 1)
IsAcceptable(b, page, n) ==
  /\ ~IsBehind(b, n)
  /\ ~IsEmptyButMore(b, page, n)
  /\ IsConsecutive(b, page)

PageOnly(b, page) == [outputs |-> page, offset |-> b.offset + Cardinality(page)]
SkipsPage(b, page) == [outputs |-> b.outputs \union page, offset |-> b.offset + BatchSize]
Extended(b, page) ==
  [outputs |-> b.outputs \union page, offset |-> b.offset + Cardinality(page)]

\* What the caller does with a page: syncAllNotes asks for the next while there is
\* more, then a full scan publishes its backup and an incremental one goes on to
\* list the shared storage.
AfterPage(s) ==
  IF mode[s] = "single" THEN "done"
  ELSE IF HasMore(base[s].offset + BatchSize, total[s]) THEN "export"
  ELSE IF mode[s] = "full" THEN "publish" ELSE "list"

\* The scan throws, and a full one drops its memory storage.
Failed(s) ==
  /\ pc' = [pc EXCEPT ![s] = "failed"]
  /\ store' = [store EXCEPT ![s] = Empty]

\* The answer arrives: the page is imported with merge: false over whatever the
\* storage holds by now, or an inconsistent range fails the scan.
Receive(s) ==
  /\ pc[s] = "fetching" /\ answered[s] = {"rows", "total"}
  /\ IF IsAcceptable(base[s], got[s], total[s])
       THEN /\ store' = [store EXCEPT ![StorageOf(s)] = Extended(base[s], got[s])]
            /\ pc' = [pc EXCEPT ![s] = AfterPage(s)]
       ELSE Failed(s)
  /\ RequestOver(s)
  /\ Excuse
  /\ UNCHANGED <<table, mode, seen, userVars>>

\* The request rejects or times out; the pages already imported stay.
Fail(s) ==
  /\ pc[s] = "fetching"
  /\ Failed(s)
  /\ RequestOver(s)
  /\ UNCHANGED <<table, mode, seen, due, userVars>>

-----------------------------------------------------------------------------
(* The end of a scan: scanPrivateNotes.                                    *)

Publish(s) ==
  /\ pc[s] = "publish"
  /\ store' = [store EXCEPT ![Local] = store[s]]
  /\ pc' = [pc EXCEPT ![s] = "list"]
  /\ Excuse
  /\ UNCHANGED <<table, mode, requestVars, seen, userVars>>

\* listOwnedNotes exports the storage again, after the note key is derived.
ListOwnedNotes(s) ==
  /\ pc[s] = "list"
  /\ seen' = [seen EXCEPT ![s] = store[StorageOf(s)].outputs]
  /\ pc' = [pc EXCEPT ![s] = "done"]
  /\ store' = [store EXCEPT ![s] = Empty]
  /\ UNCHANGED <<table, mode, requestVars, due, userVars>>

-----------------------------------------------------------------------------
(* The user: clearNotes, and importNotes of a backup exported elsewhere.   *)

ClearNotes ==
  /\ clears < MaxClears
  /\ clears' = clears + 1
  /\ store' = [store EXCEPT ![Local] = Empty]
  /\ Excuse
  /\ UNCHANGED <<table, mode, pc, requestVars, seen, imports>>

Merged(b, c) == [outputs |-> b.outputs \union c.outputs,
                 offset |-> IF b.offset >= c.offset THEN b.offset ELSE c.offset]

\* Such a backup holds what some earlier scan found: a prefix of the outputs.
ImportNotes(n, merge) ==
  LET incoming == [outputs |-> Below(n), offset |-> n] IN
  /\ imports < MaxImports
  /\ imports' = imports + 1
  /\ Below(n) \subseteq table
  /\ store' = [store EXCEPT ![Local] = IF merge THEN Merged(@, incoming) ELSE incoming]
  /\ Excuse
  /\ UNCHANGED <<table, mode, pc, requestVars, seen, clears>>

-----------------------------------------------------------------------------

Continue(s) ==
  QueryRows(s) \/ QueryTotal(s) \/ Receive(s) \/ SyncAgain(s) \/ Publish(s) \/ ListOwnedNotes(s)

Next ==
  \/ \E i \in Outputs : InsertOutput(i)
  \/ \E s \in Scans : Continue(s) \/ Fail(s) \/ \E m \in Modes : Start(s, m)
  \/ ClearNotes
  \/ \E n \in 0..MaxOutputs, merge \in BOOLEAN : ImportNotes(n, merge)

Spec == Init /\ [][Next]_vars

\* A request is answered (or times out) and the page resumes its awaits.
FairSpec == Spec /\ \A s \in Scans : WF_vars(Continue(s))

-----------------------------------------------------------------------------
(* Properties                                                              *)

Backups == [outputs : SUBSET Outputs, offset : 0..MaxOutputs]
Places == {"idle", "fetching", "export", "publish", "list", "done", "failed"}

\* Every variable stays in its domain: no offset passes the outputs of the pool.
TypeOK ==
  /\ table \subseteq Outputs
  /\ store \in [Storages -> Backups]
  /\ mode \in [Scans -> Modes]
  /\ pc \in [Scans -> Places]
  /\ base \in [Scans -> Backups]
  /\ answered \in [Scans -> SUBSET {"rows", "total"}]
  /\ got \in [Scans -> SUBSET Outputs]
  /\ total \in [Scans -> 0..MaxOutputs]
  /\ seen \in [Scans -> SUBSET Outputs]
  /\ due \in [Scans -> SUBSET Outputs]
  /\ clears \in 0..MaxClears /\ imports \in 0..MaxImports

\* A backup, stored or about to be extended, holds exactly the outputs below its fetch
\* offset, all of them indexed: concurrent imports, clears and overwrites never make
\* an offset skip an output that a later incremental sync would then not ask for.
Gapless(b) == b.outputs = Below(b.offset) /\ b.outputs \subseteq table
BackupGapless ==
  /\ \A p \in Storages : Gapless(store[p])
  /\ \A s \in Scans : Gapless(base[s])

\* The error "Indexer total is behind the local note fetch offset" never shows while
\* the backend keeps its rows, whatever the two snapshots of getOutputRange are.
NeverBehind ==
  \A s \in Scans : "total" \in answered[s] => ~IsBehind(base[s], total[s])

\* A full scan lists every output that the backend held without a hole when it
\* started, although other scans and the user write the shared storage meanwhile.
FullScanCovers ==
  \A s \in Scans : pc[s] = "done" /\ mode[s] = "full" => due[s] \subseteq seen[s]

\* An incremental scan lists what the shared storage holds by then, and all of what
\* was due is there although other scans moved the offset back and overwrote pages of
\* it: only what a write takes out between its last page and its listing is missing.
IncrementalScanCovers ==
  \A s \in Scans : pc[s] = "done" /\ mode[s] = "incremental" => due[s] \subseteq seen[s]

\* Syncing preserves existing notes: only a clear or an import by the user takes an
\* output out of the shared storage.
SyncPreserves ==
  [][userVars' = userVars => store[Local].outputs \subseteq store'[Local].outputs]_vars

\* Every scan ends: the loop of syncAllNotes stops although the table has holes and
\* other scans move the shared offset back under it.
ScansEnd ==
  \A s \in Scans : pc[s] = "fetching" ~> pc[s] \in {"done", "failed"}
=============================================================================
