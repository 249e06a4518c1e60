--------------------------- MODULE Targeting_proof ---------------------------
(***************************************************************************)
(* Proofs about Inventory, for any finite set of cells and any number of   *)
(* requests, files and imports, and about Targeting, for any inventory,    *)
(* requests and tags.                                                      *)
(*                                                                         *)
(* Of the tables two arguments carry the proofs: a row id once given is    *)
(* never given again, and every import belongs to one request, which alone *)
(* can complete it.  Targeting implements Inventory, so that what is       *)
(* proved of the tables holds while targets are computed; and a target     *)
(* that is returned is the area that was meant.                            *)
(***************************************************************************)
EXTENDS Targeting, FiniteSetTheorems, TLAPS

-----------------------------------------------------------------------------
(* The tables: the inductive invariant *)

\* The AUTOINCREMENT counter is beyond every row there is.
IdsInv == \A k \in Present(cells) : cells[k].id < nextId

\* Row id id was given to cell k and to none other: whoever has it now is k.
BelongsTo(id, k) == id < nextId /\ \A l \in Present(cells) : cells[l].id = id => l = k

\* Tags stored, and tags on their way to the store, have the row id of the
\* cell that was tagged.
EntriesInv == \A e \in entries : BelongsTo(e.cell, e.meant)

TaggingInv ==
    \A h \in Handlers : ~Idle(h) /\ handlers[h].op = "tag"
        => BelongsTo(handlers[h].cell, handlers[h].meant)

\* An import that a request works on is in the table; one that is applied, or
\* was in vain, is pending, and its file is faultless.
ImportsInv ==
    \A h \in Handlers : ~Idle(h) /\ handlers[h].op = "import" =>
        /\ imports[handlers[h].imp] # None
        /\ handlers[h].phase # "errors" => imports[handlers[h].imp].status = "pending"
        /\ handlers[h].phase = "apply" => ~HasErrors(handlers[h].file)

\* No two requests work on one import.
OwnImportInv ==
    \A g, h \in Handlers :
        /\ ~Idle(g) /\ handlers[g].op = "import"
        /\ ~Idle(h) /\ handlers[h].op = "import"
        /\ handlers[g].imp = handlers[h].imp
        => g = h

IInv ==
    /\ TypeOK /\ IdsInv /\ EntriesInv /\ TaggingInv
    /\ ImportsInv /\ OwnImportInv /\ VersionIffCompleted

-----------------------------------------------------------------------------
(* Files and the rows they add *)

\* The rows of a file that the table lacks can be counted, and are no more
\* than the file has.
LEMMA NewRowsCounted ==
    ASSUME NEW file \in Files
    PROVE  /\ IsFiniteSet(NewRows(file)) /\ NewRows(file) \subseteq 1..Len(file)
           /\ Cardinality(NewRows(file)) \in Nat
           /\ Len(file) \in Nat /\ Cardinality(NewRows(file)) <= Len(file)
  <1>1. file \in Seq(Rows)
    BY InventoryAssumption
  <1>2. Len(file) \in Nat /\ DOMAIN file = 1..Len(file)
    BY <1>1
  <1>3. IsFiniteSet(1..Len(file)) /\ Cardinality(1..Len(file)) = Len(file)
    <2>1. \A n \in Nat : IsFiniteSet(1..n) /\ Cardinality(1..n) = n
      <3>1. TAKE n \in Nat
      <3>2. IsFiniteSet(1..n) /\ Cardinality(1..n) = IF 1 > n THEN 0 ELSE n - 1 + 1
        BY FS_Interval
      <3>3. QED
        BY <3>2
    <2>2. Len(file) \in Nat
      BY <1>2
    <2>3. QED
      BY <2>1, <2>2
  <1>4. NewRows(file) \in SUBSET (1..Len(file))
    BY <1>2 DEF NewRows
  <1>5. IsFiniteSet(NewRows(file)) /\ Cardinality(NewRows(file)) <= Cardinality(1..Len(file))
    BY <1>3, <1>4, FS_Subset
  <1>6. Cardinality(NewRows(file)) \in Nat
    BY <1>5, FS_CardinalityType
  <1>7. QED
    BY <1>2, <1>3, <1>4, <1>5, <1>6

\* A file without errors lists no cell twice.
LEMMA FaultlessFile ==
    ASSUME NEW file \in Files, ~HasErrors(file),
           NEW i \in DOMAIN file, NEW j \in DOMAIN file, file[i].key = file[j].key
    PROVE  i = j
  <1>1. file \in Seq(Rows) /\ DOMAIN file = 1..Len(file) /\ Len(file) \in Nat
    BY InventoryAssumption
  <1>2. i \in Accepted(file) /\ j \in Accepted(file)
    BY DEF HasErrors
  <1>3. ~(i < j) /\ ~(j < i)
    BY <1>1, <1>2 DEF Accepted
  <1>4. QED
    BY <1>1, <1>3

\* The rows inserted by one file are given the ids that follow the counter,
\* each another one.
LEMMA NewIdsFresh ==
    ASSUME NEW file \in Files, nextId \in Nat, NEW i \in NewRows(file)
    PROVE  /\ NewId(file, i) \in Nat
           /\ nextId <= NewId(file, i)
           /\ NewId(file, i) < nextId + Cardinality(NewRows(file))
           /\ \A j \in NewRows(file) : i < j => NewId(file, i) < NewId(file, j)
  <1> DEFINE Before(j) == {l \in NewRows(file) : l < j}
  <1>1. IsFiniteSet(NewRows(file)) /\ NewRows(file) \subseteq 1..Len(file) /\ Len(file) \in Nat
    BY NewRowsCounted
  <1>2. \A j : IsFiniteSet(Before(j)) /\ Cardinality(Before(j)) \in Nat
    BY <1>1, FS_Subset, FS_CardinalityType
  <1>3. IsFiniteSet(Before(i) \cup {i}) /\ Cardinality(Before(i) \cup {i}) = Cardinality(Before(i)) + 1
    <2>1. i \notin Before(i)
      BY <1>1
    <2>2. QED
      BY <1>2, <2>1, FS_AddElement
  <1>4. Cardinality(Before(i)) + 1 <= Cardinality(NewRows(file))
    <2>1. Before(i) \cup {i} \in SUBSET NewRows(file)
      OBVIOUS
    <2>2. QED
      BY <1>1, <1>3, <2>1, FS_Subset
  <1>5. ASSUME NEW j \in NewRows(file), i < j
        PROVE  Cardinality(Before(i)) + 1 <= Cardinality(Before(j))
    <2>1. Before(i) \cup {i} \in SUBSET Before(j)
      BY <1>1, <1>5
    <2>2. QED
      BY <1>2, <1>3, <2>1, FS_Subset
  <1>6. Cardinality(NewRows(file)) \in Nat
    BY <1>1, FS_CardinalityType
  <1>7. NewId(file, i) = nextId + Cardinality(Before(i))
    BY DEF NewId
  <1>8. \A j \in NewRows(file) : NewId(file, j) = nextId + Cardinality(Before(j))
    BY DEF NewId
  <1> HIDE DEF Before
  <1>9. QED
    BY <1>2, <1>4, <1>5, <1>6, <1>7, <1>8

\* A cell that a file lists has one row there.
LEMMA RowOfKey ==
    ASSUME NEW file \in Files, NEW k \in KeysOf(file)
    PROVE  LET i == CHOOSE i \in DOMAIN file : file[i].key = k
           IN  i \in DOMAIN file /\ file[i].key = k /\ RowOf(file, k) = file[i] /\ file[i] \in Rows
  <1>1. file \in Seq(Rows)
    BY InventoryAssumption
  <1>2. \E i \in DOMAIN file : file[i].key = k
    BY DEF KeysOf
  <1>3. QED
    BY <1>1, <1>2 DEF RowOf

\* What the upserts make of a cell: one that was there keeps its row id, one
\* that was not has a fresh one if the file lists it, and one it does not list
\* stays as it was.
LEMMA MergedCell ==
    ASSUME NEW file \in Files, nextId \in Ids, cells \in [Keys -> Cells \cup {None}],
           NEW k \in Keys
    PROVE  LET c == Merged(file)[k]
           IN  /\ k \notin KeysOf(file) => c = cells[k]
               /\ k \in KeysOf(file) => c \in Cells
               /\ k \in Present(cells) => c \in Cells /\ c.id = cells[k].id
               /\ k \in KeysOf(file) \ Present(cells) =>
                    \E i \in NewRows(file) : file[i].key = k /\ c.id = NewId(file, i)
  <1> DEFINE c == Merged(file)[k]
             i == CHOOSE i \in DOMAIN file : file[i].key = k
  <1> USE NoneAssumption
  <1>1. CASE k \notin KeysOf(file)
    BY <1>1 DEF Merged, Present
  <1>2. CASE k \in KeysOf(file)
    <2>1. i \in DOMAIN file /\ file[i].key = k /\ RowOf(file, k) = file[i] /\ file[i] \in Rows
      BY <1>2, RowOfKey
    <2>2. c = [id     |-> IF cells[k] # None THEN cells[k].id ELSE NewId(file, i),
               active |-> file[i].active, zones |-> file[i].zones]
      BY <1>2, <2>1 DEF Merged
    <2>3. CASE cells[k] # None
      <3>1. cells[k] \in Cells
        BY <2>3
      <3>2. QED
        BY <1>2, <2>1, <2>2, <2>3, <3>1 DEF Cells, Rows, Present
    <2>4. CASE cells[k] = None
      <3>1. i \in NewRows(file)
        BY <2>1, <2>4 DEF NewRows
      <3>2. NewId(file, i) \in Ids
        BY <3>1, NewIdsFresh DEF Ids
      <3>3. c \in Cells /\ c.id = NewId(file, i)
        BY <2>1, <2>2, <2>4, <3>2 DEF Cells, Rows
      <3>4. QED
        BY <1>2, <2>1, <2>4, <3>1, <3>3 DEF Present
    <2>5. QED
      BY <2>3, <2>4
  <1>3. QED
    BY <1>1, <1>2

-----------------------------------------------------------------------------
(* Row ids *)

\* The table of cells may change in any way that leaves the row id of a cell
\* that stays alone, and gives every other one an id the counter has not passed.
Forward ==
    /\ nextId <= nextId'
    /\ \A k \in Present(cells') :
         /\ cells'[k].id < nextId'
         /\ \/ k \in Present(cells) /\ cells'[k].id = cells[k].id
            \/ nextId <= cells'[k].id

\* Then a row id that belongs to a cell belongs to it ever after.
LEMMA IdsStayWithTheirCell ==
    ASSUME TypeOK, nextId' \in Nat, cells' \in [Keys -> Cells \cup {None}], Forward
    PROVE  /\ IdsInv'
           /\ \A id \in Ids, k \in Keys : BelongsTo(id, k) => BelongsTo(id, k)'
  <1>1. nextId \in Nat /\ \A k \in Present(cells') : cells'[k].id \in Nat
    BY NoneAssumption DEF TypeOK, Present, Cells, Ids
  <1>2. IdsInv'
    BY DEF Forward, IdsInv
  <1>3. ASSUME NEW id \in Ids, NEW k \in Keys, BelongsTo(id, k)
        PROVE  BelongsTo(id, k)'
    <2>1. id \in Nat /\ id < nextId'
      BY <1>1, <1>3 DEF BelongsTo, Forward, Ids
    <2>2. ASSUME NEW l \in Present(cells'), cells'[l].id = id
          PROVE  l = k
      BY <1>1, <1>3, <2>1, <2>2 DEF BelongsTo, Forward
    <2>3. QED
      BY <2>1, <2>2 DEF BelongsTo
  <1>4. QED
    BY <1>2, <1>3

\* The requests and tags that a step leaves alone keep what they know of cells.
LEMMA CellsForward ==
    ASSUME IInv, nextId' \in Nat, cells' \in [Keys -> Cells \cup {None}], Forward,
           UNCHANGED entries, \A h \in Handlers : handlers'[h] \in {handlers[h], None}
    PROVE  IdsInv' /\ EntriesInv' /\ TaggingInv'
  <1>1. TypeOK
    BY DEF IInv
  <1>2. \A id \in Ids, k \in Keys : BelongsTo(id, k) => BelongsTo(id, k)'
    BY <1>1, IdsStayWithTheirCell
  <1>3. EntriesInv'
    BY <1>1, <1>2 DEF IInv, EntriesInv, TypeOK, Entries
  <1>4. ASSUME NEW h \in Handlers, handlers'[h] # None, handlers'[h].op = "tag"
        PROVE  BelongsTo(handlers[h].cell, handlers[h].meant)'
    <2>1. handlers[h] # None /\ handlers'[h] = handlers[h]
      BY <1>4
    <2>2. handlers[h].cell \in Ids /\ handlers[h].meant \in Keys
      BY <1>1, <1>4, <2>1 DEF TypeOK, Calls
    <2>3. BelongsTo(handlers[h].cell, handlers[h].meant)
      BY <1>4, <2>1 DEF IInv, TaggingInv, Idle
    <2>4. QED
      BY <1>2, <2>1, <2>2, <2>3 DEF BelongsTo
  <1>5. QED
    BY <1>1, <1>3, <1>4, IdsStayWithTheirCell DEF TaggingInv, Idle

-----------------------------------------------------------------------------
(* Version rows *)

VersionsOf(vs, i) == {n \in DOMAIN vs : vs[n] = i}

\* One more version row counts for its own import alone.
LEMMA OneMoreVersion ==
    ASSUME NEW vs \in Seq(Imports), NEW j \in Imports, NEW i \in Imports
    PROVE  Cardinality(VersionsOf(Append(vs, j), i))
             = Cardinality(VersionsOf(vs, i)) + IF i = j THEN 1 ELSE 0
  <1> DEFINE n == Len(vs) + 1
  <1>1. Len(vs) \in Nat /\ DOMAIN vs = 1..Len(vs) /\ DOMAIN Append(vs, j) = 1..(Len(vs) + 1)
    OBVIOUS
  <1>2. /\ \A m \in 1..Len(vs) : Append(vs, j)[m] = vs[m]
        /\ Append(vs, j)[n] = j
    OBVIOUS
  <1>3. VersionsOf(vs, i) \in SUBSET (1..Len(vs))
    BY <1>1 DEF VersionsOf
  <1>4. IsFiniteSet(1..Len(vs))
    <2>1. \A m \in Nat : IsFiniteSet(1..m)
      <3>1. TAKE m \in Nat
      <3>2. QED
        BY FS_Interval
    <2>2. QED
      BY <1>1, <2>1
  <1>5. IsFiniteSet(VersionsOf(vs, i)) /\ Cardinality(VersionsOf(vs, i)) \in Nat
    <2>1. IsFiniteSet(VersionsOf(vs, i))
      BY <1>3, <1>4, FS_Subset
    <2>2. QED
      BY <2>1, FS_CardinalityType
  <1>6. CASE i = j
    <2>1. VersionsOf(Append(vs, j), i) = VersionsOf(vs, i) \cup {n}
      BY <1>1, <1>2, <1>6 DEF VersionsOf
    <2>2. n \notin VersionsOf(vs, i)
      BY <1>1, <1>3
    <2>3. QED
      BY <1>5, <1>6, <2>1, <2>2, FS_AddElement, ZenonT(60)
  <1>7. CASE i # j
    <2>1. VersionsOf(Append(vs, j), i) = VersionsOf(vs, i)
      BY <1>1, <1>2, <1>7 DEF VersionsOf
    <2>2. QED
      BY <1>5, <1>7, <2>1
  <1>8. QED
    BY <1>6, <1>7

Completed(i) == imports[i] # None /\ imports[i].status = "completed"

\* A step that writes no version row completes no import.
LEMMA NoVersionNoChange ==
    ASSUME VersionIffCompleted, UNCHANGED versions,
           \A i \in Imports : Completed(i)' <=> Completed(i)
    PROVE  VersionIffCompleted'
  BY DEF VersionIffCompleted, Completed

\* The fields of an audit row can be set to values of their type.
LEMMA AuditRow ==
    ASSUME NEW r \in ImportRows
    PROVE  /\ \A b \in BOOLEAN : LET q == [r EXCEPT !.errors = b]
                                 IN  q \in ImportRows /\ q.status = r.status
           /\ LET q == [r EXCEPT !.status = "failed"]
              IN  q \in ImportRows /\ q.status = "failed"
  BY DEF ImportRows

\* The audit row of an import that was applied.
CompletedRow(r, ins, upd, gone) ==
    [r EXCEPT !.status = "completed", !.inserted = ins, !.updated = upd, !.deactivated = gone]

\* It is an audit row.
LEMMA CompletedRowTypes ==
    ASSUME NEW r \in ImportRows, NEW ins \in Nat, NEW upd \in Nat, NEW gone \in Nat
    PROVE  /\ CompletedRow(r, ins, upd, gone) \in ImportRows
           /\ CompletedRow(r, ins, upd, gone).status = "completed"
  BY DEF ImportRows, CompletedRow

-----------------------------------------------------------------------------
(* The initial state, and the import requests *)

\* An empty inventory without requests has the invariant.
LEMMA InitIInv == Init => IInv
  <1> SUFFICES ASSUME Init PROVE IInv
    OBVIOUS
  <1> USE InventoryAssumption, NoneAssumption DEF Init
  <1>1. \A h \in Handlers : Idle(h)
    BY DEF Idle
  <1>2. Present(cells) = {}
    BY DEF Present
  <1>3. TypeOK
    BY <1>2 DEF TypeOK
  <1>4. IdsInv /\ EntriesInv /\ TaggingInv /\ ImportsInv /\ OwnImportInv
    BY <1>1, <1>2 DEF IdsInv, EntriesInv, TaggingInv, ImportsInv, OwnImportInv
  <1>5. VersionIffCompleted
    <2> USE DEF VersionIffCompleted
    <2>1. TAKE i \in Imports
    <2>2. {n \in DOMAIN versions : versions[n] = i} = {} /\ imports[i] = None
      OBVIOUS
    <2>3. QED
      BY <2>2, FS_EmptySet
  <1>6. QED
    BY <1>3, <1>4, <1>5 DEF IInv

\* The audit row that Import writes is one.
LEMMA FirstRow ==
    ASSUME NEW file \in Files, NEW mode \in Modes
    PROVE  [mode |-> mode, status |-> StatusAtFirst(file, mode),
            valid |-> Cardinality(Accepted(file)), inserted |-> 0, updated |-> 0,
            deactivated |-> 0, errors |-> FALSE] \in ImportRows
  <1>1. StatusAtFirst(file, mode) \in {"validated", "failed", "pending"}
    BY DEF StatusAtFirst
  <1>2. Cardinality(Accepted(file)) \in Nat
    <2>1. file \in Seq(Rows)
      BY InventoryAssumption
    <2>2. Accepted(file) \in SUBSET (1..Len(file)) /\ Len(file) \in Nat
      BY <2>1 DEF Accepted
    <2>3. \A n \in Nat : IsFiniteSet(1..n)
      <3>1. TAKE n \in Nat
      <3>2. QED
        BY FS_Interval
    <2>4. IsFiniteSet(Accepted(file))
      BY <2>2, <2>3, FS_Subset
    <2>5. QED
      BY <2>4, FS_CardinalityType
  <1>3. QED
    BY <1>1, <1>2 DEF ImportRows

\* A request that ends, and sets its own import's audit row at most, leaves the
\* others' imports to them.
LEMMA RequestEnds ==
    ASSUME TypeOK, ImportsInv, OwnImportInv, NEW h \in Handlers,
           handlers' = [handlers EXCEPT ![h] = None],
           \A i \in Imports : imports'[i] = imports[i]
                \/ (~Idle(h) /\ handlers[h].op = "import" /\ i = handlers[h].imp)
    PROVE  ImportsInv' /\ OwnImportInv'
  <1>1. \A g \in Handlers : ~Idle(g)' => g # h /\ ~Idle(g) /\ handlers'[g] = handlers[g]
    BY DEF Idle, TypeOK
  <1>2. ASSUME NEW g \in Handlers, ~Idle(g)', handlers'[g].op = "import"
        PROVE  handlers[g].imp \in Imports /\ imports'[handlers[g].imp] = imports[handlers[g].imp]
    <2>1. g # h /\ ~Idle(g) /\ handlers'[g] = handlers[g]
      BY <1>1, <1>2
    <2>2. handlers[g] \in Calls
      BY <2>1 DEF TypeOK, Idle
    <2>3. handlers[g].imp \in Imports
      BY <1>2, <2>1, <2>2 DEF Calls
    <2>4. QED
      BY <1>2, <2>1, <2>3 DEF OwnImportInv
  <1>3. ImportsInv'
    BY <1>1, <1>2 DEF ImportsInv
  <1>4. OwnImportInv'
    BY <1>1 DEF OwnImportInv
  <1>5. QED
    BY <1>3, <1>4

\* Steps that leave cells and tags alone, and start no tagging, keep what is
\* known of them.
LEMMA CellsUntouched ==
    ASSUME IInv, UNCHANGED <<cells, nextId, entries>>,
           \A h \in Handlers : ~Idle(h)' /\ handlers'[h].op = "tag" => handlers'[h] = handlers[h]
    PROVE  IdsInv' /\ EntriesInv' /\ TaggingInv'
  <1>1. \A id, k : BelongsTo(id, k) <=> BelongsTo(id, k)'
    BY DEF BelongsTo, Present
  <1>2. IdsInv'
    BY DEF IInv, IdsInv, Present
  <1>3. EntriesInv'
    BY <1>1 DEF IInv, EntriesInv
  <1>4. TaggingInv'
    <2>1. SUFFICES ASSUME NEW h \in Handlers, ~Idle(h)', handlers'[h].op = "tag"
                   PROVE  BelongsTo(handlers[h].cell, handlers[h].meant)' /\ handlers'[h] = handlers[h]
      BY DEF TaggingInv, BelongsTo
    <2>2. handlers'[h] = handlers[h] /\ ~Idle(h)
      BY <2>1 DEF Idle
    <2>3. BelongsTo(handlers[h].cell, handlers[h].meant)
      BY <2>1, <2>2 DEF IInv, TaggingInv
    <2>4. QED
      BY <2>2, <2>3 DEF BelongsTo, Present
  <1>5. QED
    BY <1>2, <1>3, <1>4

\* The request gets an import of its own; its audit row is not completed yet.
LEMMA CreateImportKeeps ==
    ASSUME IInv, NEW h \in Handlers, NEW i \in Imports, NEW file \in Files, NEW mode \in Modes,
           CreateImport(h, i, file, mode)
    PROVE  IInv'
  <1> DEFINE r == [mode |-> mode, status |-> StatusAtFirst(file, mode),
                   valid |-> Cardinality(Accepted(file)), inserted |-> 0, updated |-> 0,
                   deactivated |-> 0, errors |-> FALSE]
             c == CASE HasErrors(file) ->
                         [op |-> "import", phase |-> "errors", imp |-> i, file |-> file, mode |-> mode]
                    [] ~HasErrors(file) /\ mode = "validate-only" -> None
                    [] OTHER ->
                         [op |-> "import", phase |-> "apply", imp |-> i, file |-> file, mode |-> mode]
  <1>1. /\ Idle(h) /\ imports[i] = None
        /\ imports' = [imports EXCEPT ![i] = r]
        /\ handlers' = [handlers EXCEPT ![h] = c]
        /\ UNCHANGED <<cells, nextId, entries, versions>>
    BY DEF CreateImport, Goto
  <1>2. r \in ImportRows /\ r.status = StatusAtFirst(file, mode) /\ r # None
    BY FirstRow, NoneAssumption
  <1>3. r.status # "completed"
    BY <1>2 DEF StatusAtFirst
  <1>4. c = None \/ /\ c \in Calls /\ c.op = "import" /\ c.imp = i
                    /\ c.phase # "errors" => r.status = "pending"
                    /\ c.phase = "apply" => ~HasErrors(c.file)
    BY <1>2 DEF Calls, StatusAtFirst
  <1> HIDE DEF r, c
  <1>5. TypeOK'
    BY <1>1, <1>2, <1>4 DEF IInv, TypeOK, Present
  <1>6. \A g \in Handlers : handlers'[g] = IF g = h THEN c ELSE handlers[g]
    BY <1>1 DEF IInv, TypeOK
  <1>7. \A j \in Imports : imports'[j] = IF j = i THEN r ELSE imports[j]
    BY <1>1 DEF IInv, TypeOK
  <1>8. IdsInv' /\ EntriesInv' /\ TaggingInv'
    <2>1. \A g \in Handlers : ~Idle(g)' /\ handlers'[g].op = "tag" => handlers'[g] = handlers[g]
      BY <1>4, <1>6 DEF Idle
    <2>2. QED
      BY <1>1, <2>1, CellsUntouched
  <1>9. \A g \in Handlers : ~Idle(g) /\ handlers[g].op = "import"
                             => handlers[g].imp \in Imports /\ handlers[g].imp # i
    <2>1. SUFFICES ASSUME NEW g \in Handlers, ~Idle(g), handlers[g].op = "import"
                   PROVE  handlers[g].imp \in Imports /\ handlers[g].imp # i
      OBVIOUS
    <2>2. handlers[g] \in Calls
      BY <2>1 DEF IInv, TypeOK, Idle
    <2>3. QED
      BY <1>1, <2>1, <2>2 DEF IInv, ImportsInv, Calls
  <1>10. ImportsInv'
    BY <1>1, <1>2, <1>4, <1>6, <1>7, <1>9 DEF IInv, ImportsInv, Idle
  <1>11. OwnImportInv'
    BY <1>4, <1>6, <1>9 DEF IInv, OwnImportInv, Idle
  <1>12. VersionIffCompleted'
    BY <1>1, <1>2, <1>3, <1>7, NoVersionNoChange DEF IInv, Completed
  <1>13. QED
    BY <1>5, <1>8, <1>10, <1>11, <1>12 DEF IInv

\* What is known of a request that works on an import.
LEMMA ImportRequest ==
    ASSUME IInv, NEW h \in Handlers, ~Idle(h), handlers[h].op = "import"
    PROVE  /\ handlers[h] \in Calls
           /\ handlers[h].imp \in Imports /\ handlers[h].file \in Files /\ handlers[h].mode \in Modes
           /\ imports[handlers[h].imp] \in ImportRows
           /\ handlers[h].phase # "errors" => imports[handlers[h].imp].status = "pending"
           /\ handlers[h].phase = "apply" => ~HasErrors(handlers[h].file)
  <1>1. handlers[h] \in Calls
    BY DEF IInv, TypeOK, Idle
  <1>2. handlers[h].imp \in Imports /\ handlers[h].file \in Files /\ handlers[h].mode \in Modes
    BY <1>1 DEF Calls
  <1>3. QED
    BY <1>1, <1>2 DEF IInv, TypeOK, ImportsInv

\* A request may mark the audit row of its import, short of completing it, and
\* end or stay on it in another phase.
LEMMA AuditRowMarked ==
    ASSUME IInv, NEW h \in Handlers, ~Idle(h), handlers[h].op = "import",
           NEW q \in ImportRows, imports' = [imports EXCEPT ![handlers[h].imp] = q],
           q.status = "completed" <=> imports[handlers[h].imp].status = "completed",
           UNCHANGED <<cells, nextId, entries, versions>>,
           \/ handlers' = [handlers EXCEPT ![h] = None]
           \/ /\ handlers' = [handlers EXCEPT ![h].phase = "failed"]
              /\ q.status = "pending"
    PROVE  IInv'
  <1> DEFINE i == handlers[h].imp
  <1>1. /\ handlers[h] \in Calls /\ i \in Imports /\ handlers[h] # None
        /\ TypeOK
    BY ImportRequest DEF IInv, Idle
  <1>2. \A j \in Imports : imports'[j] = IF j = i THEN q ELSE imports[j]
    BY <1>1 DEF TypeOK
  <1>3. VersionIffCompleted'
    <2>1. q # None /\ imports[i] # None
      BY NoneAssumption, ImportRequest
    <2>2. \A j \in Imports : Completed(j)' <=> Completed(j)
      BY <1>2, <2>1 DEF Completed
    <2>3. QED
      BY <2>2, NoVersionNoChange DEF IInv
  <1>4. CASE handlers' = [handlers EXCEPT ![h] = None]
    <2>1. TypeOK'
      BY <1>1, <1>4 DEF TypeOK, Present
    <2>2. \A g \in Handlers : ~Idle(g)' => handlers'[g] = handlers[g]
      BY <1>1, <1>4 DEF TypeOK, Idle
    <2>3. IdsInv' /\ EntriesInv' /\ TaggingInv'
      BY <2>2, CellsUntouched
    <2>4. ImportsInv' /\ OwnImportInv'
      <3>1. TypeOK /\ ImportsInv /\ OwnImportInv
        BY DEF IInv
      <3>2. \A j \in Imports : imports'[j] = imports[j]
              \/ (~Idle(h) /\ handlers[h].op = "import" /\ j = handlers[h].imp)
        BY <1>2
      <3>3. QED
        BY <1>4, <3>1, <3>2, RequestEnds
    <2>5. QED
      BY <1>3, <2>1, <2>3, <2>4 DEF IInv
  <1>5. CASE handlers' = [handlers EXCEPT ![h].phase = "failed"] /\ q.status = "pending"
    <2> DEFINE c == [handlers[h] EXCEPT !.phase = "failed"]
    <2>1. c \in Calls /\ c.op = "import" /\ c.imp = i /\ c.phase = "failed"
      BY <1>1 DEF Calls
    <2>2. \A g \in Handlers : handlers'[g] = IF g = h THEN c ELSE handlers[g]
      BY <1>1, <1>5 DEF TypeOK
    <2> HIDE DEF c
    <2>3. TypeOK'
      <3>1. handlers' \in [Handlers -> Calls \cup {None}]
        BY <1>1, <1>5, <2>1, <2>2 DEF TypeOK
      <3>2. QED
        BY <1>1, <3>1 DEF TypeOK, Present
    <2>4. IdsInv' /\ EntriesInv' /\ TaggingInv'
      <3>1. \A g \in Handlers : ~Idle(g)' /\ handlers'[g].op = "tag" => handlers'[g] = handlers[g]
        BY <2>1, <2>2
      <3>2. QED
        BY <3>1, CellsUntouched
    <2>5. \A g \in Handlers : ~Idle(g) /\ handlers[g].op = "import" /\ g # h
                               => handlers[g].imp \in Imports \ {i}
      <3>1. SUFFICES ASSUME NEW g \in Handlers, ~Idle(g), handlers[g].op = "import", g # h
                     PROVE  handlers[g].imp \in Imports /\ handlers[g].imp # i
        OBVIOUS
      <3>2. QED
        BY <3>1, ImportRequest DEF IInv, OwnImportInv
    <2>6. \A g \in Handlers : g # h /\ ~Idle(g)' => ~Idle(g) /\ handlers'[g] = handlers[g]
      BY <2>2 DEF Idle
    <2>7. imports'[i] = q /\ q # None /\ q.status = "pending"
      BY <1>1, <1>2, <1>5, NoneAssumption
    <2>8. ImportsInv'
      <3>1. SUFFICES ASSUME NEW g \in Handlers, ~Idle(g)', handlers'[g].op = "import"
                     PROVE  /\ imports'[handlers'[g].imp] # None
                            /\ handlers'[g].phase # "errors" => imports'[handlers'[g].imp].status = "pending"
                            /\ handlers'[g].phase = "apply" => ~HasErrors(handlers'[g].file)
        BY DEF ImportsInv
      <3>2. CASE g = h
        BY <2>1, <2>2, <2>7, <3>2
      <3>3. CASE g # h
        BY <1>2, <2>5, <2>6, <3>1, <3>3 DEF IInv, ImportsInv
      <3>4. QED
        BY <3>2, <3>3
    <2>9. OwnImportInv'
      BY <2>1, <2>2, <2>5, <2>6 DEF IInv, OwnImportInv
    <2>10. QED
      BY <1>3, <2>3, <2>4, <2>8, <2>9 DEF IInv
  <1>6. QED
    BY <1>4, <1>5

\* The rows of errors leave the audit row as it is.
LEMMA StoreImportErrorsKeeps ==
    ASSUME IInv, NEW h \in Handlers, StoreImportErrors(h)
    PROVE  IInv'
  <1>1. ~Idle(h) /\ handlers[h].op = "import"
    BY DEF StoreImportErrors, InPhase
  <1> DEFINE r == imports[handlers[h].imp]
             q == [r EXCEPT !.errors = TRUE]
  <1>2. r \in ImportRows
    BY <1>1, ImportRequest
  <1>3. q \in ImportRows /\ q.status = r.status
    BY <1>2, AuditRow
  <1>4. CASE imports' = [imports EXCEPT ![handlers[h].imp].errors = TRUE]
    <2>1. imports' = [imports EXCEPT ![handlers[h].imp] = q]
      BY <1>4
    <2> HIDE DEF q
    <2>2. QED
      BY <1>1, <1>3, <2>1, AuditRowMarked DEF StoreImportErrors, Goto
  <1>5. CASE UNCHANGED imports
    <2>1. imports' = [imports EXCEPT ![handlers[h].imp] = r]
      BY <1>5 DEF IInv, TypeOK
    <2> HIDE DEF r
    <2>2. QED
      BY <1>1, <1>2, <2>1, AuditRowMarked DEF StoreImportErrors, Goto, r
  <1>6. QED
    BY <1>4, <1>5 DEF StoreImportErrors

\* A transaction rolled back changes no cell and adds no version; the audit row, if
\* its failure is stored, was pending.
LEMMA ApplyFailsKeeps ==
    ASSUME IInv, NEW h \in Handlers, ApplyFails(h)
    PROVE  IInv'
  <1>1. ~Idle(h) /\ handlers[h].op = "import" /\ handlers[h].phase = "apply"
    BY DEF ApplyFails, InPhase
  <1>2. PICK stored \in BOOLEAN : imports' = [imports EXCEPT ![handlers[h].imp].errors = stored]
    BY DEF ApplyFails
  <1> DEFINE q == [imports[handlers[h].imp] EXCEPT !.errors = stored]
  <1>3. /\ imports[handlers[h].imp] \in ImportRows
        /\ imports[handlers[h].imp].status = "pending"
    BY <1>1, ImportRequest
  <1>4. q \in ImportRows /\ q.status = "pending"
    BY <1>3, AuditRow
  <1>5. imports' = [imports EXCEPT ![handlers[h].imp] = q]
    BY <1>2
  <1> HIDE DEF q
  <1>6. QED
    BY <1>1, <1>3, <1>4, <1>5, AuditRowMarked DEF ApplyFails

\* A row marked failed was pending, so that no version is lost.
LEMMA MarkImportFailedKeeps ==
    ASSUME IInv, NEW h \in Handlers, MarkImportFailed(h)
    PROVE  IInv'
  <1>1. ~Idle(h) /\ handlers[h].op = "import" /\ handlers[h].phase = "failed"
    BY DEF MarkImportFailed, InPhase
  <1> DEFINE r == imports[handlers[h].imp]
             q == [r EXCEPT !.status = "failed"]
  <1>2. r \in ImportRows /\ r.status = "pending"
    BY <1>1, ImportRequest
  <1>3. q \in ImportRows /\ q.status = "failed"
    BY <1>2, AuditRow
  <1>4. CASE imports' = [imports EXCEPT ![handlers[h].imp].status = "failed"]
    <2>1. imports' = [imports EXCEPT ![handlers[h].imp] = q]
      BY <1>4
    <2> HIDE DEF q
    <2>2. QED
      BY <1>1, <1>2, <1>3, <2>1, AuditRowMarked DEF MarkImportFailed, Goto
  <1>5. CASE UNCHANGED imports
    <2>1. imports' = [imports EXCEPT ![handlers[h].imp] = r]
      BY <1>5 DEF IInv, TypeOK
    <2> HIDE DEF r
    <2>2. QED
      BY <1>1, <1>2, <2>1, AuditRowMarked DEF MarkImportFailed, Goto, r
  <1>6. QED
    BY <1>4, <1>5 DEF MarkImportFailed

-----------------------------------------------------------------------------
(* The transaction of an import *)

\* The cell k after file is applied: as merged, or the old one inactive if a
\* replace found it missing from the file.
Applied(file, mode, k) ==
    IF k \in Deactivated(file, mode) THEN [cells[k] EXCEPT !.active = FALSE] ELSE Merged(file)[k]

\* What an import makes of a cell: it keeps its row id, and a new one gets the next.
LEMMA AppliedCell ==
    ASSUME IInv, NEW file \in Files, NEW mode \in Modes, NEW k \in Keys
    PROVE  LET c == Applied(file, mode, k)
           IN  /\ c \in Cells \cup {None}
               /\ k \in Present(cells) => c \in Cells /\ c.id = cells[k].id
               /\ k \notin Present(cells) /\ c # None =>
                    \E i \in NewRows(file) : file[i].key = k /\ c.id = NewId(file, i)
  <1>1. nextId \in Ids /\ cells \in [Keys -> Cells \cup {None}]
    BY InventoryAssumption DEF IInv, TypeOK, Ids
  <1>2. CASE k \in Deactivated(file, mode)
    <2>1. k \in Present(cells)
      BY <1>2 DEF Deactivated, Active
    <2>2. cells[k] \in Cells
      BY <1>1, <2>1 DEF Present
    <2>3. QED
      BY <1>2, <2>1, <2>2 DEF Applied, Cells
  <1>3. CASE k \notin Deactivated(file, mode)
    <2>1. Applied(file, mode, k) = Merged(file)[k]
      BY <1>3 DEF Applied
    <2>2. k \notin Present(cells) => cells[k] = None
      BY DEF Present
    <2>3. k \notin KeysOf(file) => Merged(file)[k] = cells[k]
      BY <1>1, MergedCell
    <2>4. k \in KeysOf(file) => Merged(file)[k] \in Cells
      BY <1>1, MergedCell
    <2>5. k \in Present(cells) => Merged(file)[k] \in Cells /\ Merged(file)[k].id = cells[k].id
      BY <1>1, MergedCell
    <2>6. k \in KeysOf(file) \ Present(cells) =>
            \E i \in NewRows(file) : file[i].key = k /\ Merged(file)[k].id = NewId(file, i)
      BY <1>1, MergedCell
    <2>7. QED
      BY <1>1, <2>1, <2>2, <2>3, <2>4, <2>5, <2>6
  <1>4. QED
    BY <1>2, <1>3

\* The transaction moves the row ids forward and gives no two cells one.
LEMMA AppliedForward ==
    ASSUME IInv, NEW file \in Files, NEW mode \in Modes, ~HasErrors(file),
           cells' = [k \in Keys |-> Applied(file, mode, k)],
           nextId' = nextId + Cardinality(NewRows(file))
    PROVE  /\ cells' \in [Keys -> Cells \cup {None}] /\ nextId' \in Nat /\ nextId <= nextId'
           /\ Forward
           /\ \A k, l \in Present(cells') : cells'[k].id = cells'[l].id => k = l
           /\ \A k \in Present(cells) : k \in Present(cells') /\ cells'[k].id = cells[k].id
  <1>1. nextId \in Nat /\ Cardinality(NewRows(file)) \in Nat
    BY InventoryAssumption, NewRowsCounted DEF IInv, TypeOK
  <1>2. cells' \in [Keys -> Cells \cup {None}]
    BY AppliedCell
  <1>3. \A k \in Present(cells) : k \in Present(cells') /\ cells'[k].id = cells[k].id
    <2>1. TAKE k \in Present(cells)
    <2>2. k \in Keys
      BY DEF Present
    <2>3. cells'[k] \in Cells /\ cells'[k].id = cells[k].id
      BY <2>2, AppliedCell
    <2>4. QED
      BY <2>2, <2>3, NoneAssumption DEF Present
  <1>4. \A k \in Present(cells') \ Present(cells) :
           \E i \in NewRows(file) : file[i].key = k /\ cells'[k].id = NewId(file, i)
    <2>1. TAKE k \in Present(cells') \ Present(cells)
    <2>2. k \in Keys /\ cells'[k] # None /\ cells'[k] = Applied(file, mode, k)
      BY DEF Present
    <2>3. QED
      BY <2>2, AppliedCell
  <1>5. \A k \in Present(cells') \ Present(cells) :
           cells'[k].id \in Nat /\ nextId <= cells'[k].id /\ cells'[k].id < nextId'
    BY <1>1, <1>4, NewIdsFresh
  <1>6. \A k \in Present(cells) : cells[k].id \in Nat /\ cells[k].id < nextId
    BY NoneAssumption DEF IInv, IdsInv, TypeOK, Present, Cells, Ids
  <1>7. Forward
    BY <1>1, <1>3, <1>5, <1>6 DEF Forward
  <1>8. ASSUME NEW k \in Present(cells'), NEW l \in Present(cells'), cells'[k].id = cells'[l].id
        PROVE  k = l
    <2>1. CASE k \in Present(cells) /\ l \in Present(cells)
      BY <1>3, <1>8, <2>1 DEF IInv, TypeOK
    <2>2. CASE k \in Present(cells) /\ l \notin Present(cells)
      BY <1>1, <1>3, <1>5, <1>6, <1>8, <2>2
    <2>3. CASE k \notin Present(cells) /\ l \in Present(cells)
      BY <1>1, <1>3, <1>5, <1>6, <1>8, <2>3
    <2>4. CASE k \notin Present(cells) /\ l \notin Present(cells)
      <3>1. PICK i \in NewRows(file) : file[i].key = k /\ cells'[k].id = NewId(file, i)
        BY <1>4, <2>4
      <3>2. PICK j \in NewRows(file) : file[j].key = l /\ cells'[l].id = NewId(file, j)
        BY <1>4, <2>4
      <3>3. i \in Nat /\ j \in Nat
        BY NewRowsCounted
      <3>4. NewId(file, i) \in Nat /\ NewId(file, j) \in Nat
        BY <1>1, NewIdsFresh
      <3>5. ~(i < j) /\ ~(j < i)
        BY <1>1, <1>8, <3>1, <3>2, <3>4, NewIdsFresh
      <3>6. QED
        BY <3>1, <3>2, <3>3, <3>5
    <2>5. QED
      BY <2>1, <2>2, <2>3, <2>4
  <1>9. QED
    BY <1>1, <1>2, <1>3, <1>7, <1>8

\* What the transaction does, spelt out for the request that runs it.
LEMMA ApplyStep ==
    ASSUME IInv, NEW h \in Handlers, ApplyImport(h)
    PROVE  /\ ~Idle(h) /\ handlers[h].op = "import" /\ handlers[h].phase = "apply"
           /\ handlers[h].file \in Files /\ handlers[h].mode \in Modes
           /\ ~HasErrors(handlers[h].file)
           /\ cells' = [k \in Keys |-> Applied(handlers[h].file, handlers[h].mode, k)]
           /\ nextId' = nextId + Cardinality(NewRows(handlers[h].file))
           /\ nextId' <= MaxId + 1
           /\ \E q \in ImportRows : /\ q.status = "completed"
                                    /\ imports' = [imports EXCEPT ![handlers[h].imp] = q]
           /\ versions' = Append(versions, handlers[h].imp)
           /\ handlers' = [handlers EXCEPT ![h] = None]
           /\ UNCHANGED entries
  <1> DEFINE file == handlers[h].file
             mode == handlers[h].mode
             r == imports[handlers[h].imp]
             new == Cardinality(NewRows(file))
             gone == Cardinality(Deactivated(file, mode))
             q == CompletedRow(r, new, Len(file) - new, gone)
  <1>1. ~Idle(h) /\ handlers[h].op = "import" /\ handlers[h].phase = "apply"
    BY DEF ApplyImport, InPhase
  <1>2. file \in Files /\ mode \in Modes /\ ~HasErrors(file) /\ r \in ImportRows
    BY <1>1, ImportRequest
  <1>3. cells' = [k \in Keys |-> Applied(file, mode, k)]
    BY DEF ApplyImport, Applied
  <1>4. new \in Nat /\ Len(file) - new \in Nat
    BY <1>2, NewRowsCounted
  <1>5. gone \in Nat
    <2>1. Deactivated(file, mode) \in SUBSET Keys
      BY DEF Deactivated, Active, Present
    <2>2. IsFiniteSet(Deactivated(file, mode))
      BY <2>1, KeysAssumption, FS_Subset
    <2>3. QED
      BY <2>2, FS_CardinalityType
  <1>6. imports' = [imports EXCEPT ![handlers[h].imp] = q]
    BY DEF ApplyImport, CompletedRow
  <1>7. q \in ImportRows /\ q.status = "completed"
    <2> HIDE DEF new, gone, r
    <2>1. QED
      BY <1>2, <1>4, <1>5, CompletedRowTypes
  <1>8. nextId' = nextId + new /\ nextId' <= MaxId + 1
    <2>1. nextId' = nextId + new
      BY Zenon DEF ApplyImport
    <2>2. nextId + new - 1 <= MaxId
      BY Zenon DEF ApplyImport
    <2>3. nextId \in Nat /\ MaxId \in Nat
      BY InventoryAssumption DEF IInv, TypeOK
    <2> HIDE DEF new
    <2>4. QED
      BY <1>4, <2>1, <2>2, <2>3
  <1> HIDE DEF q, r
  <1>9. \E p \in ImportRows : p.status = "completed" /\ imports' = [imports EXCEPT ![handlers[h].imp] = p]
    BY <1>6, <1>7
  <1>10. QED
    BY <1>1, <1>2, <1>3, <1>8, <1>9 DEF ApplyImport, Goto

\* One transaction completes the audit row and adds its version; a cell that is
\* updated keeps its row id, so that the tags stay with it.
LEMMA ApplyImportKeeps ==
    ASSUME IInv, NEW h \in Handlers, ApplyImport(h)
    PROVE  IInv'
  <1> DEFINE i == handlers[h].imp
  <1>1. ~Idle(h) /\ handlers[h].op = "import" /\ handlers[h].phase = "apply" /\ i \in Imports
    BY ApplyStep, ImportRequest
  <1>2. /\ cells' \in [Keys -> Cells \cup {None}] /\ nextId' \in Nat /\ nextId <= nextId'
        /\ Forward
        /\ \A k, l \in Present(cells') : cells'[k].id = cells'[l].id => k = l
    BY ApplyStep, AppliedForward
  <1>3. PICK q \in ImportRows : q.status = "completed" /\ imports' = [imports EXCEPT ![i] = q]
    BY ApplyStep
  <1>4. handlers' = [handlers EXCEPT ![h] = None] /\ versions' = Append(versions, i)
    BY ApplyStep
  <1>5. TypeOK
    BY DEF IInv
  <1>6. \A j \in Imports : imports'[j] = IF j = i THEN q ELSE imports[j]
    BY <1>1, <1>3, <1>5 DEF TypeOK
  <1>7. TypeOK'
    <2>1. nextId' \in 1..(MaxId + 1)
      <3>1. nextId' <= MaxId + 1
        BY ApplyStep
      <3>2. nextId \in Nat /\ 1 <= nextId
        BY <1>5 DEF TypeOK
      <3>3. MaxId \in Nat
        BY InventoryAssumption
      <3>4. nextId' \in Nat /\ nextId <= nextId'
        BY <1>2
      <3>5. QED
        BY <3>1, <3>2, <3>3, <3>4
    <2>2. UNCHANGED entries
      BY ApplyStep
    <2>3. QED
      BY <1>1, <1>2, <1>3, <1>4, <1>5, <2>1, <2>2 DEF TypeOK, Present
  <1>8. IdsInv' /\ EntriesInv' /\ TaggingInv'
    <2>1. \A g \in Handlers : handlers'[g] \in {handlers[g], None}
      BY <1>4, <1>5 DEF TypeOK
    <2>2. UNCHANGED entries
      BY ApplyStep
    <2>3. QED
      BY <1>2, <2>1, <2>2, CellsForward
  <1>9. ImportsInv' /\ OwnImportInv'
    <2>1. TypeOK /\ ImportsInv /\ OwnImportInv
      BY DEF IInv
    <2>2. \A j \in Imports : imports'[j] = imports[j]
            \/ (~Idle(h) /\ handlers[h].op = "import" /\ j = handlers[h].imp)
      BY <1>1, <1>6
    <2>3. QED
      BY <1>4, <2>1, <2>2, RequestEnds
  <1>10. VersionIffCompleted'
    <2>1. q # None /\ imports[i].status = "pending" /\ versions \in Seq(Imports)
      BY <1>1, <1>5, ImportRequest, NoneAssumption DEF TypeOK
    <2>2. \A j \in Imports : Cardinality(VersionsOf(versions, j)) = IF Completed(j) THEN 1 ELSE 0
      BY DEF IInv, VersionIffCompleted, VersionsOf, Completed
    <2>3. \A j \in Imports : Completed(j)' <=> Completed(j) \/ j = i
      BY <1>3, <1>6, <2>1 DEF Completed
    <2>4. ~Completed(i)
      BY <2>1 DEF Completed
    <2>5. \A j \in Imports : Cardinality(VersionsOf(versions', j))
                               = Cardinality(VersionsOf(versions, j)) + IF j = i THEN 1 ELSE 0
      BY <1>1, <1>4, <2>1, OneMoreVersion
    <2>6. \A j \in Imports : Cardinality(VersionsOf(versions', j)) = IF Completed(j)' THEN 1 ELSE 0
      BY <2>2, <2>3, <2>4, <2>5
    <2>7. QED
      BY <2>6 DEF VersionIffCompleted, VersionsOf, Completed
  <1>11. QED
    BY <1>7, <1>8, <1>9, <1>10 DEF IInv

-----------------------------------------------------------------------------
(* Single cells and tags *)

\* Steps that leave the imports alone, and start none, keep what is known of
\* them.
LEMMA ImportsUntouched ==
    ASSUME IInv, UNCHANGED <<imports, versions>>,
           \A h \in Handlers : ~Idle(h)' /\ handlers'[h].op = "import" => handlers'[h] = handlers[h]
    PROVE  ImportsInv' /\ OwnImportInv' /\ VersionIffCompleted'
  <1>1. \A h \in Handlers : ~Idle(h)' /\ handlers'[h].op = "import"
                             => ~Idle(h) /\ handlers'[h] = handlers[h]
    BY DEF Idle
  <1>2. ImportsInv'
    BY <1>1 DEF IInv, ImportsInv
  <1>3. OwnImportInv'
    BY <1>1 DEF IInv, OwnImportInv
  <1>4. VersionIffCompleted'
    BY DEF IInv, VersionIffCompleted
  <1>5. QED
    BY <1>2, <1>3, <1>4

\* A cell that is there belongs to its row id.
LEMMA CellBelongs ==
    ASSUME IInv, NEW k \in Present(cells)
    PROVE  k \in Keys /\ cells[k] \in Cells /\ cells[k].id \in Ids /\ BelongsTo(cells[k].id, k)
  <1>1. k \in Keys /\ cells[k] \in Cells /\ cells[k].id \in Ids
    BY DEF IInv, TypeOK, Present, Cells
  <1>2. BelongsTo(cells[k].id, k)
    BY DEF IInv, TypeOK, IdsInv, BelongsTo
  <1>3. QED
    BY <1>1, <1>2

\* A new cell has a row id that no tag has yet.
LEMMA CreateCellKeeps ==
    ASSUME IInv, NEW r \in Forms, CreateCell(r.key, r.active, r.zones)
    PROVE  IInv'
  <1> DEFINE k == r.key
             c == [id |-> nextId, active |-> r.active, zones |-> r.zones]
  <1>1. /\ cells[k] = None /\ nextId <= MaxId
        /\ cells' = [cells EXCEPT ![k] = c] /\ nextId' = nextId + 1
        /\ UNCHANGED <<entries, imports, versions, handlers>>
    BY DEF CreateCell
  <1>2. TypeOK /\ nextId \in Nat /\ 1 <= nextId /\ MaxId \in Nat
    BY InventoryAssumption DEF IInv, TypeOK
  <1>3. k \in Keys /\ c \in Cells /\ c # None /\ c.id = nextId
    BY <1>2, InventoryAssumption, NoneAssumption DEF Rows, Cells, Ids
  <1> HIDE DEF k, c
  <1>4. \A l \in Keys : cells'[l] = IF l = k THEN c ELSE cells[l]
    BY <1>1, <1>2 DEF TypeOK
  <1>5. cells' \in [Keys -> Cells \cup {None}] /\ nextId' \in Nat /\ nextId' \in 1..(MaxId + 1)
    BY <1>1, <1>2, <1>3 DEF TypeOK
  <1>6. \A l \in Present(cells) : cells[l].id \in Nat /\ cells[l].id < nextId
    BY CellBelongs DEF IInv, IdsInv, Ids
  <1>7. Forward
    BY <1>1, <1>2, <1>3, <1>4, <1>6 DEF Forward, Present
  <1>8. \A l, m \in Present(cells') : cells'[l].id = cells'[m].id => l = m
    BY <1>2, <1>3, <1>4, <1>6 DEF Present, TypeOK
  <1>9. TypeOK'
    BY <1>1, <1>2, <1>5, <1>8 DEF TypeOK, Present
  <1>10. IdsInv' /\ EntriesInv' /\ TaggingInv'
    BY <1>1, <1>5, <1>7, CellsForward
  <1>11. ImportsInv' /\ OwnImportInv' /\ VersionIffCompleted'
    BY <1>1, ImportsUntouched
  <1>12. QED
    BY <1>9, <1>10, <1>11 DEF IInv

\* The first half of a deletion changes no table.
LEMMA DeleteCellBeginKeeps ==
    ASSUME IInv, NEW h \in Handlers, NEW id \in 1..(nextId - 1), DeleteCellBegin(h, id)
    PROVE  IInv'
  <1> DEFINE c == [op |-> "delete", cell |-> id]
  <1>1. nextId \in Nat
    BY InventoryAssumption DEF IInv, TypeOK
  <1>2. c \in Calls /\ c.op = "delete"
    BY <1>1 DEF Calls, Ids
  <1>3. handlers' = [handlers EXCEPT ![h] = c] /\ UNCHANGED <<cells, nextId, entries, imports, versions>>
    BY DEF DeleteCellBegin, Goto
  <1> HIDE DEF c
  <1>4. \A g \in Handlers : handlers'[g] = IF g = h THEN c ELSE handlers[g]
    BY <1>3 DEF IInv, TypeOK
  <1>5. TypeOK'
    BY <1>2, <1>3 DEF IInv, TypeOK, Present
  <1>6. IdsInv' /\ EntriesInv' /\ TaggingInv'
    BY <1>2, <1>3, <1>4, CellsUntouched
  <1>7. ImportsInv' /\ OwnImportInv' /\ VersionIffCompleted'
    BY <1>2, <1>3, <1>4, ImportsUntouched
  <1>8. QED
    BY <1>5, <1>6, <1>7 DEF IInv

\* The row id of a cell that goes is never given again: a tag left over names no other.
LEMMA DeleteCellEndKeeps ==
    ASSUME IInv, NEW h \in Handlers, DeleteCellEnd(h)
    PROVE  IInv'
  <1> DEFINE gone == {k \in Present(cells) : cells[k].id = handlers[h].cell}
  <1>1. /\ handlers' = [handlers EXCEPT ![h] = None]
        /\ UNCHANGED <<nextId, entries, imports, versions>>
        /\ cells' = [k \in Keys |-> IF k \in gone THEN None ELSE cells[k]] \/ UNCHANGED cells
    BY DEF DeleteCellEnd, Goto
  <1>2. TypeOK /\ nextId \in Nat
    BY InventoryAssumption DEF IInv, TypeOK
  <1> HIDE DEF gone
  <1>3. cells' \in [Keys -> Cells \cup {None}] /\ \A k \in Keys : cells'[k] \in {None, cells[k]}
    BY <1>1, <1>2 DEF TypeOK
  <1>4. \A k \in Present(cells') : k \in Present(cells) /\ cells'[k] = cells[k]
    BY <1>3 DEF Present
  <1>5. \A k \in Present(cells) : cells[k].id < nextId
    BY DEF IInv, IdsInv
  <1>6. Forward
    BY <1>1, <1>2, <1>4, <1>5 DEF Forward
  <1>7. TypeOK'
    BY <1>1, <1>2, <1>3, <1>4 DEF TypeOK, Present
  <1>8. \A g \in Handlers : handlers'[g] \in {handlers[g], None}
    BY <1>1, <1>2 DEF TypeOK
  <1>9. IdsInv' /\ EntriesInv' /\ TaggingInv'
    BY <1>1, <1>2, <1>3, <1>6, <1>8, CellsForward
  <1>10. ImportsInv' /\ OwnImportInv' /\ VersionIffCompleted'
    BY <1>1, <1>8, ImportsUntouched DEF Idle
  <1>11. QED
    BY <1>7, <1>9, <1>10 DEF IInv

\* The row id looked up is that of the cell to be tagged.
LEMMA CreateEntryBeginKeeps ==
    ASSUME IInv, NEW h \in Handlers, NEW k \in Keys, NEW tag \in Written,
           CreateEntryBegin(h, k, tag)
    PROVE  IInv'
  <1> DEFINE c == [op |-> "tag", cell |-> cells[k].id, tag |-> tag, meant |-> k]
  <1>1. /\ cells[k] # None
        /\ handlers' = [handlers EXCEPT ![h] = c]
        /\ UNCHANGED <<cells, nextId, entries, imports, versions>>
    BY DEF CreateEntryBegin, Goto
  <1>2. k \in Present(cells)
    BY <1>1 DEF Present
  <1>3. cells[k].id \in Ids /\ BelongsTo(cells[k].id, k)
    BY <1>2, CellBelongs
  <1>4. c \in Calls /\ c.op = "tag" /\ c.cell = cells[k].id /\ c.meant = k
    BY <1>3, InventoryAssumption DEF Calls
  <1> HIDE DEF c
  <1>5. \A g \in Handlers : handlers'[g] = IF g = h THEN c ELSE handlers[g]
    BY <1>1 DEF IInv, TypeOK
  <1>6. TypeOK'
    BY <1>1, <1>4 DEF IInv, TypeOK, Present
  <1>7. \A id, l : BelongsTo(id, l) <=> BelongsTo(id, l)'
    BY <1>1 DEF BelongsTo, Present
  <1>8. IdsInv' /\ EntriesInv'
    BY <1>1, <1>7 DEF IInv, IdsInv, EntriesInv, Present
  <1>9. TaggingInv'
    <2>1. SUFFICES ASSUME NEW g \in Handlers, handlers'[g] # None, handlers'[g].op = "tag"
                   PROVE  BelongsTo(handlers'[g].cell, handlers'[g].meant)
      BY <1>1 DEF TaggingInv, Idle, BelongsTo, Present
    <2>2. CASE g = h
      BY <1>3, <1>4, <1>5, <2>2
    <2>3. CASE g # h
      BY <1>5, <2>1, <2>3 DEF IInv, TaggingInv, Idle
    <2>4. QED
      BY <2>2, <2>3
  <1>10. ImportsInv' /\ OwnImportInv' /\ VersionIffCompleted'
    BY <1>1, <1>4, <1>5, ImportsUntouched
  <1>11. QED
    BY <1>6, <1>8, <1>9, <1>10 DEF IInv

\* Tags may come and go as long as every one belongs to the cell it is meant for.
LEMMA EntriesChange ==
    ASSUME IInv, UNCHANGED <<cells, nextId, imports, versions>>,
           \A h \in Handlers : handlers'[h] \in {handlers[h], None},
           handlers' \in [Handlers -> Calls \cup {None}],
           entries' \subseteq Entries, \A e \in entries' : BelongsTo(e.cell, e.meant)
    PROVE  IInv'
  <1>1. \A id, l : BelongsTo(id, l) <=> BelongsTo(id, l)'
    BY DEF BelongsTo, Present
  <1>2. \A h \in Handlers : ~Idle(h)' => ~Idle(h) /\ handlers'[h] = handlers[h]
    BY DEF Idle
  <1>3. TypeOK'
    BY DEF IInv, TypeOK, Present
  <1>4. IdsInv' /\ EntriesInv'
    BY <1>1 DEF IInv, IdsInv, EntriesInv, Present
  <1>5. TaggingInv'
    <2>1. SUFFICES ASSUME NEW g \in Handlers, ~Idle(g)', handlers'[g].op = "tag"
                   PROVE  BelongsTo(handlers'[g].cell, handlers'[g].meant)
      BY DEF TaggingInv, BelongsTo, Present
    <2>2. QED
      BY <1>2, <2>1 DEF IInv, TaggingInv
  <1>6. ImportsInv' /\ OwnImportInv' /\ VersionIffCompleted'
    BY <1>2, ImportsUntouched
  <1>7. QED
    BY <1>3, <1>4, <1>5, <1>6 DEF IInv

\* The tag is stored for the row id looked up, even if the cell has gone since.
LEMMA CreateEntryEndKeeps ==
    ASSUME IInv, NEW h \in Handlers, CreateEntryEnd(h)
    PROVE  IInv'
  <1> DEFINE c == handlers[h]
             e == [cell |-> c.cell, tag |-> c.tag, meant |-> c.meant]
  <1>1. /\ c # None /\ c.op = "tag"
        /\ handlers' = [handlers EXCEPT ![h] = None]
        /\ UNCHANGED <<cells, nextId, imports, versions>>
        /\ entries' = entries \cup {e} \/ UNCHANGED entries
    BY DEF CreateEntryEnd, Goto, Idle
  <1>2. c \in Calls
    BY <1>1 DEF IInv, TypeOK
  <1>3. e \in Entries
    BY <1>1, <1>2 DEF Calls, Entries
  <1>4. BelongsTo(e.cell, e.meant)
    BY <1>1 DEF IInv, TaggingInv, Idle
  <1> HIDE DEF e
  <1>5. \A f \in entries' : f \in entries \/ f = e
    BY <1>1
  <1>6. entries' \subseteq Entries /\ \A f \in entries' : BelongsTo(f.cell, f.meant)
    BY <1>3, <1>4, <1>5 DEF IInv, TypeOK, EntriesInv
  <1>7. /\ \A g \in Handlers : handlers'[g] \in {handlers[g], None}
        /\ handlers' \in [Handlers -> Calls \cup {None}]
    BY <1>1 DEF IInv, TypeOK
  <1>8. QED
    BY <1>1, <1>6, <1>7, EntriesChange

\* Tags that remain name what they named.
LEMMA DeleteEntryKeeps ==
    ASSUME IInv, NEW e \in entries, DeleteEntry(e)
    PROVE  IInv'
  <1>1. entries' \subseteq Entries /\ \A f \in entries' : BelongsTo(f.cell, f.meant)
    BY DEF DeleteEntry, IInv, TypeOK, EntriesInv
  <1>2. handlers' = handlers /\ handlers' \in [Handlers -> Calls \cup {None}]
    BY DEF DeleteEntry, IInv, TypeOK
  <1>3. QED
    BY <1>1, <1>2, EntriesChange DEF DeleteEntry

\* A file of tags looks its cells up in the transaction that stores the tags.
LEMMA ApplyGeocodeImportKeeps ==
    ASSUME IInv, NEW file \in TagFiles, NEW mode \in {"merge", "replace"},
           ApplyGeocodeImport(file, mode)
    PROVE  IInv'
  <1> DEFINE Tagging(i) == [cell |-> cells[file[i].key].id, tag |-> Canonical[file[i].tag],
                            meant |-> file[i].key]
             found == {i \in DOMAIN file : cells[file[i].key] # None}
  <1>1. \A e \in entries' : e \in entries \/ \E i \in found : e = Tagging(i)
    BY DEF ApplyGeocodeImport
  <1>2. ASSUME NEW i \in found
        PROVE  Tagging(i) \in Entries /\ BelongsTo(Tagging(i).cell, Tagging(i).meant)
    <2>1. file \in Seq(TagRows)
      BY InventoryAssumption
    <2>2. file[i] \in TagRows
      BY <2>1
    <2>3. file[i].key \in Present(cells) /\ Canonical[file[i].tag] \in Tags
      BY <2>2, InventoryAssumption DEF TagRows, Present
    <2>4. /\ file[i].key \in Keys /\ cells[file[i].key].id \in Ids
          /\ BelongsTo(cells[file[i].key].id, file[i].key)
      BY <2>3, CellBelongs
    <2>5. QED
      BY <2>3, <2>4 DEF Entries
  <1> HIDE DEF Tagging, found
  <1>3. entries' \subseteq Entries /\ \A f \in entries' : BelongsTo(f.cell, f.meant)
    BY <1>1, <1>2 DEF IInv, TypeOK, EntriesInv
  <1>4. handlers' = handlers /\ handlers' \in [Handlers -> Calls \cup {None}]
    BY DEF ApplyGeocodeImport, IInv, TypeOK
  <1>5. QED
    BY <1>3, <1>4, EntriesChange DEF ApplyGeocodeImport

\* A restart forgets the requests and keeps the tables.
LEMMA CrashKeeps ==
    ASSUME IInv, Crash
    PROVE  IInv'
  <1>1. /\ \A h \in Handlers : handlers'[h] = None
        /\ handlers' \in [Handlers -> Calls \cup {None}]
        /\ UNCHANGED <<cells, nextId, entries, imports, versions>>
    BY DEF Crash
  <1>2. entries' \subseteq Entries /\ \A f \in entries' : BelongsTo(f.cell, f.meant)
    BY <1>1 DEF IInv, TypeOK, EntriesInv
  <1>3. QED
    BY <1>1, <1>2, EntriesChange

-----------------------------------------------------------------------------
(* The theorems *)

\* Every step keeps the invariant.
LEMMA NextKeeps == IInv /\ [Next]_vars => IInv'
  <1> SUFFICES ASSUME IInv, [Next]_vars PROVE IInv'
    OBVIOUS
  <1>1. ASSUME NEW h \in Handlers, RequestStep(h)
        PROVE  IInv'
    <2>1. CASE \E i \in Imports, file \in Files, mode \in Modes : CreateImport(h, i, file, mode)
      BY <2>1, CreateImportKeeps
    <2>2. CASE StoreImportErrors(h)
      BY <2>2, StoreImportErrorsKeeps
    <2>3. CASE ApplyImport(h)
      BY <2>3, ApplyImportKeeps
    <2>4. CASE ApplyFails(h)
      BY <2>4, ApplyFailsKeeps
    <2>5. CASE MarkImportFailed(h)
      BY <2>5, MarkImportFailedKeeps
    <2>6. CASE \E id \in 1..(nextId - 1) : DeleteCellBegin(h, id)
      BY <2>6, DeleteCellBeginKeeps
    <2>7. CASE DeleteCellEnd(h)
      BY <2>7, DeleteCellEndKeeps
    <2>8. CASE \E k \in Keys, tag \in Written : CreateEntryBegin(h, k, tag)
      BY <2>8, CreateEntryBeginKeeps
    <2>9. CASE CreateEntryEnd(h)
      BY <2>9, CreateEntryEndKeeps
    <2>10. QED
      BY <1>1, <2>1, <2>2, <2>3, <2>4, <2>5, <2>6, <2>7, <2>8, <2>9 DEF RequestStep
  <1>2. CASE \E r \in Forms : CreateCell(r.key, r.active, r.zones)
    BY <1>2, CreateCellKeeps
  <1>3. CASE \E e \in entries : DeleteEntry(e)
    BY <1>3, DeleteEntryKeeps
  <1>4. CASE \E file \in TagFiles, mode \in {"merge", "replace"} : ApplyGeocodeImport(file, mode)
    BY <1>4, ApplyGeocodeImportKeeps
  <1>5. CASE Crash
    BY <1>5, CrashKeeps
  <1>6. CASE UNCHANGED vars
    <2>1. entries' \subseteq Entries /\ \A f \in entries' : BelongsTo(f.cell, f.meant)
      BY <1>6 DEF vars, IInv, TypeOK, EntriesInv
    <2>2. handlers' = handlers /\ handlers' \in [Handlers -> Calls \cup {None}]
      BY <1>6 DEF vars, IInv, TypeOK
    <2>3. UNCHANGED <<cells, nextId, imports, versions>>
      BY <1>6 DEF vars
    <2>4. QED
      BY <2>1, <2>2, <2>3, EntriesChange
  <1>7. QED
    BY <1>1, <1>2, <1>3, <1>4, <1>5, <1>6 DEF Next, Step

\* Whatever the requests do, and wherever they are cut off, the row ids, the
\* requests and the audit rows fit together as IInv says.
THEOREM Invariance == Spec => []IInv
  BY InitIInv, NextKeeps, PTL DEF Spec

\* The tables are well formed throughout: no two cells share a row id, however
\* many cells and files there are.
THEOREM TypeCorrect == Spec => []TypeOK
  <1>1. IInv => TypeOK
    BY DEF IInv
  <1>2. QED
    BY <1>1, Invariance, PTL

\* An import has one version row when it is completed, and none otherwise:
\* ApplyImport is all or nothing whatever fails or dies.
THEOREM VersionIffCompletedHolds == Spec => []VersionIffCompleted
  <1>1. IInv => VersionIffCompleted
    BY DEF IInv
  <1>2. QED
    BY <1>1, Invariance, PTL

\* A tag denotes the cell the operator tagged, or none: a row id read before
\* its cell was deleted is never another cell's when the tag is written.
THEOREM TagsNameTheirCellHolds == Spec => []TagsNameTheirCell
  <1>1. IInv => TagsNameTheirCell
    BY DEF IInv, EntriesInv, BelongsTo, TagsNameTheirCell
  <1>2. QED
    BY <1>1, Invariance, PTL

\* A step that adds a version leaves the tags of the cells there: it is an applied
\* import, which updates cells in place.
LEMMA NextKeepsTags == IInv /\ [Next]_vars => TagsStay
  <1> SUFFICES ASSUME IInv, [Next]_vars PROVE TagsStay
    OBVIOUS
  <1>1. ASSUME NEW h \in Handlers, ApplyImport(h)
        PROVE  TagsStay
    <2>1. UNCHANGED entries /\ \A k \in Present(cells) : k \in Present(cells') /\ cells'[k].id = cells[k].id
      BY <1>1, ApplyStep, AppliedForward
    <2>2. QED
      BY <2>1 DEF TagsStay
  <1>2. versions' = versions \/ \E h \in Handlers : ApplyImport(h)
    BY ZenonT(60) DEF Next, Step, Crash, RequestStep, CreateImport, StoreImportErrors, ApplyFails, MarkImportFailed,
           DeleteCellBegin, DeleteCellEnd, CreateEntryBegin, CreateEntryEnd, CreateCell, DeleteEntry,
           ApplyGeocodeImport, vars
  <1>3. QED
    BY <1>1, <1>2 DEF TagsStay

\* Completing an import, merge or replace, leaves every tag on its cell.
THEOREM TagsSurviveImportHolds == Spec => TagsSurviveImport
  <1>1. IInv /\ [Next]_vars => [TagsStay]_vars
    BY NextKeepsTags
  <1>2. QED
    BY <1>1, Invariance, PTL DEF Spec, TagsSurviveImport

-----------------------------------------------------------------------------
(* Targets: the inductive invariant *)

\* The call's queries are within its request.
QueriesInv ==
    /\ target \in Targets \cup {None}
    /\ Resolving => /\ target.shapes <= Len(target.req.shapes)
                    /\ target.codes <= Len(target.req.codes)

\* What has matched ever since matches now, and what matches now has matched
\* some time; there is no history without a call.
HistoryInv ==
    IF Resolving THEN /\ always \subseteq Matches(cells, entries, target.req)
                      /\ Matches(cells, entries, target.req) \subseteq ever
                 ELSE always = {} /\ ever = {}

\* A cell that has matched a criterion ever since is in the target once the
\* criterion has been queried for.
CaughtInv ==
    Resolving => \A m \in always :
        /\ \A i \in 1..target.shapes : m[1] = target.req.shapes[i] => m[2].eci \in target.cells
        /\ \A i \in 1..target.codes :
              m[1] = Canonical[target.req.codes[i]] => m[2].eci \in target.cells

\* A cell is in the target because it was named or has matched some time.
MeantInv == Resolving => target.cells \subseteq target.req.cells \cup {m[2].eci : m \in ever}

TInv == QueriesInv /\ HistoryInv /\ CaughtInv /\ MeantInv

-----------------------------------------------------------------------------
(* Matches and queries *)

\* What a query returns is what matches its criterion: the bounding boxes, the
\* join and the trimming lose no cell and add none.
LEMMA ShapeSelects ==
    ASSUME NEW req \in RequestType, NEW i \in 1..Len(req.shapes),
           NEW e \in SelectionPreview(req.shapes[i])
    PROVE  e \in Ecis /\ \E m \in Matches(cells, entries, req) : m[2].eci = e
  <1>1. PICK k \in Candidates : Evaluate(k, req.shapes[i]) /\ k.eci = e
    BY DEF SelectionPreview
  <1>2. k \in Active(cells) /\ k \in Keys /\ k.plmn = OwnPlmn
    BY DEF Candidates, Active, Present
  <1>3. i \in DOMAIN req.shapes
    BY DEF RequestType
  <1> DEFINE m == <<req.shapes[i], k>>
  <1>4. m \in {req.shapes[j] : j \in DOMAIN req.shapes} \X Active(cells)
    BY <1>2, <1>3
  <1>5. m[1] = req.shapes[i] /\ m[2] = k
    OBVIOUS
  <1>6. m \in Matches(cells, entries, req)
    BY <1>1, <1>2, <1>4, <1>5 DEF Matches, Evaluate
  <1>7. e \in Ecis
    BY <1>1, <1>2 DEF Keys
  <1>8. QED
    BY <1>1, <1>5, <1>6, <1>7

\* What a tag resolves to matches it: the cell is active and has the tag.
LEMMA CodeResolves ==
    ASSUME NEW req \in RequestType, NEW i \in 1..Len(req.codes),
           NEW e \in ResolveCells(Canonical[req.codes[i]])
    PROVE  e \in Ecis /\ \E m \in Matches(cells, entries, req) : m[2].eci = e
  <1>1. PICK k \in Active(cells) : Tagged(cells[k].id, Canonical[req.codes[i]]) /\ k.eci = e
    BY DEF ResolveCells
  <1>2. k \in Keys
    BY DEF Active, Present
  <1>3. i \in DOMAIN req.codes
    BY DEF RequestType
  <1> DEFINE m == <<Canonical[req.codes[i]], k>>
  <1>4. m \in {Canonical[req.codes[j]] : j \in DOMAIN req.codes} \X Active(cells)
    BY <1>1, <1>3
  <1>5. m[1] = Canonical[req.codes[i]] /\ m[2] = k
    OBVIOUS
  <1>6. m \in Matches(cells, entries, req)
    BY <1>1, <1>4, <1>5 DEF Matches, Tagged
  <1>7. e \in Ecis
    BY <1>1, <1>2 DEF Keys
  <1>8. QED
    BY <1>1, <1>5, <1>6, <1>7

\* And a cell that matches a criterion is returned by the query for it.
LEMMA MatchIsFound ==
    ASSUME NEW req \in RequestType, NEW m \in Matches(cells, entries, req)
    PROVE  \/ /\ \E i \in 1..Len(req.shapes) : m[1] = req.shapes[i]
              /\ m[1] \in Zones /\ m[2].eci \in SelectionPreview(m[1])
           \/ /\ \E i \in 1..Len(req.codes) : m[1] = Canonical[req.codes[i]]
              /\ m[1] \in Tags /\ m[2].eci \in ResolveCells(m[1])
  <1>1. /\ DOMAIN req.shapes = 1..Len(req.shapes) /\ DOMAIN req.codes = 1..Len(req.codes)
        /\ \A i \in DOMAIN req.shapes : req.shapes[i] \in Zones
        /\ \A i \in DOMAIN req.codes : Canonical[req.codes[i]] \in Tags
    BY InventoryAssumption DEF RequestType
  <1>2. CASE /\ m \in {req.shapes[i] : i \in DOMAIN req.shapes} \X Active(cells)
             /\ m[2].plmn = OwnPlmn /\ m[1] \in cells[m[2]].zones
    BY <1>1, <1>2 DEF SelectionPreview, Candidates, Evaluate
  <1>3. CASE /\ m \in {Canonical[req.codes[i]] : i \in DOMAIN req.codes} \X Active(cells)
             /\ \E e \in entries : e.cell = cells[m[2]].id /\ e.tag = m[1]
    BY <1>1, <1>3 DEF ResolveCells, Tagged
  <1>4. QED
    BY <1>2, <1>3 DEF Matches

-----------------------------------------------------------------------------
(* The history *)

\* While the call goes on, its history follows the inventory.
LEMMA HistoryGoesOn ==
    ASSUME HistoryInv, Track, Resolving, Resolving', target'.req = target.req
    PROVE  HistoryInv' /\ always' \subseteq always /\ ever \subseteq ever'
  BY DEF HistoryInv, Track, Resolving

\* When there is none after the step, nothing is left of it.
LEMMA HistoryEnds ==
    ASSUME Track, ~Resolving'
    PROVE  TInv'
  BY DEF TInv, QueriesInv, HistoryInv, CaughtInv, MeantInv, Track, Resolving

-----------------------------------------------------------------------------
(* The steps *)

\* What is known of a call in progress.
LEMMA CallInProgress ==
    ASSUME QueriesInv, Resolving
    PROVE  /\ target \in Targets /\ target.req \in RequestType
           /\ target.shapes \in Nat /\ target.codes \in Nat
           /\ target.shapes <= Len(target.req.shapes) /\ target.codes <= Len(target.req.codes)
           /\ Len(target.req.shapes) \in Nat /\ Len(target.req.codes) \in Nat
  <1>1. target \in Targets
    BY DEF QueriesInv, Resolving
  <1>2. /\ target.req \in RequestType /\ target.shapes \in Nat /\ target.codes \in Nat
    BY <1>1 DEF Targets
  <1>3. target.req.shapes \in Seq(Zones) /\ target.req.codes \in Seq(Tags)
    BY <1>2 DEF RequestType
  <1>4. QED
    BY <1>1, <1>2, <1>3 DEF QueriesInv

ShapeQueried(r, n, T) == [r EXCEPT !.shapes = n, !.cells = T]
CodeQueried(r, n, T) == [r EXCEPT !.codes = n, !.cells = T]

\* A query moves its counter and adds cells.
LEMMA ShapeQueriedTypes ==
    ASSUME NEW r \in Targets, NEW n \in Nat, NEW T \in SUBSET Ecis
    PROVE  /\ ShapeQueried(r, n, T) \in Targets
           /\ ShapeQueried(r, n, T).req = r.req
           /\ ShapeQueried(r, n, T).shapes = n /\ ShapeQueried(r, n, T).codes = r.codes
           /\ ShapeQueried(r, n, T).cells = T
  <1> DEFINE R == RequestType
             C == SUBSET Ecis
  <1>1. Targets = [req : R, shapes : Nat, codes : Nat, cells : C] /\ T \in C
    BY DEF Targets
  <1> HIDE DEF R, C
  <1>2. QED
    BY <1>1 DEF ShapeQueried

\* It is a call, of the same request.
LEMMA CodeQueriedTypes ==
    ASSUME NEW r \in Targets, NEW n \in Nat, NEW T \in SUBSET Ecis
    PROVE  /\ CodeQueried(r, n, T) \in Targets
           /\ CodeQueried(r, n, T).req = r.req
           /\ CodeQueried(r, n, T).codes = n /\ CodeQueried(r, n, T).shapes = r.shapes
           /\ CodeQueried(r, n, T).cells = T
  <1> DEFINE R == RequestType
             C == SUBSET Ecis
  <1>1. Targets = [req : R, shapes : Nat, codes : Nat, cells : C] /\ T \in C
    BY DEF Targets
  <1> HIDE DEF R, C
  <1>2. QED
    BY <1>1 DEF CodeQueried

\* A step of the requests leaves the call its target, and its history only
\* grows at one end and shrinks at the other.
LEMMA InventoryStepKeeps ==
    ASSUME TInv, UNCHANGED target, Track
    PROVE  TInv'
  <1>1. CASE ~Resolving
    BY <1>1, HistoryEnds DEF Resolving
  <1>2. CASE Resolving
    <2>1. Resolving' /\ target'.req = target.req
      BY <1>2 DEF Resolving
    <2>2. HistoryInv' /\ always' \subseteq always /\ ever \subseteq ever'
      BY <1>2, <2>1, HistoryGoesOn DEF TInv
    <2>3. QueriesInv'
      BY DEF TInv, QueriesInv, Resolving
    <2>4. CaughtInv'
      BY <1>2, <2>2 DEF TInv, CaughtInv, Resolving
    <2>5. MeantInv'
      BY <1>2, <2>2 DEF TInv, MeantInv, Resolving
    <2>6. QED
      BY <2>2, <2>3, <2>4, <2>5 DEF TInv
  <1>3. QED
    BY <1>1, <1>2

\* A call begins with the cells named and no criterion queried.
LEMMA TargetBeginKeeps ==
    ASSUME TInv, NEW req \in Requests, TargetBegin(req), UNCHANGED vars, Track
    PROVE  TInv'
  <1>1. ~Resolving /\ always = {} /\ ever = {}
    BY DEF TargetBegin, TInv, HistoryInv
  <1>2. req \in RequestType
    BY TargetingAssumption
  <1> DEFINE t == [req |-> req, shapes |-> 0, codes |-> 0, cells |-> req.cells]
  <1>3. target' = t /\ t \in Targets /\ t # None
    BY <1>2, TargetingAssumption DEF TargetBegin, Targets, RequestType
  <1>4. /\ t.req = req /\ t.shapes = 0 /\ t.codes = 0 /\ t.cells = req.cells
    OBVIOUS
  <1> HIDE DEF t
  <1>5. Resolving'
    BY <1>3 DEF Resolving
  <1>6. Len(req.shapes) \in Nat /\ Len(req.codes) \in Nat
    BY <1>2 DEF RequestType
  <1>7. QueriesInv'
    BY <1>3, <1>4, <1>6 DEF QueriesInv
  <1>8. HistoryInv'
    BY <1>1, <1>3, <1>4, <1>5 DEF HistoryInv, Track, Resolving
  <1>9. CaughtInv'
    BY <1>3, <1>4 DEF CaughtInv
  <1>10. MeantInv'
    BY <1>3, <1>4 DEF MeantInv
  <1>11. QED
    BY <1>7, <1>8, <1>9, <1>10 DEF TInv

\* A query for a shape catches the cells in it, and only those.
LEMMA ResolveShapeKeeps ==
    ASSUME TInv, ResolveShape, UNCHANGED vars, Track
    PROVE  TInv'
  <1> DEFINE req == target.req
             n == target.shapes
             found == SelectionPreview(req.shapes[n + 1])
             t == ShapeQueried(target, n + 1, target.cells \cup found)
  <1>1. Resolving /\ n < Len(req.shapes) /\ target' = t
    BY DEF ResolveShape, ShapeQueried
  <1>2. /\ target \in Targets /\ req \in RequestType /\ n \in Nat /\ target.codes \in Nat
        /\ n <= Len(req.shapes) /\ target.codes <= Len(req.codes)
        /\ Len(req.shapes) \in Nat /\ Len(req.codes) \in Nat
    BY <1>1, CallInProgress DEF TInv
  <1>3. n + 1 \in 1..Len(req.shapes) /\ req.shapes[n + 1] \in Zones
    BY <1>1, <1>2 DEF RequestType
  <1>4. \A e \in found : e \in Ecis /\ \E m \in Matches(cells, entries, req) : m[2].eci = e
    BY <1>2, <1>3, ShapeSelects
  <1> HIDE DEF found
  <1>5. target.cells \cup found \in SUBSET Ecis /\ n + 1 \in Nat
    BY <1>2, <1>4 DEF Targets
  <1>6. /\ t.req = req /\ t.shapes = n + 1 /\ t.codes = target.codes
        /\ t.cells = target.cells \cup found
        /\ t \in Targets /\ t # None
    <2>1. /\ t \in Targets /\ t.req = req /\ t.shapes = n + 1
          /\ t.codes = target.codes /\ t.cells = target.cells \cup found
      BY <1>2, <1>5, ShapeQueriedTypes
    <2> HIDE DEF t
    <2>2. QED
      BY <2>1, TargetingAssumption
  <1> HIDE DEF t
  <1>7. Resolving' /\ target'.req = req
    BY <1>1, <1>6 DEF Resolving
  <1>8. HistoryInv' /\ always' \subseteq always /\ ever \subseteq ever'
    BY <1>1, <1>7, HistoryGoesOn DEF TInv
  <1>9. QueriesInv'
    BY <1>1, <1>2, <1>3, <1>6 DEF QueriesInv
  <1>10. Matches(cells, entries, req) \subseteq ever
    BY <1>1 DEF TInv, HistoryInv
  <1>11. MeantInv'
    <2>1. \A e \in found : \E m \in ever' : m[2].eci = e
      BY <1>4, <1>8, <1>10
    <2>2. target.cells \subseteq req.cells \cup {m[2].eci : m \in ever'}
      BY <1>1, <1>8 DEF TInv, MeantInv
    <2>3. QED
      BY <1>1, <1>6, <2>1, <2>2 DEF MeantInv
  <1>12. CaughtInv'
    <2>1. SUFFICES ASSUME NEW m \in always'
                   PROVE  /\ \A i \in 1..(n + 1) : m[1] = req.shapes[i] => m[2].eci \in target.cells \cup found
                          /\ \A i \in 1..target.codes :
                                m[1] = Canonical[req.codes[i]] => m[2].eci \in target.cells \cup found
      BY <1>1, <1>6 DEF CaughtInv
    <2>2. m \in always /\ m \in Matches(cells, entries, req)
      BY <1>1, <1>8 DEF TInv, HistoryInv
    <2>3. /\ \A i \in 1..n : m[1] = req.shapes[i] => m[2].eci \in target.cells
          /\ \A i \in 1..target.codes : m[1] = Canonical[req.codes[i]] => m[2].eci \in target.cells
      BY <1>1, <2>2 DEF TInv, CaughtInv
    <2>4. m[1] = req.shapes[n + 1] => m[2].eci \in found
      BY <1>2, <1>3, <2>2, MatchIsFound, KindsAssumption DEF found
    <2>5. QED
      BY <1>2, <2>3, <2>4
  <1>13. QED
    BY <1>8, <1>9, <1>11, <1>12 DEF TInv

\* A query for a tag catches the cells that have it, and only those.
LEMMA ResolveCodeKeeps ==
    ASSUME TInv, ResolveCode, UNCHANGED vars, Track
    PROVE  TInv'
  <1> DEFINE req == target.req
             n == target.codes
             found == ResolveCells(Canonical[req.codes[n + 1]])
             t == CodeQueried(target, n + 1, target.cells \cup found)
  <1>1. Resolving /\ n < Len(req.codes) /\ target' = t
    BY DEF ResolveCode, ShapesDone, CodeQueried
  <1>2. /\ target \in Targets /\ req \in RequestType /\ n \in Nat /\ target.shapes \in Nat
        /\ n <= Len(req.codes) /\ target.shapes <= Len(req.shapes)
        /\ Len(req.shapes) \in Nat /\ Len(req.codes) \in Nat
    BY <1>1, CallInProgress DEF TInv
  <1>3. n + 1 \in 1..Len(req.codes) /\ Canonical[req.codes[n + 1]] \in Tags
    BY <1>1, <1>2, InventoryAssumption DEF RequestType
  <1>4. \A e \in found : e \in Ecis /\ \E m \in Matches(cells, entries, req) : m[2].eci = e
    BY <1>2, <1>3, CodeResolves
  <1> HIDE DEF found
  <1>5. target.cells \cup found \in SUBSET Ecis /\ n + 1 \in Nat
    BY <1>2, <1>4 DEF Targets
  <1>6. /\ t.req = req /\ t.codes = n + 1 /\ t.shapes = target.shapes
        /\ t.cells = target.cells \cup found
        /\ t \in Targets /\ t # None
    <2>1. /\ t \in Targets /\ t.req = req /\ t.codes = n + 1
          /\ t.shapes = target.shapes /\ t.cells = target.cells \cup found
      BY <1>2, <1>5, CodeQueriedTypes
    <2> HIDE DEF t
    <2>2. QED
      BY <2>1, TargetingAssumption
  <1> HIDE DEF t
  <1>7. Resolving' /\ target'.req = req
    BY <1>1, <1>6 DEF Resolving
  <1>8. HistoryInv' /\ always' \subseteq always /\ ever \subseteq ever'
    BY <1>1, <1>7, HistoryGoesOn DEF TInv
  <1>9. QueriesInv'
    BY <1>1, <1>2, <1>3, <1>6 DEF QueriesInv
  <1>10. Matches(cells, entries, req) \subseteq ever
    BY <1>1 DEF TInv, HistoryInv
  <1>11. MeantInv'
    <2>1. \A e \in found : \E m \in ever' : m[2].eci = e
      BY <1>4, <1>8, <1>10
    <2>2. target.cells \subseteq req.cells \cup {m[2].eci : m \in ever'}
      BY <1>1, <1>8 DEF TInv, MeantInv
    <2>3. QED
      BY <1>1, <1>6, <2>1, <2>2 DEF MeantInv
  <1>12. CaughtInv'
    <2>1. SUFFICES ASSUME NEW m \in always'
                   PROVE  /\ \A i \in 1..target.shapes :
                                m[1] = req.shapes[i] => m[2].eci \in target.cells \cup found
                          /\ \A i \in 1..(n + 1) :
                                m[1] = Canonical[req.codes[i]] => m[2].eci \in target.cells \cup found
      BY <1>1, <1>6 DEF CaughtInv
    <2>2. m \in always /\ m \in Matches(cells, entries, req)
      BY <1>1, <1>8 DEF TInv, HistoryInv
    <2>3. /\ \A i \in 1..target.shapes : m[1] = req.shapes[i] => m[2].eci \in target.cells
          /\ \A i \in 1..n : m[1] = Canonical[req.codes[i]] => m[2].eci \in target.cells
      BY <1>1, <2>2 DEF TInv, CaughtInv
    <2>4. m[1] = Canonical[req.codes[n + 1]] => m[2].eci \in found
      BY <1>2, <1>3, <2>2, MatchIsFound, KindsAssumption DEF found
    <2>5. QED
      BY <1>2, <2>3, <2>4
  <1>13. QED
    BY <1>8, <1>9, <1>11, <1>12 DEF TInv

-----------------------------------------------------------------------------
(* The theorems *)

\* No call, no history.
LEMMA TargetingInit_TInv == TargetingInit => TInv
  BY DEF TargetingInit, TInv, QueriesInv, HistoryInv, CaughtInv, MeantInv, Resolving

\* Every step keeps the invariant: a change of the inventory brings matches into the
\* history and takes cells that match no longer out of those that always did.
LEMMA TargetingNextKeeps == TInv /\ [TargetingNext]_tvars => TInv'
  <1> SUFFICES ASSUME TInv, [TargetingNext]_tvars PROVE TInv'
    OBVIOUS
  <1>1. CASE Step /\ UNCHANGED target /\ Track
    BY <1>1, InventoryStepKeeps
  <1>2. CASE target' = None /\ Track
    BY <1>2, HistoryEnds DEF Resolving
  <1>3. CASE TargetStep /\ UNCHANGED vars /\ Track
    BY <1>2, <1>3, TargetBeginKeeps, ResolveShapeKeeps, ResolveCodeKeeps DEF TargetStep, TargetEnd
  <1>4. CASE UNCHANGED tvars
    <2>1. /\ TInv /\ UNCHANGED <<cells, entries, target, always, ever>>
      BY <1>4 DEF tvars
    <2>2. Resolving' <=> Resolving
      BY <2>1 DEF Resolving
    <2>3. Matches(cells, entries, target.req)' = Matches(cells, entries, target.req)
      BY <2>1 DEF Matches, Active, Present
    <2>4. QED
      BY <2>1, <2>2, <2>3 DEF TInv, QueriesInv, HistoryInv, CaughtInv, MeantInv
  <1>5. QED
    BY <1>1, <1>2, <1>3, <1>4 DEF TargetingNext

\* Computing a target only reads the inventory: every behaviour of Targeting is
\* one of Inventory, and what is proved of the tables holds while targets are
\* computed.
THEOREM ImplementsInventory == TargetingSpec => Spec
  <1>1. TargetingInit => Init
    BY DEF TargetingInit
  <1>2. [TargetingNext]_tvars => [Next]_vars
    BY DEF TargetingNext, Next, tvars, vars
  <1>3. QED
    BY <1>1, <1>2, PTL DEF TargetingSpec, Spec

\* The calls, their targets and their history are as TInv says.
THEOREM TargetingInvariance == TargetingSpec => [](IInv /\ TInv)
  BY TargetingInit_TInv, TargetingNextKeeps, ImplementsInventory, Invariance, PTL DEF TargetingSpec

\* Inventory and call are well formed, for any tables, requests and tags.
THEOREM TargetingTypeCorrect == TargetingSpec => []TargetingTypeOK
  <1>1. IInv /\ TInv => TargetingTypeOK
    BY DEF IInv, TInv, QueriesInv, HistoryInv, TargetingTypeOK
  <1>2. QED
    BY <1>1, TargetingInvariance, PTL

\* A target that is returned leaves out no cell that matched throughout, and
\* holds none that was neither named nor ever matched, whatever requests
\* commit between the queries.
THEOREM TargetIsMeantAreaHolds == TargetingSpec => []TargetIsMeantArea
  <1>1. ASSUME TInv, Succeeds
        PROVE  /\ {m[2].eci : m \in always} \subseteq target.cells
               /\ target.cells \subseteq target.req.cells \cup {m[2].eci : m \in ever}
    <2>1. /\ Resolving /\ target.shapes = Len(target.req.shapes)
          /\ target.codes = Len(target.req.codes)
      BY <1>1 DEF Succeeds, AllDone, ShapesDone
    <2>2. target.req \in RequestType
      BY <1>1, <2>1, CallInProgress DEF TInv
    <2>3. ASSUME NEW m \in always
          PROVE  m[2].eci \in target.cells
      <3>1. m \in Matches(cells, entries, target.req)
        BY <1>1, <2>1 DEF TInv, HistoryInv
      <3>2. /\ \A i \in 1..Len(target.req.shapes) :
                  m[1] = target.req.shapes[i] => m[2].eci \in target.cells
            /\ \A i \in 1..Len(target.req.codes) :
                  m[1] = Canonical[target.req.codes[i]] => m[2].eci \in target.cells
        BY <1>1, <2>1 DEF TInv, CaughtInv
      <3>3. QED
        BY <2>2, <3>1, <3>2, MatchIsFound
    <2>4. QED
      BY <1>1, <2>1, <2>3 DEF TInv, MeantInv
  <1>2. IInv /\ TInv => TargetIsMeantArea
    BY <1>1 DEF TargetIsMeantArea
  <1>3. QED
    BY <1>2, TargetingInvariance, PTL

=============================================================================
