----------------------------- MODULE Inventory -----------------------------
(***************************************************************************)
(* The operator's LTE cells and the geocodes they are tagged with:         *)
(* inventory.Service, geocode.Service and their sqlite tables lte_cells,   *)
(* inventory_imports, inventory_versions and cell_geocodes, as used by     *)
(* concurrent HTTP requests.                                               *)
(*                                                                         *)
(* The store has one connection, so a statement or a transaction is one    *)
(* step; an operation made of several of them is interrupted by others,    *)
(* or by the death of the process, between any two.  A request that is     *)
(* refused before it writes changes nothing and has no action.  Of a cell  *)
(* the model keeps its identity, its row id, whether it is active and      *)
(* which request areas its geometry matches.                               *)
(***************************************************************************)
EXTENDS Integers, Sequences, FiniteSets

CONSTANTS
    Plmns, Ecis,   \* a cell is identified by a PLMN and an ECI within it
    Zones,         \* areas an alert may name
    Tags,          \* (type, code) pairs as written by an operator or in an alert
    Canonical,     \* a tag with its type trimmed and in upper case
    Written,       \* those an operator may write when tagging a cell by hand
    Forms,         \* cells an operator may enter by hand
    Files,         \* inventory CSV files: sequences of Rows
    TagFiles,      \* geocode CSV files: sequences of TagRows without errors
    Handlers,      \* concurrent HTTP requests
    MaxImports,    \* bound on inventory imports
    MaxId,         \* bound on lte_cells.id
    None

Keys == [plmn : Plmns, eci : Ecis]
Ids == Nat \ {0}
Imports == 1..MaxImports
Modes == {"validate-only", "merge", "replace"}

Cells == [id : Ids, active : BOOLEAN, zones : SUBSET Zones]

\* One line of a file; ok: cellFrom finds no fault with it.
Rows == [ok : BOOLEAN, key : Keys, active : BOOLEAN, zones : SUBSET Zones]
TagRows == [key : Keys, tag : Tags]

\* meant is no column: it remembers which cell the operator tagged.
Entries == [cell : Ids, tag : Tags, meant : Keys]

ImportRows == [mode : Modes, status : {"pending", "validated", "completed", "failed"},
               valid : Nat, inserted : Nat, updated : Nat, deactivated : Nat,
               errors : BOOLEAN]

Calls ==
    [op : {"import"}, phase : {"errors", "apply", "failed"}, imp : Imports,
     file : Files, mode : Modes]
    \cup [op : {"delete"}, cell : Ids]
    \cup [op : {"tag"}, cell : Ids, tag : Tags, meant : Keys]

ASSUME InventoryAssumption ==
    /\ Canonical \in [Tags -> Tags]
    /\ \A t \in Tags : Canonical[Canonical[t]] = Canonical[t]
    /\ Written \subseteq Tags
    /\ Forms \subseteq Rows
    /\ Files \subseteq Seq(Rows) /\ TagFiles \subseteq Seq(TagRows)
    /\ MaxImports \in Nat /\ MaxId \in Nat

\* A PLMN has at most six digits and an ECI 28 bits.
ASSUME KeysAssumption == IsFiniteSet(Keys)

ASSUME NoneAssumption == None \notin Cells \cup ImportRows \cup Calls

VARIABLES
    cells,     \* table lte_cells, by UNIQUE(mcc,mnc,mnc_length,eci)
    nextId,    \* its AUTOINCREMENT counter
    entries,   \* table cell_geocodes
    imports,   \* table inventory_imports
    versions,  \* table inventory_versions: the imports applied, in order
    handlers   \* the request in progress at each handler, or None

vars == <<cells, nextId, entries, imports, versions, handlers>>

Init ==
    /\ cells = [k \in Keys |-> None]
    /\ nextId = 1
    /\ entries = {}
    /\ imports = [i \in Imports |-> None]
    /\ versions = <<>>
    /\ handlers = [h \in Handlers |-> None]

Idle(h) == handlers[h] = None

Goto(h, call) == handlers' = [handlers EXCEPT ![h] = call]

Present(cs) == {k \in Keys : cs[k] # None}
Active(cs) == {k \in Present(cs) : cs[k].active}

-----------------------------------------------------------------------------
(* CSV files *)

\* The lines ParseCSV accepts: faultless, and the first of their cell.
Accepted(file) ==
    {i \in DOMAIN file : /\ file[i].ok
                         /\ \A j \in 1..(i - 1) : file[j].ok => file[j].key # file[i].key}

HasErrors(file) == Accepted(file) # DOMAIN file

KeysOf(file) == {file[i].key : i \in DOMAIN file}

RowOf(file, k) == file[CHOOSE i \in DOMAIN file : file[i].key = k]

-----------------------------------------------------------------------------
(* Inventory imports *)

StatusAtFirst(file, mode) ==
    CASE mode = "validate-only" -> "validated"
      [] mode # "validate-only" /\ HasErrors(file) -> "failed"
      [] OTHER -> "pending"

\* Import parses the file and writes the audit row.  With errors their rows
\* come next; a pending import is applied next; otherwise the request is over.
CreateImport(h, i, file, mode) ==
    /\ Idle(h)
    /\ imports[i] = None /\ \A j \in 1..(i - 1) : imports[j] # None
    /\ imports' = [imports EXCEPT ![i] =
         [mode |-> mode, status |-> StatusAtFirst(file, mode),
          valid |-> Cardinality(Accepted(file)), inserted |-> 0, updated |-> 0,
          deactivated |-> 0, errors |-> FALSE]]
    /\ Goto(h, CASE HasErrors(file) ->
                      [op |-> "import", phase |-> "errors", imp |-> i, file |-> file, mode |-> mode]
                 [] ~HasErrors(file) /\ mode = "validate-only" -> None
                 [] OTHER ->
                      [op |-> "import", phase |-> "apply", imp |-> i, file |-> file, mode |-> mode])
    /\ UNCHANGED <<cells, nextId, entries, versions>>

InPhase(h, phase) == ~Idle(h) /\ handlers[h].op = "import" /\ handlers[h].phase = phase

\* The error rows of a file are stored, or cannot be; either way the request
\* is over.
StoreImportErrors(h) ==
    /\ InPhase(h, "errors")
    /\ \/ imports' = [imports EXCEPT ![handlers[h].imp].errors = TRUE]
       \/ UNCHANGED imports
    /\ Goto(h, None)
    /\ UNCHANGED <<cells, nextId, entries, versions>>

\* The rows of the file that the table lacks, and the row id each is given.
NewRows(file) == {i \in DOMAIN file : cells[file[i].key] = None}

\* Faulty variant: one id, read before the loop, for every row inserted.
NewIdOnce(file, i) == nextId

NewId(file, i) == nextId + Cardinality({j \in NewRows(file) : j < i})

\* Faulty variant: INSERT OR REPLACE, which gives the row a new id (here
\* one beyond those the counter reaches).
MergedReplacing(file) ==
    [k \in Keys |->
       IF k \in KeysOf(file)
       THEN [id |-> MaxId + nextId + Cardinality({l \in KeysOf(file) : l.eci < k.eci}),
             active |-> RowOf(file, k).active, zones |-> RowOf(file, k).zones]
       ELSE cells[k]]

\* The upserts: a known cell keeps its row id, so that its tags stay with it.
Merged(file) ==
    [k \in Keys |->
       IF k \in KeysOf(file)
       THEN [id     |-> IF cells[k] # None THEN cells[k].id
                        ELSE NewId(file, CHOOSE i \in DOMAIN file : file[i].key = k),
             active |-> RowOf(file, k).active,
             zones  |-> RowOf(file, k).zones]
       ELSE cells[k]]

\* What a replace deactivates: the active cells that the file lacks.
Deactivated(file, mode) ==
    IF mode = "replace" THEN Active(cells) \ KeysOf(file) ELSE {}

\* The transaction of ApplyImport.
ApplyImport(h) ==
    /\ InPhase(h, "apply")
    /\ LET file == handlers[h].file
           mode == handlers[h].mode
           new  == NewRows(file)
           gone == Deactivated(file, mode)
       IN  /\ nextId + Cardinality(new) - 1 <= MaxId
           /\ cells' = [k \in Keys |-> IF k \in gone THEN [cells[k] EXCEPT !.active = FALSE]
                                       ELSE Merged(file)[k]]
           /\ nextId' = nextId + Cardinality(new)
           /\ imports' = [imports EXCEPT ![handlers[h].imp] =
                [@ EXCEPT !.status = "completed", !.inserted = Cardinality(new),
                          !.updated = Len(file) - Cardinality(new),
                          !.deactivated = Cardinality(gone)]]
    /\ versions' = Append(versions, handlers[h].imp)
    /\ Goto(h, None)
    /\ UNCHANGED entries

\* Faulty variant: the version row is written before the transaction begins.
ApplyFailsLate(h) ==
    /\ InPhase(h, "apply")
    /\ versions' = Append(versions, handlers[h].imp)
    /\ \E stored \in BOOLEAN :
         imports' = [imports EXCEPT ![handlers[h].imp].errors = stored]
    /\ handlers' = [handlers EXCEPT ![h].phase = "failed"]
    /\ UNCHANGED <<cells, nextId, entries>>

\* The transaction fails and is rolled back; that it failed is stored, or
\* cannot be.
ApplyFails(h) ==
    /\ InPhase(h, "apply")
    /\ \E stored \in BOOLEAN :
         imports' = [imports EXCEPT ![handlers[h].imp].errors = stored]
    /\ handlers' = [handlers EXCEPT ![h].phase = "failed"]
    /\ UNCHANGED <<cells, nextId, entries, versions>>

\* The audit row is closed, or (its error is logged) stays pending.
MarkImportFailed(h) ==
    /\ InPhase(h, "failed")
    /\ \/ imports' = [imports EXCEPT ![handlers[h].imp].status = "failed"]
       \/ UNCHANGED imports
    /\ Goto(h, None)
    /\ UNCHANGED <<cells, nextId, entries, versions>>

-----------------------------------------------------------------------------
(* Single cells *)

\* Faulty variant: INTEGER PRIMARY KEY without AUTOINCREMENT, which reuses the
\* highest id after its row is deleted.
CreateCellReusing(k, active, zones) ==
    LET used == {cells[l].id : l \in Present(cells)}
        id   == IF used = {} THEN 1 ELSE 1 + CHOOSE i \in used : \A j \in used : j <= i
    IN  /\ cells[k] = None /\ id <= MaxId
        /\ cells' = [cells EXCEPT ![k] = [id |-> id, active |-> active, zones |-> zones]]
        /\ nextId' = id + 1
        /\ UNCHANGED <<entries, imports, versions, handlers>>

\* CreateCell inserts; the UNIQUE constraint refuses a cell there is already.
CreateCell(k, active, zones) ==
    /\ cells[k] = None /\ nextId <= MaxId
    /\ cells' = [cells EXCEPT ![k] = [id |-> nextId, active |-> active, zones |-> zones]]
    /\ nextId' = nextId + 1
    /\ UNCHANGED <<entries, imports, versions, handlers>>

\* DeleteCell counts the tags of the row and goes on when there are none.
DeleteCellBegin(h, id) ==
    /\ Idle(h)
    /\ \A e \in entries : e.cell # id
    /\ Goto(h, [op |-> "delete", cell |-> id])
    /\ UNCHANGED <<cells, nextId, entries, imports, versions>>

\* The DELETE; nothing was there, or the row goes.  If the driver enforces the
\* foreign key it is refused for a row tagged since.
DeleteCellEnd(h) ==
    /\ ~Idle(h) /\ handlers[h].op = "delete"
    /\ LET gone == {k \in Present(cells) : cells[k].id = handlers[h].cell}
       IN  \/ cells' = [k \in Keys |-> IF k \in gone THEN None ELSE cells[k]]
           \/ /\ \E e \in entries : e.cell = handlers[h].cell
              /\ UNCHANGED cells
    /\ Goto(h, None)
    /\ UNCHANGED <<nextId, entries, imports, versions>>

-----------------------------------------------------------------------------
(* Tags *)

\* CreateEntry looks the row id of the cell up.  The tag is taken as written.
CreateEntryBegin(h, k, tag) ==
    /\ Idle(h)
    /\ cells[k] # None
    /\ Goto(h, [op |-> "tag", cell |-> cells[k].id, tag |-> tag, meant |-> k])
    /\ UNCHANGED <<cells, nextId, entries, imports, versions>>

Tagged(id, tag) == \E e \in entries : e.cell = id /\ e.tag = tag

\* The INSERT; UNIQUE(cell_id,code_type,code) refuses a tag there is already.
\* If the driver enforces the foreign key it is refused for a row deleted since.
CreateEntryEnd(h) ==
    /\ ~Idle(h) /\ handlers[h].op = "tag"
    /\ LET c == handlers[h]
       IN  \/ /\ ~Tagged(c.cell, c.tag)
              /\ entries' = entries \cup {[cell |-> c.cell, tag |-> c.tag, meant |-> c.meant]}
           \/ /\ Tagged(c.cell, c.tag) \/ \A k \in Present(cells) : cells[k].id # c.cell
              /\ UNCHANGED entries
    /\ Goto(h, None)
    /\ UNCHANGED <<cells, nextId, imports, versions>>

DeleteEntry(e) ==
    /\ e \in entries
    /\ entries' = entries \ {e}
    /\ UNCHANGED <<cells, nextId, imports, versions, handlers>>

\* The transaction of ApplyGeocodeImport: replace empties the table first; a
\* row without a cell is passed over; a tag that is there already stays.
ApplyGeocodeImport(file, mode) ==
    /\ LET kept  == IF mode = "replace" THEN {} ELSE entries
           found == {i \in DOMAIN file : cells[file[i].key] # None}
       IN  entries' = kept \cup
             {e \in {[cell |-> cells[file[i].key].id, tag |-> Canonical[file[i].tag],
                      meant |-> file[i].key] : i \in found} :
                \A f \in kept : f.cell # e.cell \/ f.tag # e.tag}
    /\ UNCHANGED <<cells, nextId, imports, versions, handlers>>

-----------------------------------------------------------------------------

\* The process dies; its requests are lost, the database is not.
Crash ==
    /\ \E h \in Handlers : ~Idle(h)
    /\ handlers' = [h \in Handlers |-> None]
    /\ UNCHANGED <<cells, nextId, entries, imports, versions>>

RequestStep(h) ==
    \/ \E i \in Imports, file \in Files, mode \in Modes : CreateImport(h, i, file, mode)
    \/ StoreImportErrors(h) \/ ApplyImport(h) \/ ApplyFails(h) \/ MarkImportFailed(h)
    \/ \E id \in 1..(nextId - 1) : DeleteCellBegin(h, id)
    \/ DeleteCellEnd(h)
    \/ \E k \in Keys, tag \in Written : CreateEntryBegin(h, k, tag)
    \/ CreateEntryEnd(h)

Step ==
    \/ \E h \in Handlers : RequestStep(h)
    \/ \E r \in Forms : CreateCell(r.key, r.active, r.zones)
    \/ \E e \in entries : DeleteEntry(e)
    \/ \E file \in TagFiles, mode \in {"merge", "replace"} : ApplyGeocodeImport(file, mode)

Next == Step \/ Crash

Spec == Init /\ [][Next]_vars

-----------------------------------------------------------------------------
(* Properties *)

\* Tables and requests are well formed, and no two cells share a row id.
TypeOK ==
    /\ cells \in [Keys -> Cells \cup {None}]
    /\ nextId \in 1..(MaxId + 1)
    /\ entries \subseteq Entries
    /\ imports \in [Imports -> ImportRows \cup {None}]
    /\ versions \in Seq(Imports)
    /\ handlers \in [Handlers -> Calls \cup {None}]
    /\ \A k, l \in Present(cells) : cells[k].id = cells[l].id => k = l

\* ApplyImport is all or nothing: an import has exactly one version row when it
\* is completed and none while it is pending or once it has failed, whatever
\* failed or crashed on the way, so a failed import can be sent again.
VersionIffCompleted ==
    \A i \in Imports :
        Cardinality({n \in DOMAIN versions : versions[n] = i})
          = IF imports[i] # None /\ imports[i].status = "completed" THEN 1 ELSE 0

\* A tag denotes the cell the operator tagged or, once that is deleted, none:
\* a row id read by CreateEntry before the cell was deleted is never another
\* cell's when the tag is written.
TagsNameTheirCell ==
    \A e \in entries, k \in Present(cells) : cells[k].id = e.cell => k = e.meant

\* Completing an import leaves every tag on its cell, also on one it updates or
\* deactivates, so that a cell listed again later still has its tags.
TagsStay ==
    versions' # versions =>
        \A e \in entries : e.meant \in Present(cells) /\ cells[e.meant].id = e.cell
           => /\ e \in entries'
              /\ e.meant \in Present(cells') /\ cells'[e.meant].id = e.cell

TagsSurviveImport == [][TagsStay]_vars

=============================================================================
