----------------------------- MODULE Targeting -----------------------------
(***************************************************************************)
(* How the areas of a CAP info block become the target of a CBS message:   *)
(* cbs.Preparer.target, with inventory.Service.SelectionPreview for        *)
(* polygons and circles and geocode.Service.ResolveCells for geocodes,     *)
(* while HTTP requests change the inventory it reads.                      *)
(*                                                                         *)
(* Every shape and every geocode is one query, so an import may commit     *)
(* between two of them.  A shape is named by its zone, and the zones of a  *)
(* cell are the shapes it is selected for (by the comparison of module     *)
(* Geometry).                                                              *)
(***************************************************************************)
EXTENDS Inventory

CONSTANTS
    Requests,        \* info blocks: what their areas name
    OwnPlmn,         \* sbcap.plmn
    AllowPLMNWide    \* cbs.allow_plmn_wide

\* cells and tais: literal cell and tracking-area geocodes; shapes: polygons
\* and circles; codes: every geocode, as written.
RequestType == [cells : SUBSET Ecis, tais : BOOLEAN, shapes : Seq(Zones), codes : Seq(Tags)]

Targets == [req : RequestType, shapes : Nat, codes : Nat, cells : SUBSET Ecis]

ASSUME TargetingAssumption ==
    /\ Requests \subseteq RequestType
    /\ OwnPlmn \in Plmns
    /\ AllowPLMNWide \in BOOLEAN
    /\ None \notin Targets

\* A polygon or circle is no geocode.
ASSUME KindsAssumption == Zones \cap Tags = {}

VARIABLES
    target,   \* the call of target() in progress: queries done, cells so far; or None
    always,   \* history: what has matched ever since the call began
    ever      \* history: what has matched at some time during the call

tvars == <<cells, nextId, entries, imports, versions, handlers, target, always, ever>>

-----------------------------------------------------------------------------
(* The queries *)

\* FindBoundingBoxCandidates: the active cells of the configured PLMN.  Its
\* bounding boxes only spare the matcher cells that it would reject.
Candidates == {k \in Active(cells) : k.plmn = OwnPlmn}

\* The matcher's verdict on a cell.
Evaluate(k, z) == z \in cells[k].zones

SelectionPreview(z) == {k.eci : k \in {l \in Candidates : Evaluate(l, z)}}

\* Faulty variant: the join is lost.
ResolveCellsUnjoined(tag) ==
    {e.meant.eci : e \in {f \in entries : f.tag = tag}}

\* ResolveCells: the ECIs of active cells with exactly this tag, of any PLMN.
ResolveCells(tag) ==
    {k.eci : k \in {l \in Active(cells) : Tagged(cells[l].id, tag)}}

Resolving == target # None

TargetBegin(req) ==
    /\ ~Resolving
    /\ target' = [req |-> req, shapes |-> 0, codes |-> 0, cells |-> req.cells]

ResolveShape ==
    /\ Resolving /\ target.shapes < Len(target.req.shapes)
    /\ target' = [target EXCEPT !.shapes = @ + 1,
                    !.cells = @ \cup SelectionPreview(target.req.shapes[target.shapes + 1])]

ShapesDone == Resolving /\ target.shapes = Len(target.req.shapes)

\* Geocodes come after all shapes, and are looked up trimmed and in upper case.
ResolveCode ==
    /\ ShapesDone /\ target.codes < Len(target.req.codes)
    /\ target' = [target EXCEPT !.codes = @ + 1,
                    !.cells = @ \cup ResolveCells(Canonical[target.req.codes[target.codes + 1]])]

AllDone == ShapesDone /\ target.codes = Len(target.req.codes)

\* What the call returns when all its queries are done: cells and tracking
\* areas together are refused, and so is nothing at all unless a PLMN-wide
\* broadcast is allowed.
Scope ==
    CASE target.cells # {} /\ target.req.tais -> "refused"
      [] target.cells # {} /\ ~target.req.tais -> "cell"
      [] target.cells = {} /\ target.req.tais -> "tracking area"
      [] target.cells = {} /\ ~target.req.tais -> IF AllowPLMNWide THEN "plmn" ELSE "refused"

\* The call returns Scope and the cells, or the error of a query or of the
\* conversion of a shape.
TargetEnd ==
    /\ Resolving
    /\ target' = None

TargetStep ==
    \/ \E req \in Requests : TargetBegin(req)
    \/ ResolveShape \/ ResolveCode \/ TargetEnd

-----------------------------------------------------------------------------
(* History: which cells match which criterion of the request *)

Matches(cs, es, req) ==
    {m \in {req.shapes[i] : i \in DOMAIN req.shapes} \X Active(cs) :
        m[2].plmn = OwnPlmn /\ m[1] \in cs[m[2]].zones}
    \cup
    {m \in {Canonical[req.codes[i]] : i \in DOMAIN req.codes} \X Active(cs) :
        \E e \in es : e.cell = cs[m[2]].id /\ e.tag = m[1]}

\* The history begins with the call and ends with it.
Track ==
    LET now == Matches(cells', entries', target'.req)
    IN  IF target' = None THEN always' = {} /\ ever' = {}
        ELSE /\ always' = IF Resolving THEN always \cap now ELSE now
             /\ ever' = ever \cup now

TargetingInit == Init /\ target = None /\ always = {} /\ ever = {}

\* A crash takes the call with it; a request leaves it be.
TargetingNext ==
    /\ \/ Step /\ UNCHANGED target
       \/ Crash /\ target' = None
       \/ TargetStep /\ UNCHANGED vars
    /\ Track

TargetingSpec == TargetingInit /\ [][TargetingNext]_tvars

-----------------------------------------------------------------------------
(* Properties *)

\* Inventory and call are well formed.
TargetingTypeOK ==
    /\ TypeOK
    /\ target \in Targets \cup {None}
    /\ always \subseteq ever

\* The call is about to return a target.
Succeeds == AllDone /\ Scope # "refused"

\* The target is the area that was meant, whatever imports, deletions and tags
\* went on during the call.  Nobody is left out: a cell that matched one and the
\* same shape or geocode throughout is in it, and so a message goes to tracking
\* areas or PLMN-wide only when there was none.  And nobody is alerted by
\* mistake: a cell in it was named literally, or was active and matched a shape
\* or geocode at some time during the call.
TargetIsMeantArea ==
    Succeeds =>
        /\ {m[2].eci : m \in always} \subseteq target.cells
        /\ target.cells \subseteq target.req.cells \cup {m[2].eci : m \in ever}

=============================================================================
