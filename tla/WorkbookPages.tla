---------------------------- MODULE WorkbookPages ----------------------------
(***************************************************************************)
(* XlsxHandler.prepare: every sheet of a workbook is judged a document or  *)
(* a table of data.  The visible documents are rendered, the rendered      *)
(* pages are attributed to their sheets by the text found on them, and     *)
(* sheets and pages become one row of units, which Vision numbers too.     *)
(*                                                                         *)
(* A sheet is its verdict, and a sequence of rows known by what they fill; *)
(* the text of a page is how well each sheet scores on it.                 *)
(***************************************************************************)
EXTENDS Naturals, Sequences, FiniteSets

CONSTANTS
    SheetTotal,      \* bound: sheets of the workbook
    SheetPages,      \* bound: pages a sheet prints on
    MaxScore,        \* bound: distinctive keys of a sheet found on a page
    SignalsOf,       \* bound: what a sheet may show, by its place (of Signals)
    RowsOf           \* bound: the rows of a document, by the number of sheets

VARIABLES
    bookStage,       \* of prepare
    bookLowTier,
    sheets,          \* [document, hidden, visuals]
    signals,         \* what the sheet read last shows
    prints,          \* the sheet each rendered page is of
    attributed,      \* the sheet each page is taken to be of
    honest,          \* every page had most of its own sheet's keys so far
    units,
    segmented,       \* the sheet built last: its rows, blocks and their pages
    bookImages       \* unit -> the page its image is of

bookVars == <<bookStage, bookLowTier, sheets, signals, prints, attributed, honest, units,
              segmented, bookImages>>

Ranges   == {"tiny", "small", "medium", "large"}
Traits   == {"printArea", "dense", "vertical", "structure", "uniform", "homogeneous"}
RowKinds == {"empty", "single", "words", "numbers", "banded"}

\* A sheet shows some traits and the size of its range; an empty one nothing.
Signals == {{}} \cup {shown \cup {range} : shown \in SUBSET Traits, range \in Ranges}

ASSUME BookAssumption ==
    /\ SheetTotal \in Nat /\ SheetPages \in Nat /\ MaxScore \in Nat
    /\ SignalsOf \in [1..SheetTotal -> SUBSET Signals]
    /\ RowsOf \in [1..SheetTotal -> SUBSET Seq(RowKinds)]

NotSegmented(i) == [sheet |-> i, rows |-> <<>>, blocks |-> <<>>, pages |-> <<>>]

BookInit ==
    /\ bookStage = "reading"
    /\ bookLowTier \in BOOLEAN
    /\ sheets = <<>> /\ signals = {}
    /\ prints = <<>> /\ attributed = <<>> /\ honest = TRUE
    /\ units = <<>> /\ segmented = NotSegmented(0)
    /\ bookImages = <<>>

-----------------------------------------------------------------------------
(* classify_sheet *)

Weight(trait, shown, weight) == IF trait \in shown THEN weight ELSE 0

DocumentScore(shown) ==
    Weight("printArea", shown, 3) + Weight("dense", shown, 3) + Weight("vertical", shown, 2)
    + Weight("tiny", shown, 5) + Weight("small", shown, 3)
    + (IF "structure" \in shown THEN 0 ELSE 1)

DataScore(shown) ==
    Weight("structure", shown, 4) + Weight("large", shown, 4) + Weight("medium", shown, 2)
    + Weight("uniform", shown, 3) + Weight("homogeneous", shown, 2)

\* Mutant: a draw is a document.
NotLess(shown) == shown # {} /\ DocumentScore(shown) >= DataScore(shown)

IsDocument(shown) == shown # {} /\ DocumentScore(shown) > DataScore(shown)

\* extract_workbook, a sheet at a time.
ReadSheet ==
    /\ bookStage = "reading"
    /\ Len(sheets) < SheetTotal
    /\ signals' \in SignalsOf[Len(sheets) + 1]
    /\ \E hidden, visuals \in BOOLEAN :
         sheets' = Append(sheets, [document |-> IsDocument(signals'),
                                   hidden |-> hidden, visuals |-> visuals])
    /\ UNCHANGED <<bookStage, bookLowTier, prints, attributed, honest, units, segmented,
                   bookImages>>

\* document_sheets: sheets are numbered in workbook order.
Documents == {i \in 1..Len(sheets) : sheets[i].document /\ ~sheets[i].hidden}

Unit(sheet, page, looked) == [sheet |-> sheet, page |-> page, looked |-> looked]

\* _prepare_without_rendering: one summary a sheet.
Summarise ==
    /\ bookStage = "reading"
    /\ sheets # <<>>
    /\ bookLowTier \/ Documents = {}
    /\ units' = [i \in 1..Len(sheets) |-> Unit(i, 0, FALSE)]
    /\ bookStage' = "prepared"
    /\ signals' = {}
    /\ UNCHANGED <<bookLowTier, sheets, prints, attributed, honest, segmented, bookImages>>

\* What Calc makes of the documents, in workbook order; one may print nothing.
Renderings(n) ==
    {order \in [1..n -> Documents] :
        /\ \A p, q \in 1..n : p <= q => order[p] <= order[q]
        /\ \A i \in Documents : Cardinality({p \in 1..n : order[p] = i}) <= SheetPages}

\* hide_sheets leaves the documents visible.
RenderBook ==
    /\ bookStage = "reading"
    /\ ~bookLowTier
    /\ \E n \in 1..SheetPages * Cardinality(Documents) : prints' \in Renderings(n)
    /\ bookStage' = "attributing"
    /\ signals' = {}
    /\ UNCHANGED <<bookLowTier, sheets, attributed, honest, units, segmented, bookImages>>

\* No sheet can be read, the conversion fails, or it has no pages.
BookFails ==
    /\ bookStage = "reading"
    /\ sheets = <<>> \/ (~bookLowTier /\ Documents # {})
    /\ bookStage' = "failed"
    /\ signals' = {}
    /\ UNCHANGED <<bookLowTier, sheets, prints, attributed, honest, units, segmented,
                   bookImages>>

-----------------------------------------------------------------------------
(* attribute_pages_to_sheets *)

\* The sheet the page before was taken to be of.
CurrentSheet == IF attributed = <<>> THEN 0 ELSE attributed[Len(attributed)]

DocumentsAfter(i) == {j \in Documents : j > i}

\* From the floor on: every later sheet still needs a page of its own.  Mutant: and
\* one more.
OpenTooLate(remaining) ==
    {i \in Documents : /\ i >= CurrentSheet
                       /\ remaining > 0 => Cardinality(DocumentsAfter(i)) < remaining}

OpenSheets(remaining) ==
    {i \in Documents : i >= CurrentSheet /\ Cardinality(DocumentsAfter(i)) <= remaining}

\* The best score, the first of equals.
BestOf(open, score) ==
    CHOOSE i \in open : \A j \in open : score[j] <= score[i] /\ (j < i => score[j] < score[i])

AttributePage ==
    /\ bookStage = "attributing"
    /\ Len(attributed) < Len(prints)
    /\ \E score \in [Documents -> 0..MaxScore] :
         LET page  == Len(attributed) + 1
             owner == prints[page]
         IN  /\ attributed' =
                  Append(attributed, BestOf(OpenSheets(Len(prints) - page), score))
             /\ honest' = (honest /\ \A j \in Documents \ {owner} : score[j] < score[owner])
    /\ bookStage' = IF Len(attributed') = Len(prints) THEN "building" ELSE bookStage
    /\ UNCHANGED <<bookLowTier, sheets, signals, prints, units, segmented, bookImages>>

-----------------------------------------------------------------------------
(* segment_sheet: a row fills nothing, one cell, or several; of several, none  *)
(* is a number, some are, or the first row of a banded header is merged.       *)

\* _split_preamble: the rows of a band above the header of the table.
Preamble(rows, run) ==
    LET numbered == {n \in 1..Len(run) : rows[run[n]] = "numbers"}
        body     == CHOOSE n \in numbered : \A m \in numbered : n <= m
    IN  IF Len(run) >= 3 /\ rows[run[1]] # "banded" /\ numbered # {} /\ body \in 3..5
        THEN body - 2 ELSE 0

BlockOf(kind, run) == [kind |-> kind, run |-> run]
BlocksOf(kind, run) == IF run = <<>> THEN <<>> ELSE <<BlockOf(kind, run)>>

FlushTable(rows, run) ==
    LET band == Preamble(rows, run)
    IN  BlocksOf("text", SubSeq(run, 1, band)) \o BlocksOf("table", SubSeq(run, band + 1, Len(run)))

Flushed(rows, pass) ==
    pass.blocks \o BlocksOf("text", pass.text) \o FlushTable(rows, pass.table)

SegmentRow(rows, pass, n) ==
    IF rows[n] = "empty"
    THEN [blocks |-> Flushed(rows, pass), text |-> <<>>, table |-> <<>>]
    ELSE IF rows[n] = "single"
    THEN [blocks |-> pass.blocks \o FlushTable(rows, pass.table),
          text |-> Append(pass.text, n), table |-> <<>>]
    ELSE [blocks |-> pass.blocks \o BlocksOf("text", pass.text),
          text |-> <<>>, table |-> Append(pass.table, n)]

NothingRead == [blocks |-> <<>>, text |-> <<>>, table |-> <<>>]

\* The pass over the rows, after each of them.
PassOver(rows) ==
    LET pass[n \in 0..Len(rows)] ==
          IF n = 0 THEN NothingRead ELSE SegmentRow(rows, pass[n - 1], n)
    IN  pass

Segment(rows) == Flushed(rows, PassOver(rows)[Len(rows)])

-----------------------------------------------------------------------------
(* _build_units *)

PagesOf(i) == {p \in 1..Len(attributed) : attributed[p] = i}

\* The k-th of some pages.
Nth(pages, k) == CHOOSE p \in pages : Cardinality({q \in pages : q <= p}) = k

\* align_blocks_to_pages: a block is found on a page, not before that of the block
\* before it, or put on that one.  Mutant: it is found on any page of the sheet.
AlignedAnywhere(blocks, pages) == [1..Len(blocks) -> pages]

Aligned(blocks, pages) ==
    IF pages = {} THEN {<<>>} ELSE
    {at \in [1..Len(blocks) -> pages] : \A b \in 2..Len(blocks) : at[b - 1] <= at[b]}

\* A table with merged cells is lossy, and the first page of a sheet shows its
\* pictures.
Lossy(rows, block) == block.kind = "table" /\ \E n \in 1..Len(block.run) :
                                                rows[block.run[n]] = "banded"

PageUnit(i, rows, blocks, at, k) ==
    LET page == Nth(PagesOf(i), k)
    IN  Unit(i, page,
             \/ k = 1 /\ sheets[i].visuals
             \/ \E b \in 1..Len(blocks) : at[b] = page /\ Lossy(rows, blocks[b]))

NextSheet == segmented.sheet + 1

\* Mutant: a document is never summarised.
OnlyData(i) == ~sheets[i].document

Summarised(i) == ~sheets[i].document \/ PagesOf(i) = {}

BuildSheet ==
    LET i == NextSheet IN
    /\ bookStage = "building"
    /\ i <= Len(sheets)
    /\ IF Summarised(i)
       THEN units' = Append(units, Unit(i, 0, FALSE)) /\ segmented' = NotSegmented(i)
       ELSE \E rows \in RowsOf[Len(sheets)] : \E at \in Aligned(Segment(rows), PagesOf(i)) :
              /\ units' = units \o [k \in 1..Cardinality(PagesOf(i)) |->
                                      PageUnit(i, rows, Segment(rows), at, k)]
              /\ segmented' = [sheet |-> i, rows |-> rows, blocks |-> Segment(rows),
                                pages |-> at]
    /\ UNCHANGED <<bookStage, bookLowTier, sheets, signals, prints, attributed, honest,
                   bookImages>>

UnitOf(page) == CHOOSE u \in 1..Len(units) : units[u].page = page

\* The images of the units that are looked at, or whose page has a picture drawn
\* on it.  Mutant: keyed by the page of the rendering.
ImagesByPage(looked) == [page \in {units[u].page : u \in looked} |-> page]

ImagesByUnit(looked) == [u \in looked |-> units[u].page]

PublishImages ==
    /\ bookStage = "building"
    /\ NextSheet > Len(sheets)
    /\ \E drawn \in {{}} \cup {{p} : p \in 1..Len(prints)} :
         bookImages' = ImagesByUnit({u \in 1..Len(units) : units[u].looked}
                                      \cup {UnitOf(p) : p \in drawn})
    /\ bookStage' = "prepared"
    /\ UNCHANGED <<bookLowTier, sheets, signals, prints, attributed, honest, units,
                   segmented>>

BookStep ==
    \/ ReadSheet
    \/ Summarise \/ RenderBook \/ BookFails
    \/ AttributePage
    \/ BuildSheet
    \/ PublishImages

BookSpec == BookInit /\ [][BookStep]_bookVars

-----------------------------------------------------------------------------
(* Properties. *)

\* The stage, the sheets, the pages and the units have their types.
BookTypeOK ==
    /\ bookStage \in {"reading", "attributing", "building", "prepared", "failed"}
    /\ bookLowTier \in BOOLEAN /\ honest \in BOOLEAN
    /\ sheets \in Seq([document : BOOLEAN, hidden : BOOLEAN, visuals : BOOLEAN])
    /\ Len(sheets) <= SheetTotal
    /\ signals \in Signals
    /\ prints \in Seq(Documents) /\ attributed \in Seq(Documents)
    /\ units \in Seq([sheet : 1..Len(sheets), page : 0..Len(prints), looked : BOOLEAN])
    /\ segmented.sheet \in 0..Len(sheets)

\* The scores fail toward data: a list of more than 60 rows with a filter, a list
\* object or a pivot is never rendered, whatever else speaks for it.
LongListIsData ==
    {"structure", "large"} \subseteq signals => ~sheets[Len(sheets)].document

\* Where the text of every page speaks for its own sheet and every document prints,
\* every page is attributed to the sheet it is of.
AttributionIsRight ==
    honest /\ (\A i \in Documents : \E p \in 1..Len(prints) : prints[p] = i) =>
        \A p \in 1..Len(attributed) : attributed[p] = prints[p]

RunsOf(blocks) == UNION {{blocks[b].run[k] : k \in 1..Len(blocks[b].run)} : b \in 1..Len(blocks)}

RunsInOrder(blocks) ==
    \A b, c \in 1..Len(blocks) :
        \A j \in 1..Len(blocks[b].run), k \in 1..Len(blocks[c].run) :
            b < c \/ (b = c /\ j < k) => blocks[b].run[j] < blocks[c].run[k]

\* Every row of a document that shows something is in one block, and blocks go to
\* the pages in their order: wherever their text was found, no row is lost, twice
\* there, or before one that is above it.
RowsKeepTheirOrder ==
    /\ RunsOf(segmented.blocks)
         = {n \in 1..Len(segmented.rows) : segmented.rows[n] # "empty"}
    /\ RunsInOrder(segmented.blocks)
    /\ \A b \in 2..Len(segmented.pages) : segmented.pages[b - 1] <= segmented.pages[b]

PagesGrow ==
    \A u, v \in 1..Len(units) :
        u < v /\ units[u].page # 0 /\ units[v].page # 0 => units[u].page < units[v].page

SheetsGrow == \A u, v \in 1..Len(units) : u < v => units[u].sheet <= units[v].sheet

\* Every sheet has a unit, hidden and unprinted ones too, and every page has one, in
\* the order of the workbook.
UnitsFollowTheWorkbook ==
    bookStage = "prepared" =>
        /\ \A i \in 1..Len(sheets) : \E u \in 1..Len(units) : units[u].sheet = i
        /\ \A p \in 1..Len(prints) : \E u \in 1..Len(units) : units[u].page = p
        /\ SheetsGrow
        /\ PagesGrow

\* What Vision says of an image is merged with what the file says of that page:
\* merge_semantic_and_visual goes by the number of the unit.
ImagesAreOfTheirUnit ==
    \A u \in DOMAIN bookImages : u \in 1..Len(units) /\ units[u].page = bookImages[u]

\* Pages are attributed to the sheet they are of, rows keep their order, every sheet
\* and page has its unit, what Vision says of an image is merged with that unit, and
\* a long list is never rendered (xlsx_semantic.py, formats/xlsx.py).
WorkbookPagesAreTrue ==
    /\ AttributionIsRight
    /\ RowsKeepTheirOrder
    /\ UnitsFollowTheWorkbook
    /\ ImagesAreOfTheirUnit
    /\ LongListIsData

\* The pages are in workbook order, and so is what they are taken to be of.
OrderInv ==
    /\ \A p, q \in 1..Len(prints) : p <= q => prints[p] <= prints[q]
    /\ \A p, q \in 1..Len(attributed) : p <= q => attributed[p] <= attributed[q]

\* The sheets that were built have their units, with the pages that are theirs.
UnitsInv ==
    /\ \A i \in 1..segmented.sheet : \E u \in 1..Len(units) : units[u].sheet = i
    /\ \A u \in 1..Len(units) : /\ units[u].sheet <= segmented.sheet
                                /\ units[u].page # 0 =>
                                     attributed[units[u].page] = units[u].sheet
    /\ \A p \in 1..Len(attributed) : attributed[p] <= segmented.sheet =>
          \E u \in 1..Len(units) : units[u].page = p
    /\ SheetsGrow
    /\ PagesGrow

\* Inductive, with what each stage has left to do.
BookInv ==
    /\ BookTypeOK
    /\ WorkbookPagesAreTrue
    /\ OrderInv
    /\ signals # {} => sheets # <<>> /\ sheets[Len(sheets)].document = IsDocument(signals)
    /\ bookStage = "reading" => prints = <<>>
    /\ bookStage # "reading" => signals = {}
    /\ bookStage \in {"reading", "failed"} => attributed = <<>>
    /\ bookStage \in {"reading", "attributing", "failed"} =>
         units = <<>> /\ segmented = NotSegmented(0)
    /\ bookStage # "prepared" => bookImages = <<>>
    /\ bookStage = "attributing" => Len(attributed) < Len(prints)
    /\ bookStage = "building" => Len(attributed) = Len(prints) /\ UnitsInv
=============================================================================
