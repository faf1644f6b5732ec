------------------------------ MODULE WordPages ------------------------------
(***************************************************************************)
(* DocxHandler.prepare: the body of a Word document becomes blocks, every  *)
(* block gets a page, and the pages that show more than text get an image. *)
(* Pages come from the rendering of LibreOffice, or on the low tier, which *)
(* renders nothing, from the explicit breaks of the document.              *)
(*                                                                         *)
(* The rendered text is a row of slots, PageSlots to a page; every block   *)
(* is drawn in a slot of its own.  The key of a block occurs in that slot  *)
(* or not (field codes, rotated text, pictures), and in any other slots    *)
(* (headers, headings that are repeated, a table of contents).             *)
(***************************************************************************)
EXTENDS Naturals, Sequences, FiniteSets, FiniteSetsExt

CONSTANTS
    MaxElements,     \* bound: elements of the body
    MaxPages,        \* bound: pages of the rendering
    PageSlots        \* bound: blocks drawn on a page

ASSUME BodyAssumption ==
    MaxElements \in Nat /\ MaxPages \in Nat \ {0} /\ PageSlots \in Nat \ {0}

VARIABLES
    wordStage,       \* of prepare
    wordLowTier,
    elements,        \* elements of the body read so far
    pendingBreak,    \* the element before ended a page
    blocks,
    pageCount,       \* pages of the rendering
    drawn,           \* per aligned block: its slot, and whether its key occurs in it
    repeated,        \* a key occurs in another slot than that of its block
    position,        \* where the search goes on
    currentPage,
    pageByBlock,
    skipped,         \* pages of pictures where reading the images raised an error
    looked           \* pages with an image

wordVars == <<wordStage, wordLowTier, elements, pendingBreak, blocks, pageCount, drawn,
              repeated, position, currentPage, pageByBlock, skipped, looked>>

\* A picture is drawn as a raster image or with enough drawings to stand out.  A
\* drawing is not: a simple shape, an equation set as text, or a table whose flattening
\* loses something; other tables are text here.
Kinds == {"text", "picture", "drawing"}

Block(kind, starts) == [kind |-> kind, startsPage |-> starts]

Last == MaxPages * PageSlots

WordTypeOK ==
    /\ wordStage \in {"reading", "aligning", "building", "prepared", "failed"}
    /\ wordLowTier \in BOOLEAN /\ pendingBreak \in BOOLEAN /\ repeated \in BOOLEAN
    /\ elements \in 0..MaxElements
    /\ blocks \in Seq([kind : Kinds, startsPage : BOOLEAN])
    /\ pageCount \in 0..MaxPages
    /\ drawn \in Seq([slot : 1..Last, found : BOOLEAN])
    /\ position \in 1..Last + 1 /\ currentPage \in 1..MaxPages
    /\ pageByBlock \in Seq(1..MaxElements + MaxPages)
    /\ skipped \subseteq 1..MaxPages /\ looked \subseteq 1..MaxPages

WordInit ==
    /\ wordStage = "reading"
    /\ wordLowTier \in BOOLEAN
    /\ elements = 0 /\ pendingBreak = FALSE /\ repeated = FALSE
    /\ blocks = <<>> /\ drawn = <<>> /\ pageByBlock = <<>>
    /\ pageCount = 0 /\ position = 1 /\ currentPage = 1
    /\ skipped = {} /\ looked = {}

-----------------------------------------------------------------------------
(* extract_docx *)

alignVars == <<pageCount, drawn, repeated, position, currentPage, pageByBlock, skipped, looked>>

Element(newBlocks, breaks) ==
    /\ wordStage = "reading"
    /\ elements < MaxElements
    /\ elements' = elements + 1
    /\ blocks' = blocks \o newBlocks
    /\ pendingBreak' = breaks
    /\ UNCHANGED <<wordStage, wordLowTier, alignVars>>

\* A paragraph may have nothing to show, and may hold a page or section break.
ReadParagraph ==
    \E breaks \in BOOLEAN :
        \/ \E kind \in Kinds :
             Element(<<Block(kind, pendingBreak)>>, breaks)
        \/ Element(<<>>, breaks)

ReadTable ==
    \/ Element(<<Block("drawing", pendingBreak)>>, FALSE)
    \/ Element(<<>>, FALSE)

\* split_blocks_by_breaks.  Mutant: a break before everything else makes a page.
PageOfBreaksAll(i) == 1 + Cardinality({j \in 1..i : blocks[j].startsPage})

PageOfBreaks(i) == 1 + Cardinality({j \in 2..i : blocks[j].startsPage})

PrepareLowTier ==
    /\ wordStage = "reading"
    /\ wordLowTier
    /\ blocks # <<>>
    /\ pageByBlock' = [i \in 1..Len(blocks) |-> PageOfBreaks(i)]
    /\ wordStage' = "prepared"
    /\ UNCHANGED <<wordLowTier, elements, pendingBreak, blocks, pageCount, drawn,
                   repeated, position, currentPage, skipped, looked>>

\* The rendering says where pages end; the breaks have done their part in it.
Render ==
    /\ wordStage = "reading"
    /\ ~wordLowTier
    /\ blocks # <<>>
    /\ pageCount' \in 1..MaxPages
    /\ blocks' = [i \in 1..Len(blocks) |-> Block(blocks[i].kind, FALSE)]
    /\ pendingBreak' = FALSE
    /\ wordStage' = "aligning"
    /\ UNCHANGED <<wordLowTier, elements, drawn, repeated, position, currentPage, pageByBlock,
                   skipped, looked>>

\* No readable content, or a conversion that fails or has no pages.
PrepareFails ==
    /\ wordStage = "reading"
    /\ blocks = <<>> \/ ~wordLowTier
    /\ wordStage' = "failed"
    /\ UNCHANGED <<wordLowTier, elements, pendingBreak, blocks, alignVars>>

-----------------------------------------------------------------------------
(* align_blocks_to_pages and _build_pages *)

PageOf(slot)    == (slot - 1) \div PageSlots + 1
PageStart(page) == (page - 1) * PageSlots + 1

\* Mutant: no way back to the page before.
BacktrackHere == PageStart(currentPage)

Backtrack == PageStart(IF currentPage = 1 THEN 1 ELSE currentPage - 1)

Slots == 1..pageCount * PageSlots

\* _locate: the first occurrence forward from the block before, or else the first one
\* from the page before on; 0 when there is none.
Located(occurrences) ==
    LET ahead  == {slot \in occurrences : slot >= position}
        behind == {slot \in occurrences : slot >= Backtrack}
    IN IF ahead # {} THEN Min(ahead) ELSE IF behind # {} THEN Min(behind) ELSE 0

\* A key that is too short is not looked for, as if it occurred nowhere.
AlignBlock ==
    /\ wordStage = "aligning"
    /\ Len(pageByBlock) < Len(blocks)
    /\ \E slot \in Slots, occurrences \in SUBSET Slots :
         /\ drawn' = Append(drawn, [slot |-> slot, found |-> slot \in occurrences])
         /\ repeated' = (repeated \/ ~(occurrences \subseteq {slot}))
         /\ IF Located(occurrences) # 0
            THEN /\ position' = Located(occurrences) + 1
                 /\ currentPage' = PageOf(Located(occurrences))
            ELSE UNCHANGED <<position, currentPage>>
    /\ pageByBlock' = Append(pageByBlock, currentPage')
    /\ wordStage' = IF Len(pageByBlock') = Len(blocks) THEN "building" ELSE wordStage
    /\ UNCHANGED <<wordLowTier, elements, pendingBreak, blocks, pageCount, skipped, looked>>

\* Mutant: only the page a picture was aligned to.
NoRenderedVisuals == {}

\* pages_with_rendered_visuals: a page with a raster image, or with many drawings.
RenderedVisuals ==
    {PageOf(drawn[i].slot) : i \in {i \in 1..Len(blocks) : blocks[i].kind = "picture"}}

\* Drawings of several blocks, the lines of a table or what stands in a header may
\* make enough of any page.
BuildPages ==
    /\ wordStage = "building"
    /\ skipped' \in SUBSET RenderedVisuals
    /\ \E crowded \in SUBSET (1..pageCount) :
         looked' = ((RenderedVisuals \cup crowded) \ skipped') \cup
                   {pageByBlock[i] : i \in {i \in 1..Len(blocks) : blocks[i].kind # "text"}}
    /\ wordStage' = "prepared"
    /\ UNCHANGED <<wordLowTier, elements, pendingBreak, blocks, pageCount, drawn,
                   repeated, position, currentPage, pageByBlock>>

WordStep ==
    \/ ReadParagraph \/ ReadTable
    \/ PrepareLowTier \/ Render \/ PrepareFails
    \/ AlignBlock
    \/ BuildPages

WordSpec == WordInit /\ [][WordStep]_wordVars

-----------------------------------------------------------------------------
(* Properties. *)

PageDrawn(i) == PageOf(drawn[i].slot)

\* Nothing before it was drawn more than a page further on.
InReach(i) == \A j \in 1..(i - 1) : PageDrawn(i) + 1 >= PageDrawn(j)

\* In a text that does not repeat itself, a block whose key is found is put on the
\* page it is drawn on, through blocks that are not found and content that floats
\* back by a page.
BlocksAreWhereTheyAreDrawn ==
    \A i \in 1..Len(drawn) :
        drawn[i].found /\ ~repeated /\ InReach(i) => pageByBlock[i] = PageDrawn(i)

\* Whatever is repeated, no block is put more than a page before the one before it.
NeverFarBack ==
    \A i \in 2..Len(drawn) : pageByBlock[i] + 1 >= pageByBlock[i - 1]

\* A picture need not have text to be aligned by: the page it is drawn on is looked at
\* where its images can be read.  Of whatever is not text, the page it is put on is.
WhatTextCannotSayIsSeen ==
    wordStage = "prepared" /\ ~wordLowTier =>
        \A i \in 1..Len(blocks) :
            /\ blocks[i].kind = "picture" => PageDrawn(i) \in looked \cup skipped
            /\ blocks[i].kind # "text" => pageByBlock[i] \in looked

\* Without a rendering no page is empty, and none is looked at.
LowTierPagesAreFilled ==
    wordStage = "prepared" /\ wordLowTier =>
        /\ looked = {}
        /\ \A i \in 1..Len(blocks) : \A page \in 1..pageByBlock[i] :
             \E j \in 1..i : pageByBlock[j] = page

\* A block whose key is found is put on the page it is drawn on, unless the text
\* repeats itself, and then not far back; the page of a picture is looked at; and
\* without a rendering no page is empty (docx_semantic.py, libreoffice.py).
WordPagesAreTrue ==
    /\ BlocksAreWhereTheyAreDrawn
    /\ NeverFarBack
    /\ WhatTextCannotSayIsSeen
    /\ LowTierPagesAreFilled

\* The search goes on behind the beginning of its page; in a text that does not repeat
\* itself, on a page where a block is drawn.
CursorInv ==
    /\ position >= PageStart(currentPage)
    /\ repeated \/ (position = 1 /\ currentPage = 1)
       \/ \E i \in 1..Len(drawn) : currentPage = PageDrawn(i)

\* The breaks seen so far leave no page out.
BreaksInv ==
    \A i \in 1..Len(blocks) : \A page \in 1..PageOfBreaks(i) :
        \E j \in 1..i : PageOfBreaks(j) = page

\* Inductive, with how far the blocks have come.
WordInv ==
    /\ WordTypeOK
    /\ WordPagesAreTrue
    /\ CursorInv
    /\ Len(blocks) <= elements
    /\ wordStage = "reading" => BreaksInv /\ drawn = <<>> /\ pageByBlock = <<>> /\ looked = {}
    /\ wordStage \in {"aligning", "building"} =>
         /\ ~wordLowTier
         /\ Len(drawn) = Len(pageByBlock) /\ pageByBlock \in Seq(1..MaxPages)
         /\ \A i \in 1..Len(drawn) : i = Len(drawn) => currentPage = pageByBlock[i]
    /\ wordStage = "building" => Len(drawn) = Len(blocks)
=============================================================================
