----------------------------- MODULE MaskPipeline ---------------------------
(***************************************************************************)
(* What POST /v1/mask does with one upload once it has a slot: the checks  *)
(* on the upload, the call to the inference endpoint, the checks on its    *)
(* answer, the placing of every region and the status the client gets      *)
(* (Service.process, the masking engine, mapError, handleMask).            *)
(*                                                                         *)
(* A field stands for a key and a value as the engine reads them.  Where a *)
(* box falls is abstract: on its page, off it, or told in coordinates that *)
(* are not numbers.                                                        *)
(***************************************************************************)
EXTENDS Integers, Sequences, FiniteSets

CONSTANTS
    Fields,         \* what the endpoint may report: a key with a value
    Supported,      \* those one of the twelve rules applies to
    MaxPages        \* the largest document and the largest page number

ASSUME PipelineAssumption ==
    /\ Supported \subseteq Fields
    /\ MaxPages \in Nat \ {0}

Unread == "unread"
ASSUME UnreadAssumption == Unread \notin Fields

VARIABLES
    doc,        \* the upload
    answer,     \* what the endpoint answered
    stage,      \* how far process is
    pending,    \* the regions that are still to be placed
    placed,     \* the regions that will be drawn
    result      \* what the client gets

vars == <<doc, answer, stage, pending, placed, result>>

Page == 1 .. MaxPages

\* What the upload is declared as, and, of an image, what it holds.
Type == {"pdf", "png", "jpeg", "other"}

\* What can be wrong with an upload.  "broken" is an image whose header is
\* fine and whose pixels are not, or a PDF that cannot be inspected.
Fault == {"none", "empty", "too_large", "header", "too_many_pages", "broken",
          "unsized"}

IsImage(d) == d.type \in {"png", "jpeg"}

Document ==
    {d \in [type : Type, fault : Fault, pages : Page] :
        /\ d.fault = "header" => IsImage(d)
        /\ d.fault \in {"too_many_pages", "unsized"} => d.type = "pdf"
        /\ d.type # "pdf" => d.pages = 1}

\* A box as the endpoint reports it, page 0 if it names none.
Box == [page : 0 .. MaxPages, place : {"on", "off", "unreadable"}]

\* An element of the answer with a value that was read (or Unread), with
\* coordinates of some kind or none at all.
Item == [field : Fields \cup {Unread}, located : BOOLEAN, boxes : Seq(Box),
         page : 0 .. MaxPages]

\* The root of the body names a known schema, or not; "null" is no payload.
Shape == {"known", "unknown", "null"}

Answer == [shape : Shape, items : Seq(Item)]

NoAnswer == [shape |-> "null", items |-> <<>>]
NoResult == [http |-> 0, code |-> "none", retryable |-> FALSE]

Stage == {"validate", "count", "call", "judge", "decode", "place", "render",
          "done"}

-----------------------------------------------------------------------------
(* Reading the answer.                                                     *)

Items(a) == {a.items[i] : i \in DOMAIN a.items}

\* parseBoundingBoxes drops what it cannot read.
Readable(item) == {k \in DOMAIN item.boxes : item.boxes[k].place # "unreadable"}

\* BuildFieldEntries: one entry per key and value.
Reported(a) == {item.field : item \in Items(a)} \ {Unread}

\* FieldEntry.HasBoundingBox: the sightings of a field are ored together.
HasBox(a, f) == \E item \in Items(a) : item.field = f /\ Readable(item) # {}

\* Wrong on purpose: fields under the generic rule count as well.
MissingOfAnyRule(a) == {f \in Reported(a) : ~HasBox(a, f)}

\* FieldsMissingGeometry.
FieldsMissingGeometry(a) == {f \in Reported(a) \cap Supported : ~HasBox(a, f)}

\* ContainsGeometry: coordinates anywhere, readable or not.
ContainsGeometry(a) == \E item \in Items(a) : item.located

\* The page of a box: its own, else its field's, else the first.
PageOf(box, item) ==
    IF box.page # 0 THEN box.page
    ELSE IF item.page # 0 THEN item.page ELSE 1

\* CollectMaskRegions: one region for every readable box of a read field.
Regions(a) ==
    UNION {{[item |-> i, box |-> k, place |-> a.items[i].boxes[k].place,
             page |-> PageOf(a.items[i].boxes[k], a.items[i])]
               : k \in Readable(a.items[i])}
             : i \in {n \in DOMAIN a.items : a.items[n].field # Unread}}

-----------------------------------------------------------------------------
(* What the client gets.                                                   *)

\* Wrong on purpose: a placement error is mapped like any other error.
ResultOfPlain(code) ==
    CASE code = "completed" -> [http |-> 200, code |-> code, retryable |-> FALSE]
      [] code \in {"masking_failed", "processing_failed"} ->
            [http |-> 400, code |-> "processing_failed", retryable |-> FALSE]
      [] code = "upstream_transient" ->
            [http |-> 502, code |-> code, retryable |-> TRUE]
      [] OTHER -> [http |-> 502, code |-> code, retryable |-> FALSE]

\* mapError and handleMask.
ResultOf(code) ==
    CASE code = "completed" -> [http |-> 200, code |-> code, retryable |-> FALSE]
      [] code = "processing_failed" ->
            [http |-> 400, code |-> code, retryable |-> FALSE]
      [] code \in {"masking_failed", "upstream_transient"} ->
            [http |-> 502, code |-> code, retryable |-> TRUE]
      [] OTHER -> [http |-> 502, code |-> code, retryable |-> FALSE]

TypeOK ==
    /\ doc \in Document
    /\ answer.shape \in Shape
    /\ \A item \in Items(answer) : item \in Item
    /\ stage \in Stage
    /\ pending \cup placed \subseteq Regions(answer)
    /\ result.http \in {0, 200, 400, 502}

InitWith(documents) ==
    /\ doc \in documents
    /\ answer = NoAnswer
    /\ stage = "validate"
    /\ pending = {}
    /\ placed = {}
    /\ result = NoResult

Init == InitWith(Document)

Advance(to) ==
    /\ stage' = to
    /\ UNCHANGED <<doc, answer, pending, placed, result>>

End(code) ==
    /\ stage' = "done"
    /\ result' = ResultOf(code)
    /\ UNCHANGED <<doc, answer, pending, placed>>

\* validateAttachment: size, type, and the header of an image.
Validate ==
    /\ stage = "validate"
    /\ IF doc.fault \in {"empty", "too_large", "header"} \/ doc.type = "other"
         THEN End("processing_failed")
         ELSE Advance("count")

\* countPages opens a PDF; an image is one page.
CountPages ==
    /\ stage = "count"
    /\ IF doc.type = "pdf" /\ doc.fault \in {"broken", "too_many_pages"}
         THEN End("processing_failed")
         ELSE Advance("call")

\* prepareUpstreamAttachment decodes an image that is not PNG yet.
PrepareFails ==
    /\ stage = "call"
    /\ doc.type = "jpeg" /\ doc.fault = "broken"
    /\ End("upstream_prepare_failed")

\* performParseRequest: no answer, an error status, or a body that is too
\* large or not JSON.  Of these errors some may pass (transient), others not.
CallFails ==
    /\ stage = "call"
    /\ ~(doc.type = "jpeg" /\ doc.fault = "broken")
    /\ \E code \in {"upstream_final", "upstream_transient"} : End(code)

CallReturns(answers) ==
    /\ stage = "call"
    /\ ~(doc.type = "jpeg" /\ doc.fault = "broken")
    /\ answer' \in answers
    /\ stage' = "judge"
    /\ UNCHANGED <<doc, pending, placed, result>>

\* Wrong on purpose: an answer with nothing to draw has nothing to hide.
VerdictTrusting(a) ==
    IF a.shape = "null" THEN "upstream_payload_unrecognized"
    ELSE IF Regions(a) # {} /\ FieldsMissingGeometry(a) # {} THEN "masking_failed"
    ELSE "none"

\* Why process refuses the answer before it draws anything; "none" if it
\* does not.
Verdict(a) ==
    IF \/ a.shape = "null"
       \/ Reported(a) = {} /\ (ContainsGeometry(a) \/ a.shape = "unknown")
      THEN "upstream_payload_unrecognized"
    ELSE IF \/ Reported(a) # {} /\ Regions(a) = {}
            \/ FieldsMissingGeometry(a) # {}
      THEN "masking_failed"
    ELSE "none"

Judge ==
    /\ stage = "judge"
    /\ IF Verdict(answer) # "none" THEN End(Verdict(answer))
       ELSE IF Regions(answer) = {} THEN End("completed")
       ELSE Advance("decode")

\* MaskImageFile decodes the pixels.
Decode ==
    /\ stage = "decode"
    /\ IF doc.fault = "broken"
         THEN End("processing_failed")
         ELSE /\ stage' = "place"
              /\ pending' = Regions(answer)
              /\ UNCHANGED <<doc, answer, placed, result>>

\* What placing a region on the upload says.  An image has one page whatever
\* page the region is for; of a PDF only the last page may lack a size.
Placement(g) ==
    IF doc.type = "pdf" /\ g.page > doc.pages THEN "masking_failed"
    ELSE IF doc.fault = "unsized" /\ g.page = doc.pages THEN "processing_failed"
    ELSE IF g.place = "off" THEN "masking_failed"
    ELSE "none"

\* Wrong on purpose: a region that cannot be placed is left out.
PlaceOrSkip(g) ==
    /\ stage = "place"
    /\ pending' = pending \ {g}
    /\ placed' = IF Placement(g) = "none" THEN placed \cup {g} ELSE placed
    /\ UNCHANGED <<doc, answer, stage, result>>

\* placeRegion, in an order that depends on the walk over the answer's maps.
Place(g) ==
    /\ stage = "place"
    /\ IF Placement(g) # "none"
         THEN End(Placement(g))
         ELSE /\ pending' = pending \ {g}
              /\ placed' = placed \cup {g}
              /\ UNCHANGED <<doc, answer, stage, result>>

AllPlaced ==
    /\ stage = "place"
    /\ pending = {}
    /\ Advance("render")

\* The codec or pdfcpu gives up, on an upload it could read so far.
RenderFails ==
    /\ stage = "render"
    /\ End("processing_failed")

\* Not one byte differs from the upload.
RenderChangesNothing ==
    /\ stage = "render"
    /\ End("masking_failed")

Render ==
    /\ stage = "render"
    /\ End("completed")

NextWith(answers) ==
    \/ Validate \/ CountPages
    \/ PrepareFails \/ CallFails \/ CallReturns(answers)
    \/ Judge \/ Decode
    \/ \E g \in pending : Place(g)
    \/ AllPlaced
    \/ RenderFails \/ RenderChangesNothing \/ Render

Next == NextWith(Answer)

Spec == Init /\ [][Next]_vars

-----------------------------------------------------------------------------
(* Properties.                                                             *)

Completed == stage = "done" /\ result.code = "completed"

\* A document goes out as completed only if every field a rule applies to has
\* been drawn somewhere, and wherever else the answer located it as well:
\* nothing is left readable because an element, a box or a page was skipped.
EveryFieldCovered ==
    Completed =>
        /\ \A f \in Reported(answer) \cap Supported :
              \E g \in placed : answer.items[g.item].field = f
        /\ placed = Regions(answer)

\* README: completed with no region drawn means the endpoint reported no
\* personal data, not that what it reported could not be used.
UntouchedMeansNothingReported ==
    Completed /\ placed = {} =>
        Reported(answer) = {} /\ ~ContainsGeometry(answer)

\* The blame is put where the fault is.  A 400 that is not worth retrying is
\* an upload nothing can be done with; a retryable 502, but for a call that
\* failed, is an answer that would have been refused for a flawless upload
\* too, unless the output came out unchanged.
BlameFits ==
    stage = "done" =>
        /\ result.http = 400 =>
              ~result.retryable /\ (doc.fault # "none" \/ doc.type = "other"
                                       \/ (placed = Regions(answer) /\ placed # {}))
        /\ result.retryable /\ result.code # "upstream_transient" =>
              \/ Verdict(answer) = "masking_failed"
              \/ \E g \in Regions(answer) : g.place = "off" \/ g.page > doc.pages
              \/ placed = Regions(answer)

\* A usable answer is never refused: with every box on its page, and every
\* field under a rule located, a sound upload comes out masked unless the
\* call or the renderer fails.  Elements under the generic rule need no box.
UsableAnswerIsUsed ==
    (/\ stage = "done"
     /\ doc.fault = "none" /\ doc.type # "other"
     /\ answer.shape = "known" /\ Regions(answer) # {}
     /\ \A f \in Reported(answer) \cap Supported : HasBox(answer, f)
     /\ \A g \in Regions(answer) : g.place = "on" /\ g.page <= doc.pages)
       => placed = Regions(answer)

-----------------------------------------------------------------------------
(* What the README says and the code does not do.                          *)

\* "The coordinates are not numbers, so it is not known what to cover" is
\* masking_failed.
EveryBoxWasRead ==
    Completed =>
        \A item \in Items(answer) :
            item.field \in Supported => Readable(item) = DOMAIN item.boxes

=============================================================================
