------------------------ MODULE ServiceRequestProofs ------------------------
(***************************************************************************)
(* Proofs about MaskPipeline, for answers of any size and shape, and about *)
(* ServiceRequest: the composition implements the pipeline, and the chain  *)
(* of requests stays where the configuration allows it, for any hosts,     *)
(* ports, allow lists and number of redirects.                             *)
(***************************************************************************)
EXTENDS ServiceRequest, TLAPS

-----------------------------------------------------------------------------
(* The pipeline.                                                           *)

Begun == {"validate", "count", "call", "judge", "decode"}

\* Where the regions of the answer are at every stage.
IInv ==
    /\ stage \in Begun => placed = {}
    /\ stage \in {"decode", "place", "render"} => Verdict(answer) = "none"
    /\ stage = "place" => pending \cup placed = Regions(answer)
    /\ stage = "render" => placed = Regions(answer)
    /\ Completed => placed = Regions(answer) /\ Verdict(answer) = "none"

(* A field with a box that was read has a region.                          *)
LEMMA BoxMeansRegion ==
  ASSUME NEW a, NEW f \in Reported(a), HasBox(a, f)
  PROVE  \E g \in Regions(a) : a.items[g.item].field = f
<1>1. PICK i \in DOMAIN a.items : a.items[i].field = f /\ Readable(a.items[i]) # {}
  BY DEF HasBox, Items
<1>2. PICK k \in Readable(a.items[i]) : TRUE
  BY <1>1
<1>3. i \in {n \in DOMAIN a.items : a.items[n].field # Unread}
  BY <1>1 DEF Reported
<1> DEFINE g == [item |-> i, box |-> k, place |-> a.items[i].boxes[k].place,
                 page |-> PageOf(a.items[i].boxes[k], a.items[i])]
<1>4. g \in Regions(a)
  BY <1>2, <1>3 DEF Regions
<1>5. QED
  BY <1>1, <1>4

(* An answer that is not refused has a region for every field under a rule. *)
LEMMA AcceptedIsLocated ==
  ASSUME NEW a, Verdict(a) = "none", NEW f \in Reported(a) \cap Supported
  PROVE  \E g \in Regions(a) : a.items[g.item].field = f
<1>1. FieldsMissingGeometry(a) = {}
  BY DEF Verdict
<1>2. HasBox(a, f)
  BY <1>1 DEF FieldsMissingGeometry
<1>3. QED
  BY <1>2, BoxMeansRegion

LEMMA ResultCode == ASSUME NEW code, ResultOf(code).code = "completed"
                    PROVE  code = "completed"
  BY DEF ResultOf

LEMMA StepInv == IInv /\ [Next]_vars => IInv'
<1> SUFFICES ASSUME IInv, [Next]_vars PROVE IInv'
  OBVIOUS
<1> USE DEF Begun
<1>1. ASSUME NEW code, code # "completed", End(code) PROVE IInv'
  <2>1. ~Completed'
    BY <1>1, ResultCode DEF End, Completed
  <2>2. QED
    BY <1>1, <2>1 DEF End, IInv
<1>2. ASSUME NEW to, Advance(to), to \in {"count", "call"}, stage \in Begun
      PROVE  IInv'
  BY <1>2 DEF Advance, IInv, Completed
<1>3. CASE Validate \/ CountPages
  BY <1>1, <1>2, <1>3 DEF Validate, CountPages
<1>4. CASE PrepareFails \/ CallFails
  BY <1>1, <1>4 DEF PrepareFails, CallFails
<1>5. CASE CallReturns(Answer)
  BY <1>5 DEF CallReturns, IInv, Completed
<1>6. CASE Judge
  <2>1. stage = "judge" /\ placed = {}
    BY <1>6 DEF Judge, IInv
  <2>2. CASE Verdict(answer) # "none"
    <3>1. End(Verdict(answer)) /\ Verdict(answer) # "completed"
      BY <1>6, <2>2 DEF Judge, Verdict
    <3>2. QED
      BY <1>1, <3>1
  <2>3. CASE Verdict(answer) = "none" /\ Regions(answer) = {}
    BY <1>6, <2>1, <2>3 DEF Judge, End, IInv, Completed
  <2>4. CASE Verdict(answer) = "none" /\ Regions(answer) # {}
    BY <1>6, <2>1, <2>4 DEF Judge, Advance, IInv, Completed
  <2>5. QED
    BY <2>2, <2>3, <2>4
<1>7. CASE Decode
  <2>1. CASE doc.fault = "broken"
    BY <1>1, <1>7, <2>1 DEF Decode
  <2>2. CASE doc.fault # "broken"
    BY <1>7, <2>2 DEF Decode, IInv, Completed
  <2>3. QED
    BY <2>1, <2>2
<1>8. ASSUME NEW g \in pending, Place(g) PROVE IInv'
  <2>1. CASE Placement(g) # "none"
    <3>1. End(Placement(g)) /\ Placement(g) # "completed"
      BY <1>8, <2>1 DEF Place, Placement
    <3>2. QED
      BY <1>1, <3>1
  <2>2. CASE Placement(g) = "none"
    BY <1>8, <2>2 DEF Place, IInv, Completed
  <2>3. QED
    BY <2>1, <2>2
<1>9. CASE AllPlaced
  BY <1>9 DEF AllPlaced, Advance, IInv, Completed
<1>10. CASE RenderFails \/ RenderChangesNothing
  BY <1>1, <1>10 DEF RenderFails, RenderChangesNothing
<1>11. CASE Render
  BY <1>11 DEF Render, End, IInv, Completed
<1>12. CASE UNCHANGED vars
  BY <1>12 DEF vars, IInv, Completed
<1>13. QED
  BY <1>3, <1>4, <1>5, <1>6, <1>7, <1>8, <1>9, <1>10, <1>11, <1>12
     DEF Next, NextWith

-----------------------------------------------------------------------------
(* Results.                                                                *)

\* Whatever the endpoint answers, however often and wherever it reports a
\* field, a document that is handed out as masked has every field under a
\* rule drawn over, and no readable box left out (process fails closed).
THEOREM FailsClosed == Spec => []EveryFieldCovered
<1>1. Init => IInv
  BY DEF Init, InitWith, IInv, Completed
<1>2. IInv => EveryFieldCovered
  <2> SUFFICES ASSUME IInv, Completed PROVE EveryFieldCovered
    BY DEF EveryFieldCovered
  <2>1. placed = Regions(answer) /\ Verdict(answer) = "none"
    BY DEF IInv
  <2>2. QED
    BY <2>1, AcceptedIsLocated DEF EveryFieldCovered
<1>3. QED
  BY <1>1, <1>2, StepInv, PTL DEF Spec

\* A document that comes back as completed and untouched is one the endpoint
\* reported nothing about (the checks of process before it draws).
THEOREM UntouchedIsClean == Spec => []UntouchedMeansNothingReported
<1>1. Init => IInv
  BY DEF Init, InitWith, IInv, Completed
<1>2. IInv => UntouchedMeansNothingReported
  <2> SUFFICES ASSUME IInv, Completed, placed = {}
               PROVE  Reported(answer) = {} /\ ~ContainsGeometry(answer)
    BY DEF UntouchedMeansNothingReported
  <2>1. Regions(answer) = {} /\ Verdict(answer) = "none"
    BY DEF IInv
  <2>2. QED
    BY <2>1 DEF Verdict
<1>3. QED
  BY <1>1, <1>2, StepInv, PTL DEF Spec

-----------------------------------------------------------------------------
(* Who is blamed, and what is never refused.                               *)

\* The upload and the answer are what they can be; there is no answer before
\* the call, and something to draw once drawing has begun.
CaseInv ==
    /\ doc \in Document /\ answer \in Answer
    /\ stage \in {"validate", "count", "call"} => answer = NoAnswer
    /\ stage \in {"decode", "place", "render"} => Regions(answer) # {}

BlameInv == IInv /\ CaseInv /\ BlameFits /\ UsableAnswerIsUsed

(* A region has a page number, and a field that was read.                  *)
LEMMA RegionStands ==
  ASSUME NEW a \in Answer, NEW g \in Regions(a)
  PROVE  g.page \in Nat /\ Reported(a) # {}
<1>1. PICK i \in {n \in DOMAIN a.items : a.items[n].field # Unread} :
        \E k \in Readable(a.items[i]) :
          g = [item |-> i, box |-> k, place |-> a.items[i].boxes[k].place,
               page |-> PageOf(a.items[i].boxes[k], a.items[i])]
  BY DEF Regions
<1>2. PICK k \in Readable(a.items[i]) :
        g.page = PageOf(a.items[i].boxes[k], a.items[i])
  BY <1>1
<1>3. a.items[i] \in Item
  BY <1>1 DEF Answer
<1>4. a.items[i].boxes[k] \in Box
  BY <1>2, <1>3 DEF Readable, Item
<1>5. g.page \in Nat
  BY <1>2, <1>3, <1>4, PipelineAssumption DEF PageOf, Box, Item
<1>6. a.items[i].field \in Reported(a)
  BY <1>1 DEF Reported, Items
<1>7. QED
  BY <1>5, <1>6

(* A usable answer passes every check of process.                          *)
LEMMA UsablePasses ==
  ASSUME doc \in Document, answer \in Answer,
         doc.fault = "none", answer.shape = "known", Regions(answer) # {},
         \A f \in Reported(answer) \cap Supported : HasBox(answer, f),
         \A g \in Regions(answer) : g.place = "on" /\ g.page <= doc.pages
  PROVE  /\ Verdict(answer) = "none"
         /\ \A g \in Regions(answer) : Placement(g) = "none"
<1>1. Reported(answer) # {}
  BY RegionStands
<1>2. FieldsMissingGeometry(answer) = {}
  BY DEF FieldsMissingGeometry
<1>3. ASSUME NEW g \in Regions(answer) PROVE Placement(g) = "none"
  <2>1. g.page \in Nat /\ doc.pages \in Nat
    BY RegionStands, PipelineAssumption DEF Document, Page
  <2>2. QED
    BY <1>3, <2>1 DEF Placement
<1>4. QED
  BY <1>1, <1>2, <1>3 DEF Verdict

(* A request that ends puts the blame where it belongs if its code does.   *)
LEMMA EndsRightly ==
  ASSUME BlameInv, stage # "done", NEW code, End(code),
         code = "processing_failed" =>
            \/ doc.fault # "none" \/ doc.type = "other"
            \/ placed = Regions(answer) /\ placed # {},
         code = "masking_failed" =>
            \/ Verdict(answer) = "masking_failed"
            \/ \E g \in Regions(answer) : g.place = "off" \/ g.page > doc.pages
            \/ placed = Regions(answer),
         \/ doc.fault # "none" \/ doc.type = "other"
         \/ answer = NoAnswer \/ Regions(answer) = {}
         \/ Verdict(answer) # "none"
         \/ \E g \in Regions(answer) : Placement(g) # "none"
         \/ placed = Regions(answer)
  PROVE  CaseInv' /\ BlameFits' /\ UsableAnswerIsUsed'
<1>1. stage' = "done" /\ result' = ResultOf(code)
      /\ UNCHANGED <<doc, answer, pending, placed>>
  BY DEF End
<1>2. CaseInv'
  BY <1>1 DEF BlameInv, CaseInv
<1>3. BlameFits'
  <2>1. /\ ResultOf(code).http = 400
              => code = "processing_failed" /\ ~ResultOf(code).retryable
        /\ ResultOf(code).retryable
              => \/ code = "masking_failed"
                 \/ ResultOf(code).code = "upstream_transient"
    BY DEF ResultOf
  <2>2. QED
    BY <1>1, <2>1 DEF BlameFits
<1>4. UsableAnswerIsUsed'
  <2> SUFFICES ASSUME doc.fault = "none", doc.type # "other",
                      answer.shape = "known", Regions(answer) # {},
                      \A f \in Reported(answer) \cap Supported : HasBox(answer, f),
                      \A g \in Regions(answer) :
                         g.place = "on" /\ g.page <= doc.pages
               PROVE  placed = Regions(answer)
    BY <1>1 DEF UsableAnswerIsUsed
  <2>1. /\ Verdict(answer) = "none"
        /\ \A g \in Regions(answer) : Placement(g) = "none"
    BY UsablePasses DEF BlameInv, CaseInv
  <2>2. answer # NoAnswer
    BY DEF NoAnswer
  <2>3. QED
    BY <2>1, <2>2
<1>5. QED
  BY <1>2, <1>3, <1>4

(* A step that does not end the request says nothing to the client.        *)
LEMMA GoesOn ==
  ASSUME BlameInv, stage' # "done", doc' = doc, answer' \in Answer,
         stage' \in {"validate", "count", "call"} => answer' = NoAnswer,
         stage' \in {"decode", "place", "render"} => Regions(answer)' # {}
  PROVE  CaseInv' /\ BlameFits' /\ UsableAnswerIsUsed'
  BY DEF BlameInv, CaseInv, BlameFits, UsableAnswerIsUsed

LEMMA BlameStep == BlameInv /\ [Next]_vars => BlameInv'
<1> SUFFICES ASSUME BlameInv, [Next]_vars
             PROVE  CaseInv' /\ BlameFits' /\ UsableAnswerIsUsed'
  BY StepInv DEF BlameInv
<1>1. CaseInv /\ IInv
  BY DEF BlameInv
<1>2. CASE Validate
  <2>1. CASE doc.fault \in {"empty", "too_large", "header"} \/ doc.type = "other"
    BY <1>2, <2>1, EndsRightly DEF Validate
  <2>2. CASE ~(doc.fault \in {"empty", "too_large", "header"} \/ doc.type = "other")
    BY <1>1, <1>2, <2>2, GoesOn DEF Validate, Advance, CaseInv
  <2>3. QED
    BY <2>1, <2>2
<1>3. CASE CountPages
  <2>1. CASE doc.type = "pdf" /\ doc.fault \in {"broken", "too_many_pages"}
    BY <1>3, <2>1, EndsRightly DEF CountPages
  <2>2. CASE ~(doc.type = "pdf" /\ doc.fault \in {"broken", "too_many_pages"})
    BY <1>1, <1>3, <2>2, GoesOn DEF CountPages, Advance, CaseInv
  <2>3. QED
    BY <2>1, <2>2
<1>4. CASE PrepareFails \/ CallFails
  BY <1>1, <1>4, EndsRightly DEF PrepareFails, CallFails, CaseInv
<1>5. CASE CallReturns(Answer)
  BY <1>5, GoesOn DEF CallReturns
<1>6. CASE Judge
  <2>1. CASE Verdict(answer) # "none"
    <3>1. stage = "judge" /\ End(Verdict(answer))
          /\ Verdict(answer) # "processing_failed"
      BY <1>6, <2>1 DEF Judge, Verdict
    <3>2. QED
      BY <2>1, <3>1, EndsRightly
  <2>2. CASE Verdict(answer) = "none" /\ Regions(answer) = {}
    BY <1>6, <2>2, EndsRightly DEF Judge
  <2>3. CASE Verdict(answer) = "none" /\ Regions(answer) # {}
    BY <1>1, <1>6, <2>3, GoesOn DEF Judge, Advance, CaseInv
  <2>4. QED
    BY <2>1, <2>2, <2>3
<1>7. CASE Decode
  <2>1. CASE doc.fault = "broken"
    BY <1>7, <2>1, EndsRightly DEF Decode
  <2>2. CASE doc.fault # "broken"
    BY <1>1, <1>7, <2>2, GoesOn DEF Decode, CaseInv
  <2>3. QED
    BY <2>1, <2>2
<1>8. ASSUME NEW g \in pending, Place(g)
      PROVE  CaseInv' /\ BlameFits' /\ UsableAnswerIsUsed'
  <2>1. stage = "place" /\ g \in Regions(answer)
    BY <1>1, <1>8 DEF Place, IInv
  <2>2. CASE Placement(g) # "none"
    <3>1. /\ Placement(g) = "processing_failed" => doc.fault # "none"
          /\ Placement(g) = "masking_failed"
                => g.place = "off" \/ g.page > doc.pages
          /\ Placement(g) \in {"processing_failed", "masking_failed"}
      BY <2>2 DEF Placement
    <3>2. End(Placement(g))
      BY <1>8, <2>2 DEF Place
    <3>3. QED
      BY <2>1, <2>2, <3>1, <3>2, EndsRightly
  <2>3. CASE Placement(g) = "none"
    BY <1>1, <1>8, <2>1, <2>3, GoesOn DEF Place, CaseInv
  <2>4. QED
    BY <2>2, <2>3
<1>9. CASE AllPlaced
  BY <1>1, <1>9, GoesOn DEF AllPlaced, Advance, CaseInv
<1>10. CASE RenderFails \/ RenderChangesNothing \/ Render
  <2>1. stage = "render" /\ placed = Regions(answer) /\ placed # {}
    BY <1>1, <1>10
       DEF RenderFails, RenderChangesNothing, Render, IInv, CaseInv
  <2>2. QED
    BY <1>10, <2>1, EndsRightly DEF RenderFails, RenderChangesNothing, Render
<1>11. CASE UNCHANGED vars
  BY <1>1, <1>11
     DEF vars, BlameInv, CaseInv, BlameFits, UsableAnswerIsUsed, HasBox,
         Reported, Items, Regions, Readable, PageOf
<1>12. QED
  BY <1>2, <1>3, <1>4, <1>5, <1>6, <1>7, <1>8, <1>9, <1>10, <1>11
     DEF Next, NextWith

LEMMA BlameBegins == Init => BlameInv
<1> SUFFICES ASSUME Init PROVE BlameInv
  OBVIOUS
<1>1. /\ stage = "validate" /\ placed = {} /\ answer = NoAnswer
      /\ doc \in Document
  BY DEF Init, InitWith
<1>2. NoAnswer \in Answer
  BY DEF NoAnswer, Answer, Shape
<1>3. QED
  BY <1>1, <1>2
     DEF BlameInv, IInv, CaseInv, BlameFits, UsableAnswerIsUsed, Completed,
         Begun

\* The client is told to mend or to keep its upload only when the upload is
\* at fault, and to try again only when the answer was (mapError).
THEOREM BlameIsRight == Spec => []BlameFits
<1>1. BlameInv => BlameFits
  BY DEF BlameInv
<1>2. QED
  BY <1>1, BlameBegins, BlameStep, PTL DEF Spec

\* An answer that locates every field under a rule on the page it names is
\* never refused for a sound upload, however many elements without boxes or
\* rules there are beside them (the checks of process).
THEOREM UsableIsNotRefused == Spec => []UsableAnswerIsUsed
<1>1. BlameInv => UsableAnswerIsUsed
  BY DEF BlameInv
<1>2. QED
  BY <1>1, BlameBegins, BlameStep, PTL DEF Spec

-----------------------------------------------------------------------------
(* Refinement.  While the client is at work the pipeline waits for it.     *)

CallInv ==
    purpose = "parse" /\ phase # "idle" =>
        stage = "call" /\ ~(doc.type = "jpeg" /\ doc.fault = "broken")

LEMMA CallStepsKeep ==
  ASSUME NEW responses, CallStep(responses)
  PROVE  phase # "idle" /\ UNCHANGED <<conf, purpose>>
<1>1. CASE CheckHost
  BY <1>1 DEF CheckHost, EndCall
<1>2. CASE Send
  BY <1>2 DEF Send
<1>3. CASE TransportFails
  BY <1>3 DEF TransportFails, EndCall
<1>4. ASSUME NEW kept, NEW t, Redirect(kept, t)
      PROVE  phase # "idle" /\ UNCHANGED <<conf, purpose>>
  BY <1>4 DEF Redirect, EndCall
<1>5. ASSUME NEW r, Answered(r)
      PROVE  phase # "idle" /\ UNCHANGED <<conf, purpose>>
  BY <1>5 DEF Answered
<1>6. QED
  BY <1>1, <1>2, <1>3, <1>4, <1>5 DEF CallStep

LEMMA CallInvKept == CallInv /\ [RequestNext]_requestVars => CallInv'
<1> SUFFICES ASSUME CallInv, [RequestNext]_requestVars PROVE CallInv'
  OBVIOUS
<1>1. CASE AroundCall
  <2>1. CASE phase = "idle"
    BY <1>1, <2>1 DEF AroundCall, callVars, CallInv
  <2>2. CASE phase # "idle"
    <3>1. purpose = "parse"
      BY <1>1 DEF AroundCall
    <3>2. stage = "call" /\ ~(doc.type = "jpeg" /\ doc.fault = "broken")
      BY <2>2, <3>1 DEF CallInv
    <3>3. FALSE
      BY <1>1, <3>2 DEF AroundCall, Validate, CountPages, PrepareFails, Judge,
         Decode, Place, AllPlaced, RenderFails, RenderChangesNothing, Render
    <3>4. QED
      BY <3>3
  <2>3. QED
    BY <2>1, <2>2
<1>2. CASE CallBegins
  BY <1>2 DEF CallBegins, BeginCall, GoTo, vars, CallInv
<1>3. CASE CallGoesOn(Response)
  BY <1>3, CallStepsKeep DEF CallGoesOn, vars, CallInv
<1>4. CASE CallEnds(Answer)
  BY <1>4 DEF CallEnds, Reset, CallInv
<1>5. CASE UNCHANGED requestVars
  BY <1>5 DEF requestVars, vars, callVars, CallInv
<1>6. QED
  BY <1>1, <1>2, <1>3, <1>4, <1>5 DEF RequestNext, RequestNextWith

LEMMA StepImplements == CallInv /\ [RequestNext]_requestVars => [Next]_vars
<1> SUFFICES ASSUME CallInv, [RequestNext]_requestVars PROVE [Next]_vars
  OBVIOUS
<1>1. CASE AroundCall
  BY <1>1 DEF AroundCall, Next, NextWith
<1>2. CASE CallBegins \/ CallGoesOn(Response)
  BY <1>2 DEF CallBegins, CallGoesOn
<1>3. CASE CallEnds(Answer)
  <2>1. CASE outcome.code = "ok" /\ CallReturns(Answer)
    BY <2>1 DEF Next, NextWith
  <2>2. CASE End(IF outcome.retryable THEN "upstream_transient" ELSE "upstream_final")
    <3>1. stage = "call" /\ ~(doc.type = "jpeg" /\ doc.fault = "broken")
      BY <1>3 DEF CallEnds, CallInv
    <3>2. CallFails
      BY <2>2, <3>1 DEF CallFails
    <3>3. QED
      BY <3>2 DEF Next, NextWith
  <2>3. QED
    BY <1>3, <2>1, <2>2 DEF CallEnds
<1>4. CASE UNCHANGED requestVars
  BY <1>4 DEF requestVars
<1>5. QED
  BY <1>1, <1>2, <1>3, <1>4 DEF RequestNext, RequestNextWith

LEMMA InitImplements == RequestInit => Init /\ CallInv
  BY DEF RequestInit, InitRequest, Init, Idle, CallInv

\* For any configuration, answers and chain, a request whose call is taken
\* step by step does nothing the pipeline with a call in one step does not.
THEOREM ComposedImplementsPipeline == RequestSpec => ImplementsPipeline
<1>1. RequestSpec => Init /\ []CallInv
  BY InitImplements, CallInvKept, PTL DEF RequestSpec
<1>2. QED
  BY <1>1, StepImplements, PTL DEF RequestSpec, ImplementsPipeline, Spec

\* So what is proved of the pipeline holds of the composition as well: it
\* fails closed whatever happens on the wire.
THEOREM ComposedFailsClosed == RequestSpec => []EveryFieldCovered
  BY ComposedImplementsPipeline, FailsClosed, PTL DEF ImplementsPipeline

-----------------------------------------------------------------------------
(* The chain.                                                              *)

\* Where the call stands, and that it got there with the list's consent.
ChainInv ==
    /\ conf \in Configuration /\ here \in Target /\ hops \in Nat
    /\ phase \in {"idle", "check"} => hops = 0 /\ here = conf.base
    /\ phase \in {"send", "await"} \/ hops > 0 =>
          /\ HostAllowed(here, conf)
          /\ conf.base.scheme = "https" => here.scheme = "https"

LEMMA ChainInvInit == RequestInit => ChainInv
<1> SUFFICES ASSUME RequestInit PROVE ChainInv
  OBVIOUS
<1>1. PICK c \in Configuration, p \in {"parse", "test"} : Idle(c, p)
  BY DEF RequestInit, InitRequest
<1>2. c.base \in Target
  BY DEF Configuration
<1>3. QED
  BY <1>1, <1>2 DEF Idle, ChainInv

LEMMA ChainInvKept == ChainInv /\ [RequestNext]_requestVars => ChainInv'
<1> SUFFICES ASSUME ChainInv, [RequestNext]_requestVars PROVE ChainInv'
  OBVIOUS
<1>1. CASE AroundCall
  BY <1>1 DEF AroundCall, callVars, ChainInv, HostAllowed, Allowed
<1>2. CASE CallBegins
  <2>1. phase = "idle" /\ phase' = "check" /\ UNCHANGED <<conf, hops, here>>
    BY <1>2 DEF CallBegins, BeginCall, GoTo
  <2>2. hops = 0
    BY <2>1 DEF ChainInv
  <2>3. QED
    BY <2>1, <2>2 DEF ChainInv
<1>3. CASE CallEnds(Answer)
  <2>1. phase' = "idle" /\ hops' = 0 /\ here' = conf.base /\ conf' = conf
    BY <1>3 DEF CallEnds, Reset
  <2>2. conf.base \in Target
    BY DEF ChainInv, Configuration
  <2>3. QED
    BY <2>1, <2>2 DEF ChainInv
<1>4. CASE UNCHANGED requestVars
  BY <1>4 DEF requestVars, callVars, ChainInv, HostAllowed, Allowed
<1>5. CASE CheckHost
  <2>1. phase = "check" /\ hops = 0 /\ here = conf.base
    BY <1>5 DEF CheckHost, ChainInv
  <2>2. UNCHANGED <<conf, hops, here>>
    BY <1>5 DEF CheckHost, EndCall
  <2>3. (phase' = "send" /\ HostAllowed(here, conf)) \/ phase' = "done"
    BY <1>5 DEF CheckHost, EndCall
  <2>4. QED
    BY <2>1, <2>2, <2>3 DEF ChainInv
<1>6. CASE Send
  <2>1. phase = "send" /\ phase' = "await" /\ UNCHANGED <<conf, here>>
    BY <1>6 DEF Send
  <2>2. hops' \in Nat
    BY <1>6 DEF Send, ChainInv
  <2>3. QED
    BY <2>1, <2>2 DEF ChainInv
<1>7. CASE TransportFails
  BY <1>7 DEF TransportFails, EndCall, ChainInv, HostAllowed, Allowed
<1>8. ASSUME NEW kept \in BOOLEAN, NEW t \in Target, Redirect(kept, t)
      PROVE  ChainInv'
  <2>1. CASE Refusal(t) # "none"
    BY <1>8, <2>1 DEF Redirect, EndCall, ChainInv, HostAllowed, Allowed
  <2>2. CASE Refusal(t) = "none"
    <3>1. HostAllowed(t, conf) /\ (conf.base.scheme = "https" => t.scheme = "https")
      BY <2>2 DEF Refusal
    <3>2. phase' = "send" /\ here' = t /\ UNCHANGED <<conf, hops>>
      BY <1>8, <2>2 DEF Redirect
    <3>3. QED
      BY <3>1, <3>2 DEF ChainInv
  <2>3. QED
    BY <2>1, <2>2
<1>9. ASSUME NEW r \in Response, Answered(r) PROVE ChainInv'
  BY <1>9 DEF Answered, ChainInv, HostAllowed, Allowed
<1>10. QED
  BY <1>1, <1>2, <1>3, <1>4, <1>5, <1>6, <1>7, <1>8, <1>9
     DEF RequestNext, RequestNextWith, CallGoesOn, CallStep

LEMMA ChainAlways == RequestSpec => []ChainInv
  BY ChainInvInit, ChainInvKept, PTL DEF RequestSpec

\* For any hosts, ports, allow list, redirects and caps, no request of a
\* chain leaves the hosts and ports the configuration allows.
THEOREM ChainStaysOnTheList == RequestSpec => []AllowedHostsOnly
<1>1. ChainInv => AllowedHostsOnly
  <2> SUFFICES ASSUME ChainInv, hops > 0 PROVE AllowedHostsOnly
    BY DEF AllowedHostsOnly
  <2>1. HostAllowed(here, conf)
    BY DEF ChainInv
  <2>2. PICK n \in Ports \cup {NoPort} :
           /\ [host |-> here.host, port |-> n] \in Allowed(conf)
           /\ n = NoPort \/ n = here.port
    BY <2>1 DEF HostAllowed, ChainInv, Target
  <2>3. CASE conf.entries = {}
    <3>1. [host |-> here.host, port |-> n] = [host |-> conf.base.host, port |-> NoPort]
      BY <2>2, <2>3 DEF Allowed
    <3>2. here.host = conf.base.host
      BY <3>1
    <3>3. QED
      BY <2>3, <3>2 DEF AllowedHostsOnly
  <2>4. CASE conf.entries # {}
    <3>1. [host |-> here.host, port |-> n] \in conf.entries
      BY <2>2, <2>4 DEF Allowed
    <3>2. QED
      BY <2>2, <3>1 DEF AllowedHostsOnly
  <2>5. QED
    BY <2>3, <2>4
<1>2. QED
  BY <1>1, ChainAlways, PTL

\* A chain that began on https stays on it, however many redirects follow.
THEOREM ChainStaysEncrypted == RequestSpec => []NeverInTheClear
<1>1. ChainInv => NeverInTheClear
  BY DEF ChainInv, NeverInTheClear
<1>2. QED
  BY <1>1, ChainAlways, PTL

-----------------------------------------------------------------------------
(* The answer.                                                             *)

\* An outcome that follows a readable body is the one that body deserves.
AnswerInv ==
    /\ phase # "done" => got = NoResponse
    /\ got \in Response
    /\ phase = "done" /\ purpose = "parse" /\ got.readable =>
          outcome = ParseOutcome(got)

LEMMA NothingRead == NoResponse \in Response /\ ~NoResponse.readable
  BY ClientAssumption DEF NoResponse, Response, Status

LEMMA AnswerInvInit == RequestInit => AnswerInv
  BY NothingRead DEF RequestInit, InitRequest, Idle, AnswerInv

LEMMA AnswerInvKept == AnswerInv /\ [RequestNext]_requestVars => AnswerInv'
<1> SUFFICES ASSUME AnswerInv, [RequestNext]_requestVars PROVE AnswerInv'
  OBVIOUS
<1>1. CASE AroundCall \/ UNCHANGED requestVars
  <2>1. UNCHANGED callVars
    BY <1>1 DEF AroundCall, requestVars
  <2>2. QED
    BY <2>1 DEF callVars, AnswerInv, ParseOutcome, Decodes, BytesRead
<1>2. CASE CallBegins
  BY <1>2, NothingRead DEF CallBegins, BeginCall, GoTo, AnswerInv
<1>3. CASE CallEnds(Answer)
  BY <1>3, NothingRead DEF CallEnds, Reset, AnswerInv
<1>4. CASE CallGoesOn(Response)
  <2>1. CASE \E r \in Response : Answered(r)
    <3>1. PICK r \in Response : Answered(r)
      BY <2>1
    <3>2. phase' = "done" /\ got' = r /\ purpose' = purpose
          /\ (purpose = "parse" => outcome' = ParseOutcome(r))
      BY <3>1 DEF Answered
    <3>3. QED
      BY <3>2 DEF AnswerInv, ParseOutcome, Decodes, BytesRead
  <2>2. CASE ~\E r \in Response : Answered(r)
    <3>1. phase # "done" /\ UNCHANGED got
      BY <1>4, <2>2 DEF CallGoesOn, CallStep, CheckHost, Send, TransportFails,
         Redirect, EndCall
    <3>2. got' = NoResponse
      BY <3>1 DEF AnswerInv
    <3>3. QED
      BY <3>2, NothingRead DEF AnswerInv
  <2>3. QED
    BY <2>1, <2>2
<1>5. QED
  BY <1>1, <1>2, <1>3, <1>4 DEF RequestNext, RequestNextWith

\* For any cap, a body past it is never taken for an answer or for a
\* malformed one, and no other body is refused as too large.
THEOREM NothingCutShortIsUsed == RequestSpec => []CutShortIsNamed
<1>1. AnswerInv => CutShortIsNamed
  <2> SUFFICES ASSUME AnswerInv, phase = "done", purpose = "parse", got.readable
      PROVE  /\ outcome.code \in {"ok", "decode_failed"} => got.size <= MaxBody
             /\ outcome.code = "response_too_large" =>
                   got.size > MaxBody /\ got.status < 400
    BY DEF CutShortIsNamed
  <2>1. outcome = ParseOutcome(got) /\ got.size \in Nat /\ got.status \in Nat
        /\ MaxBody \in Nat
    BY ClientAssumption DEF AnswerInv, Response, Status
  <2>2. CASE got.status >= 400
    <3>1. outcome = ClassifyHTTPError(got.status)
      BY <2>1, <2>2 DEF ParseOutcome
    <3>2. outcome.code \notin {"ok", "decode_failed", "response_too_large"}
      BY <3>1, <2>1 DEF ClassifyHTTPError, Error
    <3>3. QED
      BY <3>2
  <2>3. CASE got.status < 400 /\ got.size > MaxBody
    <3>1. BytesRead(got) > MaxBody /\ ~(got.status >= 400)
      BY <2>1, <2>3 DEF BytesRead
    <3>2. outcome = Error("response_too_large", FALSE)
      BY <2>1, <3>1, Zenon DEF ParseOutcome
    <3>3. QED
      BY <2>3, <3>2 DEF Error
  <2>4. CASE got.status < 400 /\ got.size <= MaxBody
    <3>1. ~(BytesRead(got) > MaxBody) /\ ~(got.status >= 400)
      BY <2>1, <2>4 DEF BytesRead
    <3>2. outcome \in {Error("decode_failed", FALSE), Success}
      BY <2>1, <3>1, Zenon DEF ParseOutcome
    <3>3. QED
      BY <2>4, <3>2 DEF Error, Success
  <2>5. QED
    BY <2>1, <2>2, <2>3, <2>4
<1>2. QED
  BY <1>1, AnswerInvInit, AnswerInvKept, PTL DEF RequestSpec

=============================================================================
