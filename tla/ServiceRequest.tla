--------------------------- MODULE ServiceRequest ---------------------------
(***************************************************************************)
(* One request that ends in a call to the inference endpoint: a document   *)
(* to be masked (POST /v1/mask, or the goroutine of a job), or a test of   *)
(* the connection (POST /v1/test-connection).  MaskPipeline composed with  *)
(* UpstreamClient: what the pipeline takes for one step, the call failing  *)
(* or returning, is here the client's redirect chain and its errors.       *)
(***************************************************************************)
EXTENDS MaskPipeline, UpstreamClient

requestVars == <<vars, callVars>>

InitRequest(documents, confs, purposes) ==
    /\ InitWith(documents)
    /\ \E c \in confs, p \in purposes : Idle(c, p)

RequestInit == InitRequest(Document, Configuration, {"parse", "test"})

\* Wrong on purpose: an image that cannot be converted is sent as it is.
CallBeginsUnprepared ==
    /\ purpose = "parse" => stage = "call"
    /\ BeginCall
    /\ UNCHANGED vars

\* ParseDocument, once the upload has been prepared, or TestConnection.
CallBegins ==
    /\ purpose = "parse" =>
          /\ stage = "call"
          /\ ~(doc.type = "jpeg" /\ doc.fault = "broken")
    /\ BeginCall
    /\ UNCHANGED vars

CallGoesOn(responses) == CallStep(responses) /\ UNCHANGED vars

\* Back in process: the client's variables were the call's own.
CallEnds(answers) ==
    /\ purpose = "parse"
    /\ phase = "done"
    /\ \/ outcome.code = "ok" /\ CallReturns(answers)
       \/ /\ outcome.code # "ok"
          /\ End(IF outcome.retryable THEN "upstream_transient" ELSE "upstream_final")
    /\ Reset

\* The rest of the pipeline, on either side of the call.
AroundCall ==
    /\ purpose = "parse"
    /\ \/ Validate \/ CountPages \/ PrepareFails
       \/ Judge \/ Decode
       \/ \E g \in pending : Place(g)
       \/ AllPlaced
       \/ RenderFails \/ RenderChangesNothing \/ Render
    /\ UNCHANGED callVars

RequestNextWith(answers, responses) ==
    \/ AroundCall \/ CallBegins \/ CallGoesOn(responses) \/ CallEnds(answers)

RequestNext == RequestNextWith(Answer, Response)

RequestSpec == RequestInit /\ [][RequestNext]_requestVars

-----------------------------------------------------------------------------
(* Properties.                                                             *)

\* Seen from the pipeline the redirect chain and its errors are one step: a
\* call that fails in any way ends the request with an upstream error, and
\* only a whole answer that was read is judged (process, ParseDocument).
ImplementsPipeline == Spec

=============================================================================
