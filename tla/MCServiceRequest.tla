-------------------------- MODULE MCServiceRequest --------------------------
(***************************************************************************)
(* Small instances of ServiceRequest.  An answer has at most MaxItems      *)
(* elements and MaxBoxes boxes between them.                               *)
(*                                                                         *)
(* The pipeline does not read the client's variables, nor the client the   *)
(* document, so uploads and answers are enumerated under one configuration *)
(* and for one way to get the answer, and configurations and chains for    *)
(* one upload.                                                             *)
(***************************************************************************)
EXTENDS ServiceRequest, SequencesExt

CONSTANTS ssn, note, ours, theirs, MaxItems, MaxBoxes

BothFields == {ssn, note}
OnlySsn == {ssn}
TwoHosts == {ours, theirs}
OnePort == {8080}

SmallItem(n) ==
    UNION {{item \in [field : Fields \cup {Unread}, located : BOOLEAN,
                      boxes : [1 .. k -> Box], page : {0, MaxPages}] :
               k > 0 => item.located} : k \in 0 .. n}

SmallItems ==
    {<<>>} \cup {<<x>> : x \in SmallItem(MaxBoxes)} \cup
    (IF MaxItems < 2 THEN {} ELSE
     UNION {{<<x, y>> : x \in SmallItem(k), y \in SmallItem(MaxBoxes - k)}
               : k \in 0 .. MaxBoxes})

SmallAnswer ==
    {NoAnswer} \cup [shape : {"known", "unknown"}, items : SmallItems]

Plain == [status |-> 200, size |-> 1, readable |-> TRUE, json |-> TRUE]
Sample == [type |-> "pdf", fault |-> "none", pages |-> 1]

Usual ==
    [base |-> [scheme |-> "https", host |-> ours, port |-> NoPort],
     entries |-> {}, auth |-> "bearer"]

\* The configured host is ours: the two are interchangeable.
SmallConfigurations == {c \in Configuration : c.base.host = ours}

MCInit ==
    \/ InitRequest(Document, {Usual}, {"parse"})
    \/ InitRequest({Sample}, SmallConfigurations, {"parse", "test"})

MCNext ==
    RequestNextWith(
        IF conf = Usual /\ hops = 1 /\ got = Plain THEN SmallAnswer ELSE {NoAnswer},
        IF conf = Usual THEN Response ELSE {Plain})

MCSpec == MCInit /\ [][MCNext]_requestVars

=============================================================================
