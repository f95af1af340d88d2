------------------------------- MODULE Intake -------------------------------
(***************************************************************************)
(* The way of an upload into the service: the limits, from the             *)
(* environment, in 64-bit arithmetic; the body that is read under one of   *)
(* them and the file in it that is read under another; the type it is      *)
(* given; and the checks, which an accepted job meets again when its       *)
(* goroutine reads the document back from disk.                            *)
(*                                                                         *)
(* A document is its size and what its content looks like; a MIME type is  *)
(* one of a few classes.                                                   *)
(***************************************************************************)
EXTENDS Integers

CONSTANTS
    MaxInt,         \* math.MaxInt64
    Mebibyte,       \* bytes
    Unit,           \* nanoseconds in the unit of a duration
    Headroom,       \* uploadBodyHeadroomBytes
    DefaultSize,    \* defaultMaxFileSizeMB
    DefaultPages,   \* defaultMaxPages
    DefaultTime     \* the default of a duration, in its unit

ASSUME IntakeAssumption ==
    /\ {MaxInt, Mebibyte, Unit, Headroom, DefaultSize, DefaultPages, DefaultTime}
          \subseteq Nat \ {0}
    /\ Headroom < Mebibyte
    /\ \E k \in 0 .. MaxInt + 1 : MaxInt + 1 = k * Mebibyte
    /\ DefaultSize * Mebibyte <= MaxInt /\ DefaultTime * Unit <= MaxInt

VARIABLES
    env,        \* what the environment asks for
    limits,     \* what is in force
    upload,     \* the document a client sends
    stage,      \* where it is
    file        \* the Attachment made of it

vars == <<env, limits, upload, stage, file>>

\* Any number that does not parse, and no number at all.
NoNumber == MaxInt + 1

\* "alias" is image/jpg or image/pjpeg, "pdf_param" a PDF with parameters,
\* "none" no type, "other" any type that is not supported.
MIME == {"none", "octet", "pdf", "pdf_param", "png", "jpeg", "alias", "other"}
Supported == {"pdf", "png", "jpeg"}

Environment == [size : Int, pages : Int, retention : Int, timeout : Int]

Upload == [size : Nat, framing : Nat, form : {"good", "broken", "no_file"},
           declared : MIME, sniffed : MIME \ {"none"}, extension : MIME,
           fault : {"none", "unreadable", "dimensions"}, pages : Nat]

NoUpload == [size |-> 0, framing |-> 0, form |-> "no_file", declared |-> "none",
             sniffed |-> "octet", extension |-> "none", fault |-> "none",
             pages |-> 0]

NoFile == [size |-> 0, type |-> "none"]

Refused == {"too_large", "bad_request"}

-----------------------------------------------------------------------------
(* The environment, read once at the start.                                *)

\* What the machine makes of a number.
Wrap(n) == ((n + MaxInt + 1) % (2 * (MaxInt + 1))) - (MaxInt + 1)

Parses(asked) == -MaxInt - 1 <= asked /\ asked <= MaxInt

\* Wrong on purpose: the product is checked instead of the factor.
EnvDurationAfterwards(asked, allowZero) ==
    IF ~Parses(asked) \/ Wrap(asked * Unit) < 0 \/ (~allowZero /\ asked = 0)
      THEN DefaultTime * Unit
      ELSE Wrap(asked * Unit)

EnvDuration(asked, allowZero) ==
    IF \/ ~Parses(asked) \/ asked < 0
       \/ ~allowZero /\ asked = 0
       \/ asked > MaxInt \div Unit
      THEN DefaultTime * Unit
      ELSE Wrap(asked * Unit)

EnvMebibytes(asked) ==
    IF ~Parses(asked) \/ asked <= 0 \/ asked > MaxInt \div Mebibyte
      THEN DefaultSize * Mebibyte
      ELSE Wrap(asked * Mebibyte)

\* 0 switches the limit off.
EnvNonNegativeInt(asked) ==
    IF ~Parses(asked) \/ asked < 0 THEN DefaultPages ELSE asked

Load ==
    /\ stage = "start"
    /\ limits' = [size |-> EnvMebibytes(env.size),
                  pages |-> EnvNonNegativeInt(env.pages),
                  retention |-> EnvDuration(env.retention, TRUE),
                  timeout |-> EnvDuration(env.timeout, FALSE)]
    /\ stage' = "serving"
    /\ UNCHANGED <<env, upload, file>>

-----------------------------------------------------------------------------
(* The type of an attachment.                                              *)

NormalizeMIMEType(type) ==
    CASE type = "alias" -> "jpeg" [] type = "pdf_param" -> "pdf" [] OTHER -> type

\* What the client declares, else what the content looks like, else what the
\* name says.
DetectAttachmentMIMEType(declared, size) ==
    IF declared \notin {"none", "octet"} THEN NormalizeMIMEType(declared)
    ELSE IF size > 0 /\ upload.sniffed # "octet" THEN NormalizeMIMEType(upload.sniffed)
    ELSE IF upload.extension # "none" THEN NormalizeMIMEType(upload.extension)
    ELSE "octet"

NewAttachment(declared, size) ==
    [size |-> size, type |-> DetectAttachmentMIMEType(declared, size)]

-----------------------------------------------------------------------------
(* One upload.                                                             *)

GoTo(s) == stage' = s /\ UNCHANGED <<env, limits, upload, file>>

Arrive(u) ==
    /\ stage = "serving"
    /\ stage' = "body"
    /\ upload' = u
    /\ UNCHANGED <<env, limits, file>>

\* Wrong on purpose: framing and fields count against the document.
BodyLimitExact == limits.size

BodyLimit == Wrap(limits.size + Headroom)

\* MaxBytesReader and ParseMultipartForm.  What is wrong with the form may be
\* met before the limit is, or after.
ReadBody ==
    /\ stage = "body"
    /\ \/ upload.size + upload.framing > BodyLimit /\ GoTo("too_large")
       \/ upload.form # "good" /\ GoTo("bad_request")
       \/ /\ upload.size + upload.framing <= BodyLimit /\ upload.form = "good"
          /\ GoTo("file")

\* Wrong on purpose: a file that is too large is cut to fit.
FileLimitExact == limits.size

\* One byte more than the limit tells a file that is too large.
FileLimit == Wrap(limits.size + 1)

ReadFile ==
    /\ stage = "file"
    /\ file' = NewAttachment(upload.declared,
                             IF upload.size > FileLimit THEN FileLimit ELSE upload.size)
    /\ stage' = "check"
    /\ UNCHANGED <<env, limits, upload>>

Valid ==
    /\ file.size # 0 /\ file.size <= limits.size
    /\ file.type \in Supported
    /\ file.type \in {"png", "jpeg"} => upload.fault = "none"

CountPages ==
    file.type = "pdf" =>
        /\ upload.fault # "unreadable"
        /\ limits.pages > 0 => upload.pages <= limits.pages

\* validateAttachment and countPages, in CreateJob and at the head of process.
\* An image that is labelled a PDF is met by the reader of PDFs.
Check ==
    /\ stage = "check"
    /\ GoTo(IF Valid /\ CountPages THEN "accepted" ELSE "bad_request")

\* Wrong on purpose: the type is detected once more, from the content.
LoadJobInputUntyped == NewAttachment("none", file.size)

\* The document as WriteInputFile left it, with the type that was recorded.
LoadJobInput == NewAttachment(file.type, file.size)

\* The goroutine of an accepted job, which calls process.
Reload ==
    /\ stage = "accepted"
    /\ file' = LoadJobInput
    /\ stage' = "recheck"
    /\ UNCHANGED <<env, limits, upload>>

Recheck ==
    /\ stage = "recheck"
    /\ GoTo(IF Valid /\ CountPages THEN "masking" ELSE "failed")

\* The next upload.
Again ==
    /\ stage \in Refused \cup {"masking", "failed"}
    /\ stage' = "serving"
    /\ upload' = NoUpload
    /\ file' = NoFile
    /\ UNCHANGED <<env, limits>>

InitWith(environments) ==
    /\ env \in environments
    /\ limits = [size |-> 0, pages |-> 0, retention |-> 0, timeout |-> 0]
    /\ upload = NoUpload
    /\ stage = "start"
    /\ file = NoFile

NextWith(uploads) ==
    \/ Load
    \/ \E u \in uploads : Arrive(u)
    \/ ReadBody \/ ReadFile \/ Check \/ Reload \/ Recheck \/ Again

Spec == InitWith(Environment) /\ [][NextWith(Upload)]_vars

-----------------------------------------------------------------------------
(* Properties.                                                             *)

\* The number in force, of integers without end: what was asked for if the
\* machine can hold it, else the default.
InForce(asked, low, unit, default) ==
    IF low <= asked /\ asked * unit <= MaxInt THEN asked * unit ELSE default * unit

\* However large a value the environment names, no limit comes out negative,
\* shorter than asked for, or switched off that was not asked to be: a large
\* retention keeps documents, it does not turn their removal off, and a large
\* size limit does not refuse every upload (envDuration, envMebibytes).
LimitsAsAsked ==
    stage # "start" =>
        /\ limits.size = InForce(env.size, 1, Mebibyte, DefaultSize)
        /\ limits.retention = InForce(env.retention, 0, Unit, DefaultTime)
        /\ limits.timeout = InForce(env.timeout, 1, Unit, DefaultTime)

\* No document is accepted in part: what is masked is what the client sent,
\* and a document one byte over the limit is not one at the limit
\* (readProcessInput, validateAttachment).
AcceptedIsWhole ==
    stage \in {"accepted", "recheck", "masking"} =>
        file.size = upload.size /\ upload.size <= limits.size

\* A document within the limit is not called too large for the framing and
\* the fields around it, up to the largest limit that can be set
\* (uploadBodyHeadroomBytes).
TooLargeIsTooLarge ==
    stage = "too_large" =>
        upload.size > limits.size \/ upload.framing > Headroom

\* A job that was accepted with 202 is not refused by the same checks when
\* its turn comes: what is read back has the type it was accepted with
\* (loadJobInput, process).
AcceptedStaysAcceptable == stage # "failed"

=============================================================================
