------------------------------ MODULE MCIntake ------------------------------
(* Intake with 7-bit integers, in which a size, a duration and their sums   *)
(* with the headroom reach the largest integer and pass it more than once.  *)
EXTENDS Intake

Plain == [size |-> 1, pages |-> 2, retention |-> 1, timeout |-> 1]

Asked == -2 .. 2 * Unit * Mebibyte \cup {NoNumber}

\* One setting at a time leaves its usual value, or none does.
MCEnvironment ==
    UNION {{[Plain EXCEPT !.size = n],
            [Plain EXCEPT !.size = 2, !.retention = n],
            [Plain EXCEPT !.size = 2, !.timeout = n]} : n \in Asked}
        \cup {[Plain EXCEPT !.pages = n] : n \in {-1, 0, 1, NoNumber}}

\* Documents of every size that matters, and documents of every kind.
Sizes ==
    {[NoUpload EXCEPT !.size = n, !.framing = m, !.form = "good",
                      !.declared = "pdf", !.pages = 1] :
        n \in {0, 1} \cup {limits.size + k : k \in -2 .. Headroom + 2},
        m \in 0 .. Headroom + 1}

Kinds ==
    [size : {0, 2}, framing : {1}, form : {"good", "broken", "no_file"},
     declared : MIME, sniffed : {"octet", "pdf", "jpeg", "other"},
     extension : {"none", "pdf", "alias"},
     fault : {"none", "unreadable", "dimensions"}, pages : {0, 1, 3}]

MCInit == InitWith(MCEnvironment)

MCNext ==
    \/ NextWith(Sizes)
    \/ env.size = Plain.size /\ \E u \in Kinds : Arrive(u)

MCSpec == MCInit /\ [][MCNext]_vars

=============================================================================
