------------------------------ MODULE Signatures ------------------------------
(***************************************************************************)
(* VerifyStripe: a header of parts "t=..." and "v1=...", the window around *)
(* the signing time, and the comparison of MACs.  Integers wrap around at  *)
(* Half, as Go's int64 does at 2^63.                                       *)
(*                                                                         *)
(* For one payload and one secret a MAC is told by the time it signs: a v1 *)
(* part holds that time, or Junk (another payload or secret, or no hex).   *)
(***************************************************************************)
EXTENDS Integers, Sequences

CONSTANTS
    Half,        \* integers are -Half..(Half - 1): 2^63 in the code
    Times,       \* clock readings: seconds since 1970
    Stamps,      \* timestamps in headers
    Tolerances,  \* toleranceSecs
    MaxParts     \* bound: parts of a header

ASSUME SignatureAssumption ==
    /\ Half \in Nat \ {0}
    /\ Times \subseteq Nat
    /\ Times \cup Stamps \cup Tolerances \subseteq (-Half)..(Half - 1)

VARIABLES
    header,     \* its parts: [key, val]
    now,        \* nowFn().Unix()
    tolerance,
    verdict     \* [ok, ts], or NoVerdict

signatureVars == <<header, now, tolerance, verdict>>

\* A value that is no time: an empty one, a text that ParseInt refuses, a MAC
\* that fits nothing.  They lie outside of what an integer can hold.
Empty == 2 * Half
Junk == 2 * Half + 1
Rejected(ts) == [ok |-> FALSE, ts |-> ts]
NoVerdict == [ok |-> FALSE, ts |-> Junk]

Wrap(n) == ((n + Half) % (2 * Half)) - Half

\* The parts of the header with a key.
PartsOf(key) == {i \in 1..Len(header) : header[i].key = key}

\* The last t= wins.
Stamp ==
    LET ts == PartsOf("t")
    IN IF ts = {} THEN Empty ELSE header[CHOOSE i \in ts : \A j \in ts : j <= i].val

\* Mutant: a time in the future is in the window.
InWindowOneSided(ts) == tolerance > 0 => Wrap(now - ts) <= tolerance

\* skew, its absolute value, and the comparison.
InWindow(ts) ==
    tolerance > 0 =>
        LET skew == Wrap(now - ts)
        IN (IF skew < 0 THEN Wrap(-skew) ELSE skew) <= tolerance

VerifyStripe ==
    IF Len(header) = 0 \/ Stamp = Empty \/ PartsOf("v1") = {} \/ Stamp = Junk
    THEN Rejected(0)
    ELSE IF ~InWindow(Stamp) THEN Rejected(Stamp)
    ELSE [ok |-> \E i \in PartsOf("v1") : header[i].val = Stamp, ts |-> Stamp]

-----------------------------------------------------------------------------
Parts == [key : {"t"}, val : Stamps \cup {Empty, Junk}]
         \cup [key : {"v1"}, val : Stamps \cup {Junk}]
         \cup [key : {"v0"}, val : {Junk}]

SignatureInit ==
    /\ header \in UNION {[1..n -> Parts] : n \in 0..MaxParts}
    /\ now \in Times /\ tolerance \in Tolerances
    /\ verdict = NoVerdict

VerifySignature ==
    /\ verdict = NoVerdict
    /\ verdict' = VerifyStripe
    /\ UNCHANGED <<header, now, tolerance>>

SignatureSpec == SignatureInit /\ [][VerifySignature]_signatureVars

-----------------------------------------------------------------------------
(* Properties.                                                             *)

Near(ts) == tolerance <= 0 \/ now - ts \in (-tolerance)..tolerance

\* The time that VerifyStripe returns was signed and lies in the window, and the
\* header of an honest sender, one time with its MAC among others, is accepted
\* within it.  Two corners of the int64 are excepted: the time 2^63 seconds before
\* now, whose skew has no absolute value, and a tolerance larger than what is left
\* of the int64 after now, where the skew of a time before 1970 may wrap around.
SignedInWindow ==
    /\ verdict # NoVerdict /\ verdict.ok =>
        /\ \E i \in 1..Len(header) : header[i] = [key |-> "v1", val |-> verdict.ts]
        /\ Near(verdict.ts) \/ now - verdict.ts = Half \/ now + tolerance >= Half
    /\ \A ts \in Stamps :
        verdict # NoVerdict /\ Near(ts)
        /\ (\E i \in 1..Len(header) : PartsOf("t") = {i} /\ header[i].val = ts)
        /\ (\E i \in 1..Len(header) : header[i] = [key |-> "v1", val |-> ts])
            => verdict = [ok |-> TRUE, ts |-> ts]

=============================================================================
