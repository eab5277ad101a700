------------------------------ MODULE Quantities -------------------------------
(***************************************************************************)
(* Kubernetes quantities as they are stored in object.data, and the SQL    *)
(* functions parse_bytes and parse_cores that read them.                   *)
(*                                                                         *)
(* The API types are marshalled again before they are stored               *)
(* (UpsertObject), which leaves a quantity in its canonical form: a whole  *)
(* number and a suffix.  Only the suffix decides what the functions do, so *)
(* a quantity is <<number, suffix>> and the factor a suffix stands for is  *)
(* <<base, power>>: the factors themselves do not fit TLC's integers.      *)
(***************************************************************************)
EXTENDS Integers

Decimal == [n |-> -3, u |-> -2, m |-> -1, k |-> 1, M |-> 2, G |-> 3, T |-> 4,
            P |-> 5, E |-> 6]
Binary == [Ki |-> 1, Mi |-> 2, Gi |-> 3, Ti |-> 4, Pi |-> 5, Ei |-> 6]
Exponent == [e3 |-> 1, e6 |-> 2]

\* The suffixes of the canonical form ("none" where there is none).
Suffixes == {"none"} \union DOMAIN Decimal \union DOMAIN Binary \union DOMAIN Exponent

One == <<1, 0>>
Unknown == <<0, 0>>     \* the statement fails

\* Reference: the factor a suffix stands for in a quantity.
Meaning(suffix) ==
    CASE suffix = "none" -> One
      [] suffix \in DOMAIN Decimal -> <<1000, Decimal[suffix]>>
      [] suffix \in DOMAIN Binary -> <<1024, Binary[suffix]>>
      [] suffix \in DOMAIN Exponent -> <<1000, Exponent[suffix]>>

\* parse_bytes: the letters at the end choose the factor.  The branch for 'K'
\* serves no suffix of a quantity; what has no branch, or ends in a digit,
\* counts as bytes.
BytesFactor(suffix) ==
    CASE suffix \in {"M", "G", "T", "P", "E"} -> <<1000, Decimal[suffix]>>
      [] suffix \in DOMAIN Binary -> <<1024, Binary[suffix]>>
      [] OTHER -> One

\* parse_cores: like '%m' is milli; anything else must be a number to PostgreSQL,
\* which the exponent form is and a suffix is not.
CoresFactor(suffix) ==
    CASE suffix = "m" -> <<1000, -1>>
      [] suffix = "none" -> One
      [] suffix \in DOMAIN Exponent -> <<1000, Exponent[suffix]>>
      [] OTHER -> Unknown

\* parse_cores, in thousandths of a core.
ParseCores(q) ==
    LET factor == CoresFactor(q[2]) IN q[1] * 1000 ^ (factor[2] + 1)

\* A canonical quantity, not negative, that parse_cores knows.
Readable(q) ==
    /\ q[1] \in Nat
    /\ q[2] \in Suffixes /\ CoresFactor(q[2]) # Unknown

--------------------------------------------------------------------------------

\* parse_bytes gives a suffix its meaning, except the decimal ones up to "k" and
\* the exponents, which it takes for bytes.
BytesAsMeant ==
    \A suffix \in Suffixes :
        BytesFactor(suffix) = Meaning(suffix)
            <=> suffix \notin {"n", "u", "m", "k"} \union DOMAIN Exponent

\* parse_cores never gives a suffix another meaning than its own: it knows the
\* suffixes nodes and pods commonly use, and the query fails on the others.
CoresAsMeant ==
    \A suffix \in Suffixes :
        /\ CoresFactor(suffix) \in {Meaning(suffix), Unknown}
        /\ suffix \in {"none", "m"} => CoresFactor(suffix) = Meaning(suffix)
================================================================================
