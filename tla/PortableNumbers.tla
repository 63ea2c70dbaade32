--------------------------- MODULE PortableNumbers ---------------------------
(***************************************************************************)
(* What ByteOrder promises of a number: any build reads what any other     *)
(* build wrote.  The number is counted up by the module that extends this  *)
(* one.                                                                    *)
(***************************************************************************)
EXTENDS ByteOrder

VARIABLES subject,       \* what a behaviour is about
          number

\* Bits of eight bytes: the number's in the lower four, others in the upper four.
Pattern == number * (3 * Power(4) + 1)

\* The number of a type that has the lower bits of n.
Cast(n, ty) == IF ty.k = "unsigned" THEN Unsigned(n, ty.w) ELSE Signed(Unsigned(n, ty.w), ty.w)

\* A number one build writes, in either order, is the number any other build reads, the bytes of the
\* two orders mirror each other, and the compilers' swaps are the shifts of bswap_slow (endian.h).
NumbersPortable ==
    subject = "number" =>
      /\ \A ty \in {CHAR, INT, UINT, LL, ULL, DOUBLE} : Portable(Cast(Pattern, ty), ty)
      /\ \A w \in {2, 4, 8} : bswap_slow(Unsigned(Pattern, w), w) = Builtin(Unsigned(Pattern, w), w)
=============================================================================
