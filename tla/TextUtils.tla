------------------------------ MODULE TextUtils ------------------------------
(***************************************************************************)
(* The two families of string functions of the vendored driver: StringData *)
(* (base/string_data.h), a pointer with a size, and mongoutils::str        *)
(* (util/mongoutils/str.h), most of which see a string as a C string that  *)
(* ends at its first NUL.                                                  *)
(*                                                                         *)
(* A string is a sequence of character codes; positions count from 0.      *)
(***************************************************************************)
EXTENDS Integers, Sequences, SequencesExt

CONSTANT WordMax    \* the largest unsigned, 2^32 - 1 in the code

NUL == 0
npos == -1          \* std::string::npos
Space == 32
IsDigit(c) == c \in 48..57
tolower(c) == IF c \in 65..90 THEN c + 32 ELSE c

\* The first and the last position of c in s from position a up to b, and npos.
FirstAt(s, a, Test(_)) == LET at == {i \in (a + 1)..Len(s) : Test(s[i])}
                          IN  IF at = {} THEN npos ELSE (CHOOSE i \in at : \A j \in at : i <= j) - 1
LastAt(s, b, Test(_)) == LET at == {i \in 1..b : Test(s[i])}
                         IN  IF at = {} THEN npos ELSE (CHOOSE i \in at : \A j \in at : i >= j) - 1

\* The C library: strlen(), memcmp() of the first n characters as a sign, strchr(), strrchr(), strstr().
c_str(s) == LET n == FirstAt(s, 0, LAMBDA c : c = NUL) IN IF n = npos THEN s ELSE SubSeq(s, 1, n)
memcmp(s, t, n) == LET d == FirstAt(SubSeq([i \in 1..n |-> s[i] # t[i]], 1, n), 0, LAMBDA x : x)
                   IN  IF d = npos THEN 0 ELSE IF s[d + 1] > t[d + 1] THEN 1 ELSE -1
strchr(s, c) == FirstAt(c_str(s), 0, LAMBDA x : x = c)
strrchr(s, c) == LastAt(c_str(s), Len(c_str(s)), LAMBDA x : x = c)
strstr(s, x) == LET n == Len(c_str(x))
                    at == {i \in 0..(Len(c_str(s)) - n) : SubSeq(c_str(s), i + 1, i + n) = c_str(x)}
                IN  IF at = {} THEN npos ELSE CHOOSE i \in at : \A j \in at : i <= j

-----------------------------------------------------------------------------
(* StringData *)

\* The constructor from a C string.
fromCStr(s) == c_str(s)

compare(s, t) ==
    LET res == memcmp(s, t, IF Len(s) < Len(t) THEN Len(s) ELSE Len(t))
    IN  IF res # 0 THEN IF res > 0 THEN 1 ELSE -1
        ELSE IF Len(s) = Len(t) THEN 0
        ELSE IF Len(s) > Len(t) THEN 1 ELSE -1
equal(s, t) == Len(s) = Len(t) /\ compare(s, t) = 0
less(s, t) == compare(s, t) < 0

equalCaseInsensitive(s, t) ==
    Len(s) = Len(t) /\ \A i \in DOMAIN s : s[i] = t[i] \/ tolower(s[i]) = tolower(t[i])

copyTo(s, includeEndingNull) == IF includeEndingNull THEN Append(s, NUL) ELSE s

findChar(s, c, fromPos) == IF fromPos >= Len(s) THEN npos ELSE FirstAt(s, fromPos, LAMBDA x : x = c)

find(s, needle) ==
    LET at == {i \in 0..(Len(s) - Len(needle)) : memcmp(SubSeq(s, i + 1, Len(s)), needle, Len(needle)) = 0}
    IN  IF needle = <<>> THEN 0
        ELSE IF Len(needle) > Len(s) \/ at = {} THEN npos
        ELSE CHOOSE i \in at : \A j \in at : i <= j

\* Variant of rfind(): fromPos itself is looked at.
rfindPast(s, c, fromPos) == LastAt(s, IF fromPos >= Len(s) THEN Len(s) ELSE fromPos + 1, LAMBDA x : x = c)

rfind(s, c, fromPos) == LastAt(s, IF fromPos > Len(s) THEN Len(s) ELSE fromPos, LAMBDA x : x = c)

\* substr() cuts n to the end of the string; a position past the end throws.
substr(s, pos, n) ==
    SubSeq(s, pos + 1, pos + IF n > Len(s) - pos THEN Len(s) - pos ELSE n)

startsWith(s, prefix) == equal(substr(s, 0, Len(prefix)), prefix)
endsWith(s, suffix) ==
    Len(suffix) <= Len(s) /\ equal(substr(s, Len(s) - Len(suffix), Len(suffix)), suffix)

-----------------------------------------------------------------------------
(* mongoutils::str *)

\* stream << v appends.
stream(s, v) == s \o v

\* Character by character until the prefix ends; a NUL in s differs from what is left of it.
strStartsWith(s, prefix) ==
    LET p == c_str(prefix)
    IN  \A i \in DOMAIN p : i <= Len(c_str(s)) /\ c_str(s)[i] = p[i]

\* strncmp() of the last characters, which ends at a common NUL; and the C string one.
strEndsWith(s, p) ==
    LET last == SubSeq(s, Len(s) - Len(p) + 1, Len(s))
    IN  Len(s) >= Len(p) /\ c_str(last) = c_str(p)
strEndsWithC(s, p) ==
    LET a == c_str(s) b == c_str(p)
    IN  Len(b) <= Len(a) /\ SubSeq(a, Len(a) - Len(b) + 1, Len(a)) = b

equals(a, b) == c_str(a) = c_str(b)

\* What follows the first c, or the first x, and what comes before it.
afterChar(s, c) == LET p == strchr(s, c) IN IF p = npos THEN <<>> ELSE c_str(SubSeq(s, p + 2, Len(s)))
after(s, x) == LET p == strstr(s, x) IN IF p = npos THEN <<>> ELSE c_str(SubSeq(s, p + Len(x) + 1, Len(s)))
contains(s, x) == strstr(s, x) # npos
beforeChar(s, c) == LET p == strchr(s, c) IN IF p = npos THEN s ELSE SubSeq(s, 1, p)
before(s, x) == LET p == strstr(s, x) IN IF p = npos THEN s ELSE SubSeq(s, 1, p)

shareCommonPrefix(a, b) ==
    LET p == c_str(a) q == c_str(b)
        d == FirstAt([i \in 1..Len(p) |-> i > Len(q) \/ p[i] # q[i]], 0, LAMBDA x : x)
    IN  IF d = npos THEN Len(p) ELSE d

\* The leading digits, in unsigned arithmetic.
toUnsigned(a) ==
    LET n == FirstAt(Append(c_str(a), NUL), 0, LAMBDA c : ~IsDigit(c))
    IN  FoldLeft(LAMBDA x, c : (x * 10 + (c - 48)) % (WordMax + 1), 0, SubSeq(a, 1, n))

\* Split once, at the first or at the last c: found, L and R.
SplitAt(s, p) == IF p = npos THEN [found |-> FALSE, L |-> s, R |-> <<>>]
                 ELSE [found |-> TRUE, L |-> SubSeq(s, 1, p), R |-> c_str(SubSeq(s, p + 2, Len(s)))]
splitOn(s, c) == SplitAt(s, strchr(s, c))
rSplitOn(s, c) == SplitAt(s, strrchr(s, c))

count(s, c) == Len(SelectSeq(s, LAMBDA x : x = c))

ltrim(s) == LET n == FirstAt(Append(c_str(s), NUL), 0, LAMBDA c : c # Space) IN SubSeq(c_str(s), n + 1, Len(c_str(s)))

\* contains(s, c) has c # NUL as its verified precondition.
containsChar(s, c) == strchr(s, c) # npos

\* Every character that is one of chars is left out, wherever it stands; contains() is asked for
\* each character of s, so a NUL in s throws: <<>>, and <<what is left>> otherwise.
stripTrailing(s, chars) ==
    IF \E i \in DOMAIN s : s[i] = NUL THEN <<>>
    ELSE <<SelectSeq(s, LAMBDA c : ~containsChar(chars, c))>>
=============================================================================
