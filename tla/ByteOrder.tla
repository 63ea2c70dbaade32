------------------------------ MODULE ByteOrder ------------------------------
(***************************************************************************)
(* The byte-order layer of the vendored driver (platform/endian.h,         *)
(* base/data_view.h, base/data_cursor.h): how a number of w bytes is put   *)
(* into memory and read back, on every kind of build.                      *)
(*                                                                         *)
(* A byte has ByteBase values, 256 in the code.  Every width the code uses *)
(* (1, 2, 4, 8 bytes) keeps its number of bytes, so with a small ByteBase  *)
(* an int has ByteBase^4 values and wraps where a real int would.          *)
(***************************************************************************)
EXTENDS Integers, Sequences, SequencesExt

CONSTANTS ByteBase,
          Hosts        \* the builds considered

\* A build has a byte order and a compiler with or without byte swapping intrinsics.
Host(o, s) == [order |-> o, swab |-> s]
Builds == [order : {"little", "big"}, swab : {"builtin", "slow"}]

ASSUME ByteOrderAssumption ==
    ByteBase \in Nat /\ ByteBase >= 4 /\ ByteBase % 2 = 0 /\ Hosts \subseteq Builds

-----------------------------------------------------------------------------
(* endian.h *)

\* The numbers n bytes have, and the weight of the byte after them.
Powers[n \in Nat] == IF n = 0 THEN 1 ELSE ByteBase * Powers[n - 1]
Power(n) == Powers[n]

\* static_cast to the unsigned type of w bytes, and back to the signed one.
Unsigned(v, w) == v % Power(w)
Signed(u, w) == IF u >= Power(w) \div 2 THEN u - Power(w) ELSE u

\* The w digits of a number, least significant first, and the number they denote.
Digits(v, w) == [i \in 1..w |-> (v \div Power(i - 1)) % ByteBase]
Number(d) ==
    LET from[i \in Nat] == IF i > Len(d) THEN 0 ELSE d[i] + ByteBase * from[i + 1] IN from[1]

\* The compilers' swapping intrinsics.
Builtin(v, w) == Number(Reverse(Digits(v, w)))

\* Variant of bswap_slow(): the lower bytes are not masked.
bswapUnmasked(v, w) ==
    LET Shifted(i) == IF 2 * i < w THEN (v % Power(i + 1)) * Power(w - 1 - 2 * i)
                                   ELSE (v % Power(i + 1)) \div Power(2 * i + 1 - w)
    IN  FoldLeft(LAMBDA acc, i : acc + Shifted(i - 1), 0, [i \in 1..w |-> i])

\* bswap_slow16, 32 and 64: every byte is masked and shifted to its mirror place.
bswap_slow(v, w) ==
    LET Masked(i) == (v % Power(i + 1)) - (v % Power(i))
        Shifted(i) == IF 2 * i < w THEN Masked(i) * Power(w - 1 - 2 * i)
                                   ELSE Masked(i) \div Power(2 * i + 1 - w)
        upTo[i \in 0..w] == IF i = 0 THEN 0 ELSE upTo[i - 1] + Shifted(i - 1)
    IN  upTo[w]

\* MONGO_UINT*_SWAB.
SWAB(host, v, w) == IF host.swab = "builtin" THEN Builtin(v, w) ELSE bswap_slow(v, w)

\* The macros of a build: htole* and le*toh are the same function, as are htobe* and be*toh.
hto(host, order, v, w) == IF host.order = order THEN v ELSE SWAB(host, v, w)

\* ByteOrderConverter<T>, towards and from the given order: the unsigned types; the signed ones
\* by way of the unsigned; float and double by their bits (here a fixed-point number, see Float).
convertUnsigned(host, order, v, w) == IF w = 1 THEN v ELSE hto(host, order, v, w)
convertSigned(host, order, v, w) ==
    IF w = 1 THEN v ELSE Signed(hto(host, order, Unsigned(v, w), w), w)
Bits(v, w) == Unsigned(v, w)
Float(u, w) == Signed(u, w)
convertFloating(host, order, v, w) == Float(hto(host, order, Bits(v, w), w), w)

\* IntegralTypeMap: the C++ types by their width and kind.
Ty(w, k) == [w |-> w, k |-> k]
CHAR == Ty(1, "signed")
INT == Ty(4, "signed")
UINT == Ty(4, "unsigned")
LL == Ty(8, "signed")
ULL == Ty(8, "unsigned")
DOUBLE == Ty(8, "floating")

\* nativeToBig(), bigToNative(), nativeToLittle(), littleToNative().
Convert(host, order, v, ty) ==
    CASE ty.k = "unsigned" -> convertUnsigned(host, order, v, ty.w)
      [] ty.k = "signed" -> convertSigned(host, order, v, ty.w)
      [] ty.k = "floating" -> convertFloating(host, order, v, ty.w)

-----------------------------------------------------------------------------
(* data_view.h *)

\* memcpy of an object to and from memory: its bytes in the host's own order.
writeNative(host, v, ty) ==
    LET d == Digits(Unsigned(v, ty.w), ty.w) IN IF host.order = "little" THEN d ELSE Reverse(d)
readNative(host, b, off, ty) ==
    LET m == SubSeq(b, off + 1, off + ty.w)
        u == Number(IF host.order = "little" THEN m ELSE Reverse(m))
    IN  IF ty.k = "unsigned" THEN u ELSE Signed(u, ty.w)

writeLE(host, v, ty) == writeNative(host, Convert(host, "little", v, ty), ty)
writeBE(host, v, ty) == writeNative(host, Convert(host, "big", v, ty), ty)
readLE(host, b, off, ty) == Convert(host, "little", readNative(host, b, off, ty), ty)
readBE(host, b, off, ty) == Convert(host, "big", readNative(host, b, off, ty), ty)

\* Writing through a DataView on data + off changes these bytes of the buffer.
Overwrite(b, off, d) ==
    SubSeq(b, 1, off) \o d \o SubSeq(b, off + Len(d) + 1, Len(b))

\* A number one build writes, in either order, is the number any other build reads, and the bytes
\* of the two orders mirror each other.
Portable(v, ty) ==
    \A w, r \in Hosts :
       /\ readLE(r, writeLE(w, v, ty), 0, ty) = v
       /\ readBE(r, writeBE(w, v, ty), 0, ty) = v
       /\ writeBE(w, v, ty) = Reverse(writeLE(r, v, ty))

-----------------------------------------------------------------------------
(* data_cursor.h: a view that moves on by the size of what it reads or writes. *)

\* ConstDataCursor, at offset cur of b.
skip(cur, ty) == cur + ty.w
readLEAndAdvance(host, b, cur, ty) == [v |-> readLE(host, b, cur, ty), cur |-> skip(cur, ty)]

\* DataCursor: the writes one after the other.
writeLEAndAdvance(host, written, v, ty) == written \o writeLE(host, v, ty)
=============================================================================
