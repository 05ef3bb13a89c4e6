------------------------ MODULE GlobalDescriptorTable ------------------------
(***************************************************************************)
(* Segment descriptors (gdt.cpp): the constructor of SegmentDescriptor     *)
(* packs base, limit and type into eight bytes, Base and Limit unpack      *)
(* them.  The limit has twenty bits; beyond 65536 they count pages of 4096 *)
(* bytes, the last of which the processor takes to be used to its end.     *)
(***************************************************************************)
EXTENDS Integers, TLAPS

UInt32 == {v \in Nat : v < 65536 * 65536}

\* The lowest byte, and a shift by one byte.
Low(v) == v % 256
Shifted(v) == v \div 256

InPages(limit) == limit > 65536

\* The limit as it is stored: in pages, one less if the last one is not full.
Stored(limit) ==
  IF ~InPages(limit) THEN limit
  ELSE IF limit % 4096 = 4095 THEN limit \div 4096
  ELSE limit \div 4096 - 1

SegmentDescriptor(base, limit, type) ==
  LET n == Stored(limit) IN
  <<Low(n), Low(Shifted(n)),
    Low(base), Low(Shifted(base)), Low(Shifted(Shifted(base))),
    type,
    (IF InPages(limit) THEN 192 ELSE 64) + (Shifted(Shifted(n)) % 16),
    Low(Shifted(Shifted(Shifted(base))))>>

\* target[i], counted from 0.
At(d, i) == d[i + 1]

Base(d) ==
  256 * (256 * (256 * At(d, 7) + At(d, 4)) + At(d, 3)) + At(d, 2)

Limit(d) ==
  LET n == 256 * (256 * (At(d, 6) % 16) + At(d, 1)) + At(d, 0)
  IN  IF (At(d, 6) \div 64) % 4 = 3 THEN 4096 * n + 4095 ELSE n

-----------------------------------------------------------------------------
\* Twenty bits.
StoredLimits == {n \in Nat : n < 16 * 65536}

LEMMA StoredFits ==
  ASSUME NEW limit \in UInt32
  PROVE  Stored(limit) \in StoredLimits
  BY SMT DEF UInt32, Stored, InPages, StoredLimits

LEMMA FlagsApart ==
  ASSUME NEW n \in StoredLimits, NEW flags \in {64, 192}
  PROVE  /\ (flags + (Shifted(Shifted(n)) % 16)) % 16 = Shifted(Shifted(n))
         /\ ((flags + (Shifted(Shifted(n)) % 16)) \div 64) % 4 = flags \div 64
  BY SMT DEF Shifted, StoredLimits

LEMMA Unpacked ==
  ASSUME NEW v \in Int
  PROVE  256 * Shifted(v) + Low(v) = v
  BY DEF Low, Shifted

LEMMA ShiftedTyped == ASSUME NEW v \in Int PROVE Shifted(v) \in Int
  BY DEF Shifted

LEMMA TopByte ==
  ASSUME NEW base \in UInt32
  PROVE  Low(Shifted(Shifted(Shifted(base)))) = Shifted(Shifted(Shifted(base)))
  BY SMT DEF Low, Shifted, UInt32

(***************************************************************************)
(* What is packed can be unpacked: the base exactly; the limit exactly up  *)
(* to 65536, and otherwise at most 4095 bytes below what was asked for,    *)
(* never beyond it, as the constructor's comment says (gdt.cpp:49-58).     *)
(***************************************************************************)
THEOREM DescriptorKept ==
  ASSUME NEW base \in UInt32, NEW limit \in UInt32, NEW type
  PROVE  LET d == SegmentDescriptor(base, limit, type) IN
         /\ Base(d) = base
         /\ Limit(d) <= limit /\ limit - Limit(d) <= 4095
         /\ limit <= 65536 => Limit(d) = limit
<1> DEFINE d == SegmentDescriptor(base, limit, type)
           n == Stored(limit)
           flags == IF InPages(limit) THEN 192 ELSE 64
<1>1. n \in StoredLimits
  BY StoredFits
<1>2. /\ At(d, 0) = Low(n) /\ At(d, 1) = Low(Shifted(n))
      /\ At(d, 6) = flags + (Shifted(Shifted(n)) % 16)
  BY DEF At, SegmentDescriptor
<1>3. Base(d) = base
  <2>1. /\ At(d, 2) = Low(base) /\ At(d, 3) = Low(Shifted(base))
        /\ At(d, 4) = Low(Shifted(Shifted(base)))
        /\ At(d, 7) = Shifted(Shifted(Shifted(base)))
    BY TopByte DEF At, SegmentDescriptor
  <2>2. base \in Int /\ Shifted(base) \in Int /\ Shifted(Shifted(base)) \in Int
    BY ShiftedTyped DEF UInt32
  <2>3. QED
    BY <2>1, <2>2, Unpacked DEF Base
<1>4. Limit(d) = IF InPages(limit) THEN 4096 * n + 4095 ELSE n
  <2>1. /\ At(d, 6) % 16 = Shifted(Shifted(n))
        /\ (At(d, 6) \div 64) % 4 = flags \div 64
    BY <1>1, <1>2, FlagsApart
  <2>2. n \in Int /\ Shifted(n) \in Int
    BY <1>1, ShiftedTyped DEF StoredLimits
  <2>3. 256 * (256 * (At(d, 6) % 16) + At(d, 1)) + At(d, 0) = n
    BY <1>2, <2>1, <2>2, Unpacked
  <2>4. flags \div 64 = IF InPages(limit) THEN 3 ELSE 1
    OBVIOUS
  <2>5. QED
    BY <2>1, <2>3, <2>4 DEF Limit
<1>5. CASE InPages(limit)
  <2>1. 4096 * n + 4095 <= limit /\ limit - (4096 * n + 4095) <= 4095 /\ ~(limit <= 65536)
    BY <1>5, SMT DEF Stored, InPages, UInt32
  <2>2. QED
    BY <1>3, <1>4, <1>5, <2>1
<1>6. CASE ~InPages(limit)
  <2>1. n = limit /\ limit \in Int
    BY <1>6, SMT DEF Stored, UInt32
  <2>2. QED
    BY <1>3, <1>4, <1>6, <2>1
<1>7. QED
  BY <1>5, <1>6
=============================================================================
