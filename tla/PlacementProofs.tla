-------------------------- MODULE PlacementProofs ---------------------------
(***************************************************************************)
(* Proofs about Placement: the rules, the categories and the date, for any *)
(* policy, any categories, any file and any width of the integers.         *)
(***************************************************************************)
EXTENDS Placement, TLAPS

-----------------------------------------------------------------------------
(* The date.                                                               *)

Wide == -Half .. Half - 1

\* What fits is not changed by the arithmetic, and what comes out fits.
LEMMA Int64Fits == \A z \in Wide : Int64(z) = z
<1> SUFFICES ASSUME NEW z \in Wide PROVE Int64(z) = z
  OBVIOUS
<1>1. Half \in Nat \ {0}
  BY WidthTyped
<1>2. z + Half \in 0 .. 2 * Half - 1
  BY <1>1 DEF Wide
<1>3. \A m \in Nat \ {0} : \A k \in 0 .. m - 1 : k % m = k
  OBVIOUS
<1>4. (z + Half) % (2 * Half) = z + Half
  BY <1>1, <1>2, <1>3
<1> QED
  BY <1>1, <1>4 DEF Int64, Wide

LEMMA Int64InRange == \A z \in Int : Int64(z) \in Wide
<1> SUFFICES ASSUME NEW z \in Int PROVE Int64(z) \in Wide
  OBVIOUS
<1>1. Half \in Nat \ {0}
  BY WidthTyped
<1>2. \A m \in Nat \ {0} : \A k \in Int : k % m \in 0 .. m - 1
  OBVIOUS
<1>3. 2 * Half \in Nat \ {0} /\ z + Half \in Int
  BY <1>1
<1>4. (z + Half) % (2 * Half) \in 0 .. 2 * Half - 1
  BY <1>2, <1>3
<1> QED
  BY <1>1, <1>4 DEF Int64, Wide

LEMMA WrapsNegative ==
    \A z \in Half .. 2 * Half - 1 : Int64(z) \in Int /\ Int64(z) < 0
<1> SUFFICES ASSUME NEW z \in Half .. 2 * Half - 1
             PROVE  Int64(z) \in Int /\ Int64(z) < 0
  OBVIOUS
<1>1. Half \in Nat \ {0} /\ z \in Int
  BY WidthTyped
<1>2. \A m \in Nat \ {0} : \A k \in m .. 2 * m - 1 : k % m = k - m
  OBVIOUS
<1>3. z + Half \in 2 * Half .. 2 * (2 * Half) - 1 /\ 2 * Half \in Nat \ {0}
  BY <1>1
<1>4. (z + Half) % (2 * Half) = z + Half - 2 * Half
  BY <1>1, <1>2, <1>3
<1> QED
  BY <1>1, <1>4 DEF Int64

\* What the walk relies on.  An offset that overflows is negative, so that
\* nothing can be read there: every header that is read lies behind the start
\* of the region, and the check of the region does not overflow.
DateInv ==
    /\ kind \in {"still", "video", "other"}
    /\ size \in 0 .. Half - 16
    /\ {off, end, hdr} \subseteq Int
    /\ source = "none" <=> at # "done"
    /\ at \notin {"open", "done"} => kind = "video"
    /\ at = "mvhd" =>
          /\ moov[1] \in Int /\ moov[2] = end
          /\ off < 0 \/ moov[1] <= off
    /\ at = "head" =>
          /\ moov[1] \in Int /\ moov[2] \in Int
          /\ moov[1] <= hdr /\ hdr + 8 <= moov[2] /\ hdr + 8 <= size
    /\ DateIsTheVideos

LEMMA DateInvInit == PlacementInit => DateInv
BY WidthTyped DEF PlacementInit, DateInit, DateInv, DateIsTheVideos

\* An atom is found, or passed, at an offset that could be read, within the
\* region and without overflow.
LEMMA FindAtomKeeps == DateInv /\ FindAtom => DateInv'
<1> SUFFICES ASSUME DateInv, FindAtom PROVE DateInv'
  OBVIOUS
<1> USE DEF DateInv
<1>1. PICK length \in -Half .. Half - 1, headerLen \in {8, 16} :
          /\ Header(length, headerLen)
          /\ IF Malformed(length, headerLen) THEN FallBack
             ELSE \/ OtherAtom(length)
                  \/ FoundMoov(length, headerLen)
                  \/ FoundMvhd(headerLen)
  BY DEF FindAtom
<1>2. Half \in Nat \ {0} /\ length \in Int
  BY WidthTyped
<1>3. /\ Scanning /\ off >= 0 /\ off + 8 <= size
      /\ headerLen = 16 => off + 16 <= size
  BY <1>1, <1>2, WidthTyped DEF FindAtom, Readable, Header
<1>4. off + 8 <= end
  BY <1>2, <1>3, Int64Fits DEF FindAtom, InRegion, Wide
<1>5. CASE FallBack
  BY <1>3, <1>5 DEF FallBack, Scanning, DateIsTheVideos
<1>6. CASE length >= headerLen /\ OtherAtom(length)
  <2>1. off' \in Int /\ (off' < 0 \/ off <= off')
    <3>1. CASE off + length < Half
      BY <1>2, <1>3, <1>6, <3>1, Int64Fits DEF OtherAtom, Wide
    <3>2. CASE off + length >= Half
      BY <1>2, <1>3, <1>6, <3>2, WrapsNegative DEF OtherAtom
    <3> QED
      BY <1>2, <1>3, <3>1, <3>2
  <2> QED
    BY <1>3, <1>6, <2>1 DEF OtherAtom, Scanning, DateIsTheVideos
<1>7. CASE FoundMoov(length, headerLen)
  <2>1. Int64(off + headerLen) \in Int /\ Int64(off + length) \in Int
    BY <1>2, <1>3, Int64InRange DEF Wide
  <2> QED
    BY <1>3, <1>7, <2>1 DEF FoundMoov, DateIsTheVideos
<1>8. CASE FoundMvhd(headerLen)
  <2>1. Int64(off + headerLen) \in Int
    BY <1>2, <1>3, Int64InRange DEF Wide
  <2> QED
    BY <1>3, <1>4, <1>8, <2>1 DEF FoundMvhd, DateIsTheVideos
<1> QED
  BY <1>1, <1>2, <1>5, <1>6, <1>7, <1>8 DEF Malformed

LEMMA ReadMvhdKeeps == DateInv /\ ReadMvhd => DateInv'
<1> SUFFICES ASSUME DateInv, ReadMvhd PROVE DateInv'
  OBVIOUS
<1> USE DEF DateInv
<1>1. CASE FallBack
  BY <1>1 DEF ReadMvhd, FallBack, DateIsTheVideos
<1>2. CASE /\ at = "head" /\ secs' \in Times \ {0}
           /\ date' = Int64(Int64(secs') * Second)
           /\ at' = "done" /\ source' = "mp4"
           /\ UNCHANGED <<kind, size, off, end, moov, hdr>>
  <2>1. secs' \in Nat /\ secs' # 0 /\ Second \in Nat \ {0} /\ Half \in Nat
    BY <1>2, WidthTyped
  <2>2. ASSUME secs' * Second < Half PROVE date' = secs' * Second
    <3>1. \A x \in Nat, y \in Nat \ {0} : x <= x * y /\ x * y \in Nat
      <4> SUFFICES ASSUME NEW x \in Nat, NEW y \in Nat \ {0}
                   PROVE  x <= x * y /\ x * y \in Nat
        OBVIOUS
      <4>1. PICK z \in Nat : y = z + 1
        BY y - 1 \in Nat
      <4>2. x * z \in Nat /\ x * y = x * z + x
        BY <4>1
      <4> QED
        BY <4>2
    <3>2. secs' <= secs' * Second /\ secs' * Second \in Nat
      BY <2>1, <3>1
    <3>3. secs' \in Wide /\ secs' * Second \in Wide
      <4> DEFINE product == secs' * Second
      <4> HIDE DEF product
      <4>1. product \in Nat /\ product < Half /\ secs' <= product
        BY <2>2, <3>2 DEF product
      <4>2. secs' \in Wide /\ product \in Wide
        BY <2>1, <4>1 DEF Wide
      <4> QED
        BY <4>2 DEF product
    <3>4. Int64(secs') = secs' /\ Int64(secs' * Second) = secs' * Second
      BY <3>3, Int64Fits
    <3> QED
      BY <1>2, <3>4
  <2> QED
    BY <1>2, <2>1, <2>2 DEF DateIsTheVideos
<1> QED
  BY <1>1, <1>2 DEF ReadMvhd

LEMMA DateInvStep == DateInv /\ [Select \/ Dated]_placement => DateInv'
<1> SUFFICES ASSUME DateInv, [Select \/ Dated]_placement PROVE DateInv'
  OBVIOUS
<1>1. CASE UNCHANGED dateVars
  BY <1>1 DEF dateVars, DateInv, DateIsTheVideos
<1>2. CASE DateOf
  BY <1>2, WidthTyped DEF DateOf, FallBack, DateInv, DateIsTheVideos
<1>3. CASE NotFound
  BY <1>3 DEF NotFound, Scanning, FallBack, DateInv, DateIsTheVideos
<1> QED
  BY <1>1, <1>2, <1>3, FindAtomKeeps, ReadMvhdKeeps
     DEF Select, Dated, DateNext, placement

\* Whatever the card holds where a header should be, a date said to be the
\* video's was read from its mvhd, and is what was written there as far as a
\* Duration can hold it: for 64 bits as for any other width.
THEOREM DateIsRight == PlacementSpec => []DateIsTheVideos
<1>1. DateInv => DateIsTheVideos
  BY DEF DateInv
<1> QED
  BY <1>1, DateInvInit, DateInvStep, PTL DEF PlacementSpec

\* What is left to walk: nothing where no header can be read.
Remaining == IF Readable(off, 8) THEN size - off ELSE 0

WalksOn ==
    \/ at' \notin {"moov", "mvhd"}
    \/ at = "moov" /\ at' = "mvhd"
    \/ /\ at' = at
       /\ Remaining \in Nat /\ Remaining' \in Nat /\ Remaining' < Remaining

\* No two headers of one region are read at the same offset, nor is one read
\* behind another: a size that overflows leads to where nothing can be read.
LEMMA WalkStep == DateInv /\ Scanning /\ DateNext => WalksOn
<1> SUFFICES ASSUME DateInv, Scanning, DateNext PROVE WalksOn
  OBVIOUS
<1>1. CASE FallBack
  BY <1>1 DEF FallBack, WalksOn
<1>2. CASE FindAtom
  <2>1. PICK length \in -Half .. Half - 1, headerLen \in {8, 16} :
            /\ Header(length, headerLen)
            /\ IF Malformed(length, headerLen) THEN FallBack
               ELSE \/ OtherAtom(length)
                    \/ FoundMoov(length, headerLen)
                    \/ FoundMvhd(headerLen)
    BY <1>2 DEF FindAtom
  <2>2. /\ Half \in Nat \ {0} /\ length \in Int /\ off \in Int /\ size \in Int
        /\ size <= Half - 16 /\ Readable(off, 8)
    BY <1>2, WidthTyped DEF FindAtom, DateInv
  <2>3. off >= 0 /\ off + 8 <= size
    BY <2>2 DEF Readable
  <2>4. CASE length >= headerLen /\ OtherAtom(length)
    <3>1. off' \in Int /\ (off' < 0 \/ off < off') /\ size' = size /\ at' = at
      <4>1. CASE off + length < Half
        <5>1. off + length \in Wide
          BY <2>1, <2>2, <2>3, <2>4, <4>1 DEF Wide
        <5> QED
          BY <2>1, <2>2, <2>4, <5>1, Int64Fits DEF OtherAtom
      <4>2. CASE off + length >= Half
        <5>1. off + length \in Half .. 2 * Half - 1
          BY <2>1, <2>2, <2>3, <4>2
        <5> QED
          BY <2>4, <5>1, WrapsNegative DEF OtherAtom
      <4> QED
        BY <2>2, <4>1, <4>2
    <3>2. Remaining = size - off
      BY <2>2 DEF Remaining
    <3>3. Remaining' \in Nat /\ Remaining' < size - off
      <4>1. Remaining' = IF off' >= 0 /\ off' + 8 <= size
                         THEN size - off' ELSE 0
        BY <2>2, <3>1 DEF Remaining, Readable
      <4>2. size - off >= 8
        BY <2>2, <2>3
      <4>3. CASE off' >= 0 /\ off' + 8 <= size
        <5>1. Remaining' = size - off'
          BY <4>1, <4>3
        <5>2. off' \in Int /\ off < off'
          BY <3>1, <4>3
        <5>3. \A n, m, k \in Int : m < k /\ k + 8 <= n =>
                  n - k \in Nat /\ n - k < n - m
          OBVIOUS
        <5> QED
          BY <2>2, <4>3, <5>1, <5>2, <5>3
      <4>4. CASE ~(off' >= 0 /\ off' + 8 <= size)
        BY <2>2, <4>1, <4>2, <4>4
      <4> QED
        BY <4>3, <4>4
    <3> QED
      BY <2>2, <2>3, <3>1, <3>2, <3>3 DEF WalksOn
  <2>5. CASE FoundMoov(length, headerLen) \/ FoundMvhd(headerLen)
    BY <2>5 DEF FoundMoov, FoundMvhd, WalksOn
  <2> QED
    BY <1>1, <2>1, <2>2, <2>4, <2>5 DEF Malformed
<1> QED
  BY <1>1, <1>2 DEF DateNext, DateOf, NotFound, ReadMvhd, Scanning

\* Every step of the walk ends it, goes from the file into the moov, once, or
\* leaves less to be walked, whatever sizes the headers claim and for any width
\* of the integers.
THEOREM WalkMovesOn ==
    PlacementSpec => [][Scanning /\ DateNext => WalksOn]_placement
<1>1. DateInv /\ [Select \/ Dated]_placement =>
          [Scanning /\ DateNext => WalksOn]_placement
  BY WalkStep
<1> QED
  BY <1>1, DateInvInit, DateInvStep, PTL DEF PlacementSpec

-----------------------------------------------------------------------------
(* The rules.                                                              *)

\* An entry that is a rule.
Plain(r) == r.default = ""

\* The compiled rules cs are those among the first n entries of rs that set no
\* default, in their order; f says where each was.
Picks(rs, cs, f, n) ==
    /\ \A k \in 1 .. Len(cs) : Plain(rs[f[k]]) /\ cs[k] = rs[f[k]]
    /\ \A k, l \in 1 .. Len(cs) : k < l => f[k] < f[l]
    /\ \A m \in 1 .. n : Plain(rs[m]) =>
          \E k \in 1 .. Len(cs) : f[k] = m

Picked(rs, cs, n) == \E f \in [1 .. Len(cs) -> 1 .. n] : Picks(rs, cs, f, n)

\* The action d for what no rule matches is that of the last default.
Defaulted(rs, d, n) ==
    \/ d = "skip" /\ \A m \in 1 .. n : Plain(rs[m])
    \/ \E m \in 1 .. n :
          /\ ~Plain(rs[m]) /\ d = rs[m].default
          /\ \A l \in m + 1 .. n : Plain(rs[l])

LEMMA PickedNone == \A rs : Picked(rs, <<>>, 0)
<1> SUFFICES ASSUME NEW rs PROVE Picked(rs, <<>>, 0)
  OBVIOUS
<1>1. Len(<<>>) = 0
  OBVIOUS
<1>2. [k \in 1 .. 0 |-> k] \in [1 .. Len(<<>>) -> 1 .. 0]
  BY <1>1
<1>3. Picks(rs, <<>>, [k \in 1 .. 0 |-> k], 0)
  BY <1>1 DEF Picks
<1> QED
  BY <1>2, <1>3 DEF Picked

\* An entry that sets a default changes nothing of that,
LEMMA PickedDefault ==
    ASSUME NEW R, NEW rs \in Seq(R), NEW cs \in Seq(R),
           NEW n \in 1 .. Len(rs), ~Plain(rs[n]), Picked(rs, cs, n - 1)
    PROVE  Picked(rs, cs, n)
<1> Len(cs) \in Nat /\ Len(rs) \in Nat /\ n \in Nat
  OBVIOUS
<1>1. PICK f \in [1 .. Len(cs) -> 1 .. n - 1] : Picks(rs, cs, f, n - 1)
  BY DEF Picked
<1>2. f \in [1 .. Len(cs) -> 1 .. n]
  OBVIOUS
<1>3. ASSUME NEW j \in 1 .. n, Plain(rs[j])
      PROVE  \E k \in 1 .. Len(cs) : f[k] = j
  <2>1. j \in 1 .. n - 1
    BY <1>3
  <2> QED
    BY <1>1, <1>3, <2>1 DEF Picks
<1>4. Picks(rs, cs, f, n)
  BY <1>1, <1>3 DEF Picks
<1> QED
  BY <1>2, <1>4 DEF Picked

\* and a rule goes to the end.
LEMMA PickedRule ==
    ASSUME NEW R, NEW rs \in Seq(R), NEW cs \in Seq(R),
           NEW n \in 1 .. Len(rs), Plain(rs[n]), Picked(rs, cs, n - 1)
    PROVE  Picked(rs, Append(cs, rs[n]), n)
<1> DEFINE m == Len(cs)
           ds == Append(cs, rs[n])
<1>1. PICK f \in [1 .. m -> 1 .. n - 1] : Picks(rs, cs, f, n - 1)
  BY DEF Picked
<1>2. /\ m \in Nat /\ Len(ds) = m + 1 /\ ds[m + 1] = rs[n]
      /\ \A k \in 1 .. m : ds[k] = cs[k]
  <2>1. Len(rs) \in Nat /\ rs[n] \in R
    OBVIOUS
  <2> QED
    BY <2>1
<1> Len(rs) \in Nat /\ n \in Nat
  OBVIOUS
<1> DEFINE g == [k \in 1 .. m + 1 |-> IF k <= m THEN f[k] ELSE n]
<1>3. g[m + 1] = n /\ \A k \in 1 .. m : g[k] = f[k] /\ f[k] \in 1 .. n - 1
  <2>1. g[m + 1] = n
    BY <1>2
  <2>2. \A k \in 1 .. m : g[k] = f[k]
    BY <1>2
  <2>3. \A k \in 1 .. m : f[k] \in 1 .. n - 1
    OBVIOUS
  <2> QED
    BY <2>1, <2>2, <2>3
<1>4. g \in [1 .. m + 1 -> 1 .. n]
  BY <1>2
<1> HIDE DEF g, ds, m
<1>5. ASSUME NEW k \in 1 .. m + 1
      PROVE  Plain(rs[g[k]]) /\ ds[k] = rs[g[k]]
  <2>1. CASE k \in 1 .. m
    BY <1>1, <1>2, <1>3, <2>1 DEF Picks, m
  <2>2. CASE k = m + 1
    BY <1>2, <1>3, <2>2
  <2> QED
    BY <1>2, <2>1, <2>2
<1>6. ASSUME NEW k \in 1 .. m + 1, NEW l \in 1 .. m + 1, k < l
      PROVE  g[k] < g[l]
  <2>1. k \in 1 .. m /\ g[k] = f[k] /\ f[k] \in 1 .. n - 1
    BY <1>2, <1>3, <1>6
  <2>2. CASE l \in 1 .. m
    BY <1>1, <1>3, <1>6, <2>1, <2>2 DEF Picks, m
  <2>3. CASE l = m + 1
    BY <1>3, <2>1, <2>3
  <2> QED
    BY <1>2, <2>2, <2>3
<1>7. ASSUME NEW j \in 1 .. n, Plain(rs[j])
      PROVE  \E k \in 1 .. m + 1 : g[k] = j
  <2>1. CASE j = n
    BY <1>2, <1>3, <2>1
  <2>2. CASE j \in 1 .. n - 1
    <3>1. PICK k \in 1 .. m : f[k] = j
      BY <1>1, <1>7, <2>2 DEF Picks, m
    <3>2. k \in 1 .. m + 1 /\ g[k] = j
      BY <1>2, <1>3, <3>1
    <3> QED
      BY <3>2
  <2> QED
    BY <2>1, <2>2
<1>8. Picks(rs, ds, g, n)
  BY <1>2, <1>5, <1>6, <1>7 DEF Picks
<1> QED
  BY <1>2, <1>4, <1>8 DEF Picked, ds

\* The first compiled rule that matches a file is the first such entry of the
\* list, and when none does, no entry does.
Fitting(rs, e) ==
    {k \in 1 .. Len(rs) : Plain(rs[k]) /\ Matches(rs[k], e)}

LEMMA FirstIsLeast ==
    ASSUME NEW S \in SUBSET Int, NEW x \in S, \A y \in S : x <= y
    PROVE  First(S) = x
<1>1. /\ First(S) \in S
      /\ \A y \in S : First(S) <= y
  BY DEF First
<1>2. First(S) <= x /\ x <= First(S) /\ First(S) \in Int
  BY <1>1
<1> QED
  BY <1>2

LEMMA LastIsGreatest ==
    ASSUME NEW S \in SUBSET Int, NEW x \in S, \A y \in S : y <= x
    PROVE  Last(S) = x
<1>1. /\ Last(S) \in S
      /\ \A y \in S : y <= Last(S)
  BY DEF Last
<1>2. Last(S) <= x /\ x <= Last(S) /\ Last(S) \in Int
  BY <1>1
<1> QED
  BY <1>2

LEMMA FirstFitting ==
    ASSUME NEW R, NEW rs \in Seq(R), NEW cs \in Seq(R), NEW e,
           Picked(rs, cs, Len(rs)), NEW k \in 1 .. Len(cs), Matches(cs[k], e),
           \A l \in 1 .. k - 1 : ~Matches(cs[l], e)
    PROVE  Fitting(rs, e) # {} /\ rs[First(Fitting(rs, e))] = cs[k]
<1> Len(cs) \in Nat /\ Len(rs) \in Nat
  OBVIOUS
<1>1. PICK f \in [1 .. Len(cs) -> 1 .. Len(rs)] : Picks(rs, cs, f, Len(rs))
  BY DEF Picked
<1>2. f[k] \in Fitting(rs, e) /\ cs[k] = rs[f[k]]
  BY <1>1 DEF Picks, Fitting
<1>3. ASSUME NEW y \in Fitting(rs, e) PROVE f[k] <= y
  <2>1. PICK l \in 1 .. Len(cs) : f[l] = y
    BY <1>1 DEF Picks, Fitting
  <2>2. Matches(cs[l], e)
    BY <1>1, <2>1 DEF Picks, Fitting
  <2>3. l = k \/ k < l
    BY <2>2
  <2>4. k < l => f[k] < f[l]
    BY <1>1 DEF Picks
  <2>5. f[k] \in Int /\ f[l] \in Int
    BY <1>1
  <2> QED
    BY <2>1, <2>3, <2>4, <2>5
<1>4. Fitting(rs, e) \subseteq Int
  BY DEF Fitting
<1> QED
  BY <1>2, <1>3, <1>4, FirstIsLeast

LEMMA NoneFitting ==
    ASSUME NEW R, NEW rs \in Seq(R), NEW cs \in Seq(R), NEW e,
           Picked(rs, cs, Len(rs)), \A l \in 1 .. Len(cs) : ~Matches(cs[l], e)
    PROVE  Fitting(rs, e) = {}
<1> Len(cs) \in Nat /\ Len(rs) \in Nat
  OBVIOUS
<1>1. PICK f \in [1 .. Len(cs) -> 1 .. Len(rs)] : Picks(rs, cs, f, Len(rs))
  BY DEF Picked
<1> QED
  BY <1>1 DEF Picks, Fitting

\* Likewise the default.
LEMMA DefaultedStep ==
    ASSUME NEW rs, NEW d, NEW n \in Nat \ {0}, Defaulted(rs, d, n - 1)
    PROVE  /\ Plain(rs[n]) => Defaulted(rs, d, n)
           /\ ~Plain(rs[n]) => Defaulted(rs, rs[n].default, n)
<1>1. ASSUME ~Plain(rs[n]) PROVE Defaulted(rs, rs[n].default, n)
  BY <1>1 DEF Defaulted
<1>2. ASSUME Plain(rs[n]) PROVE Defaulted(rs, d, n)
  <2>1. CASE d = "skip" /\ \A m \in 1 .. n - 1 : Plain(rs[m])
    <3>1. \A m \in 1 .. n : Plain(rs[m])
      BY <1>2, <2>1
    <3> QED
      BY <2>1, <3>1 DEF Defaulted
  <2>2. ASSUME NEW m \in 1 .. n - 1, ~Plain(rs[m]), d = rs[m].default,
               \A l \in m + 1 .. n - 1 : Plain(rs[l])
        PROVE  Defaulted(rs, d, n)
    <3>1. \A l \in m + 1 .. n : Plain(rs[l])
      BY <1>2, <2>2
    <3>2. m \in 1 .. n
      OBVIOUS
    <3> QED
      BY <2>2, <3>1, <3>2 DEF Defaulted
  <2> QED
    BY <2>1, <2>2 DEF Defaulted
<1> QED
  BY <1>1, <1>2

LEMMA DefaultIsLast ==
    ASSUME NEW R, NEW rs \in Seq(R), NEW d, Defaulted(rs, d, Len(rs))
    PROVE  LET set == {k \in 1 .. Len(rs) : ~Plain(rs[k])}
           IN  d = IF set # {} THEN rs[Last(set)].default ELSE "skip"
<1> DEFINE set == {k \in 1 .. Len(rs) : ~Plain(rs[k])}
<1> Len(rs) \in Nat
  OBVIOUS
<1>1. CASE d = "skip" /\ \A m \in 1 .. Len(rs) : Plain(rs[m])
  BY <1>1
<1>2. ASSUME NEW m \in 1 .. Len(rs), ~Plain(rs[m]), d = rs[m].default,
             \A l \in m + 1 .. Len(rs) : Plain(rs[l])
      PROVE  d = IF set # {} THEN rs[Last(set)].default ELSE "skip"
  <2>1. set \in SUBSET Int /\ m \in set /\ \A y \in set : y <= m
    BY <1>2
  <2>2. Last(set) = m
    BY <2>1, LastIsGreatest
  <2> QED
    BY <1>2, <2>1, <2>2
<1> QED
  BY <1>1, <1>2 DEF Defaulted

-----------------------------------------------------------------------------
(* Compile and Decide.                                                     *)

Actions == {"keep", "skip"}

RulesTyped ==
    /\ rules \in Seq(RuleEntries)
    /\ step \in {"compile", "rejected", "decide", "categorize", "done"}
    /\ engine \in [rules : Seq(RuleEntries), default : Actions]
    /\ decision \in Actions \cup {None}
    /\ i \in 1 .. Len(rules) + 1
    /\ Len(engine.rules) <= Len(rules)
    /\ \A k \in 1 .. Len(engine.rules) : engine.rules[k].action \in Actions

\* While the list is compiled the entries before i are; once it is, the rules
\* before i do not match.
RulesInv ==
    /\ RulesTyped
    /\ step = "compile" =>
          /\ Len(engine.rules) < i
          /\ Picked(rules, engine.rules, i - 1)
          /\ Defaulted(rules, engine.default, i - 1)
    /\ step = "decide" =>
          /\ rules = <<>> => engine.rules = <<>> /\ engine.default = "keep"
          /\ rules # <<>> =>
                /\ Picked(rules, engine.rules, Len(rules))
                /\ Defaulted(rules, engine.default, Len(rules))
          /\ i - 1 <= Len(engine.rules)
          /\ \A k \in 1 .. i - 1 : ~Matches(engine.rules[k], file)
    /\ step \in {"compile", "decide", "rejected"} => decision = None
    /\ FirstMatchWins

LEMMA RulesInvInit == PlacementInit => RulesInv
<1> SUFFICES ASSUME PlacementInit PROVE RulesInv
  OBVIOUS
<1>1. /\ rules \in Seq(RuleEntries) /\ step = "compile" /\ i = 1
      /\ engine = [rules |-> <<>>, default |-> "skip"] /\ decision = None
  BY PoliciesTyped DEF PlacementInit, Init
<1>2. Picked(rules, <<>>, 0) /\ Defaulted(rules, "skip", 0)
  BY PickedNone DEF Defaulted
<1>3. RulesTyped
  BY <1>1 DEF RulesTyped, Actions
<1> QED
  BY <1>1, <1>2, <1>3 DEF RulesInv, FirstMatchWins

LEMMA CompileDefaultKeeps == RulesInv /\ CompileDefault => RulesInv'
<1> SUFFICES ASSUME RulesInv, CompileDefault PROVE RulesInv'
  OBVIOUS
<1>1. /\ step = "compile" /\ i \in 1 .. Len(rules) /\ ~Plain(rules[i])
      /\ UNCHANGED <<rules, file, decision>> /\ decision = None
  <2>1. ~Plain(rules[i]) /\ i <= Len(rules) /\ step = "compile"
    BY DEF CompileDefault, Plain
  <2>2. UNCHANGED <<rules, file, decision>>
    BY DEF CompileDefault, given
  <2>3. decision = None /\ i \in 1 .. Len(rules) + 1 /\ Len(rules) \in Nat
    BY <2>1 DEF RulesInv, RulesTyped
  <2> QED
    BY <2>1, <2>2, <2>3
<1>2. FirstMatchWins'
  BY <1>1 DEF FirstMatchWins
<1>3. CASE step' = "rejected" /\ UNCHANGED <<i, engine>>
  BY <1>1, <1>2, <1>3 DEF RulesInv, RulesTyped
<1>4. CASE /\ rules[i].default \in Actions
           /\ engine' = [engine EXCEPT !.default = rules[i].default]
           /\ i' = i + 1 /\ step' = step
  <2>1. /\ engine'.rules = engine.rules /\ engine'.default = rules[i].default
        /\ engine' \in [rules : Seq(RuleEntries), default : Actions]
    BY <1>4 DEF RulesInv, RulesTyped
  <2>2. RulesTyped'
    BY <1>1, <1>4, <2>1 DEF RulesInv, RulesTyped
  <2>3. Picked(rules, engine.rules, i)
    BY <1>1, PickedDefault DEF RulesInv, RulesTyped, Plain
  <2>4. Defaulted(rules, rules[i].default, i)
    <3>1. i \in Nat \ {0} /\ Defaulted(rules, engine.default, i - 1)
      BY <1>1 DEF RulesInv, RulesTyped
    <3> QED
      BY <1>1, <3>1, DefaultedStep
  <2>5. i' - 1 = i /\ Len(engine'.rules) < i'
    BY <1>1, <1>4, <2>1 DEF RulesInv, RulesTyped
  <2> QED
    BY <1>1, <1>2, <1>4, <2>1, <2>2, <2>3, <2>4, <2>5 DEF RulesInv
<1> QED
  BY <1>3, <1>4 DEF CompileDefault, ParseAction, Actions

LEMMA CompileRuleKeeps == RulesInv /\ CompileRule => RulesInv'
<1> SUFFICES ASSUME RulesInv, CompileRule PROVE RulesInv'
  OBVIOUS
<1>1. /\ step = "compile" /\ i \in 1 .. Len(rules) /\ Plain(rules[i])
      /\ UNCHANGED <<rules, file, decision>> /\ decision = None
  <2>1. Plain(rules[i]) /\ i <= Len(rules) /\ step = "compile"
    BY DEF CompileRule, Plain
  <2>2. UNCHANGED <<rules, file, decision>>
    BY DEF CompileRule, given
  <2>3. decision = None /\ i \in 1 .. Len(rules) + 1 /\ Len(rules) \in Nat
    BY <2>1 DEF RulesInv, RulesTyped
  <2> QED
    BY <2>1, <2>2, <2>3
<1>2. FirstMatchWins'
  BY <1>1 DEF FirstMatchWins
<1>3. CASE step' = "rejected" /\ UNCHANGED <<i, engine>>
  BY <1>1, <1>2, <1>3 DEF RulesInv, RulesTyped
<1>4. CASE /\ rules[i].action \in Actions
           /\ engine' = [engine EXCEPT !.rules = Append(@, rules[i])]
           /\ i' = i + 1 /\ step' = step
  <2>1. /\ engine.rules \in Seq(RuleEntries) /\ rules \in Seq(RuleEntries)
        /\ rules[i] \in RuleEntries /\ Len(engine.rules) < i
        /\ Len(rules) \in Nat /\ Len(engine.rules) \in Nat
    BY <1>1 DEF RulesInv, RulesTyped
  <2>2. /\ engine'.rules = Append(engine.rules, rules[i])
        /\ engine'.default = engine.default
        /\ engine' \in [rules : Seq(RuleEntries), default : Actions]
    <3>1. Append(engine.rules, rules[i]) \in Seq(RuleEntries)
      BY <2>1
    <3>2. engine \in [rules : Seq(RuleEntries), default : Actions]
      BY DEF RulesInv, RulesTyped
    <3> QED
      BY <1>4, <3>1, <3>2
  <2>3. /\ Len(engine'.rules) = Len(engine.rules) + 1
        /\ \A k \in 1 .. Len(engine'.rules) :
              engine'.rules[k] = IF k <= Len(engine.rules)
                                 THEN engine.rules[k] ELSE rules[i]
    BY <2>1, <2>2
  <2>4. RulesTyped'
    BY <1>1, <1>4, <2>1, <2>2, <2>3 DEF RulesInv, RulesTyped
  <2>5. Picked(rules, Append(engine.rules, rules[i]), i)
    BY <1>1, <2>1, PickedRule DEF RulesInv, Plain
  <2>6. Defaulted(rules, engine.default, i)
    BY <1>1, <2>1, DefaultedStep DEF RulesInv
  <2>7. i' - 1 = i /\ Len(engine'.rules) < i'
    BY <1>1, <1>4, <2>1, <2>3
  <2> QED
    BY <1>1, <1>2, <1>4, <2>2, <2>4, <2>5, <2>6, <2>7 DEF RulesInv
<1> QED
  BY <1>3, <1>4 DEF CompileRule, ParseAction, Actions

\* With no rules at all everything is kept; otherwise the rules are as compiled.
LEMMA CompiledKeeps == RulesInv /\ (KeepAll \/ Compiled) => RulesInv'
<1> SUFFICES ASSUME RulesInv, KeepAll \/ Compiled PROVE RulesInv'
  OBVIOUS
<1>1. CASE KeepAll
  <2>1. /\ rules = <<>> /\ step = "compile" /\ step' = "decide"
        /\ engine'.rules = engine.rules /\ engine'.default = "keep"
        /\ engine' \in [rules : Seq(RuleEntries), default : Actions]
        /\ UNCHANGED <<rules, file, i, decision>>
    BY <1>1 DEF KeepAll, given, RulesInv, RulesTyped, Actions
  <2>2. i = 1 /\ Len(engine.rules) = 0 /\ engine.rules \in Seq(RuleEntries)
    BY <2>1 DEF RulesInv, RulesTyped
  <2>3. engine.rules = <<>>
    BY <2>2
  <2>4. RulesTyped'
    BY <2>1 DEF RulesInv, RulesTyped
  <2>5. FirstMatchWins'
    BY <2>1 DEF FirstMatchWins, RulesInv
  <2> QED
    BY <2>1, <2>2, <2>3, <2>4, <2>5 DEF RulesInv
<1>2. CASE Compiled
  <2>1. /\ rules # <<>> /\ i > Len(rules) /\ i' = 1
        /\ step = "compile" /\ step' = "decide"
        /\ UNCHANGED <<rules, file, engine, decision>>
    BY <1>2 DEF Compiled, given
  <2>2. i - 1 = Len(rules) /\ Len(engine.rules) \in Nat /\ Len(rules) \in Nat
    BY <2>1 DEF RulesInv, RulesTyped
  <2>3. RulesTyped'
    BY <2>1, <2>2 DEF RulesInv, RulesTyped
  <2>4. FirstMatchWins'
    BY <2>1 DEF FirstMatchWins, RulesInv
  <2> QED
    BY <2>1, <2>2, <2>3, <2>4 DEF RulesInv
<1> QED
  BY <1>1, <1>2

\* The loop goes on past a rule that does not match; it ends with the first
\* that does, or with the default.
LEMMA DecideKeeps == RulesInv /\ Decide => RulesInv'
<1> SUFFICES ASSUME RulesInv, Decide PROVE RulesInv'
  OBVIOUS
<1> DEFINE cs == engine.rules
           hit == i <= Len(cs) /\ Matches(cs[i], file)
           action == IF hit THEN cs[i].action ELSE engine.default
<1>1. /\ step = "decide" /\ decision = None
      /\ UNCHANGED <<rules, file, engine>>
      /\ rules \in Seq(RuleEntries) /\ cs \in Seq(RuleEntries)
      /\ Len(cs) \in Nat /\ Len(rules) \in Nat /\ Len(cs) <= Len(rules)
      /\ i \in 1 .. Len(cs) + 1 /\ i \in Nat
      /\ \A k \in 1 .. i - 1 : ~Matches(cs[k], file)
  BY DEF Decide, given, RulesInv, RulesTyped
<1>2. \/ /\ i <= Len(cs) /\ ~hit
         /\ i' = i + 1 /\ UNCHANGED <<step, decision>>
      \/ /\ hit \/ i > Len(cs)
         /\ decision' = action
         /\ step' \in {"categorize", "done"} /\ i' = i
  BY <1>1 DEF Decide
<1> HIDE DEF hit
<1>3. CASE i <= Len(cs) /\ ~hit /\ i' = i + 1 /\ UNCHANGED <<step, decision>>
  <2>1. \A k \in 1 .. i' - 1 : ~Matches(cs[k], file)
    BY <1>1, <1>3 DEF hit
  <2>2. RulesTyped'
    BY <1>1, <1>3 DEF RulesInv, RulesTyped
  <2>3. FirstMatchWins'
    BY <1>1, <1>3 DEF FirstMatchWins, RulesInv
  <2> QED
    BY <1>1, <1>3, <2>1, <2>2, <2>3 DEF RulesInv
<1>4. CASE /\ hit \/ i > Len(cs)
           /\ decision' = action
           /\ step' \in {"categorize", "done"} /\ i' = i
  <2>1. action \in Actions
    BY <1>1 DEF RulesInv, RulesTyped, hit
  <2>2. RulesTyped'
    BY <1>1, <1>4, <2>1 DEF RulesInv, RulesTyped
  <2>3. /\ Hits = Fitting(rules, file)
        /\ Defaults = {k \in 1 .. Len(rules) : ~Plain(rules[k])}
    <3>1. DOMAIN rules = 1 .. Len(rules)
      BY <1>1
    <3>2. \A r : Plain(r) <=> r.default = ""
      BY DEF Plain
    <3> QED
      BY <3>1, <3>2 DEF Hits, Fitting, Defaults
  <2>4. action = IF rules = <<>> THEN "keep"
                 ELSE IF Hits # {} THEN rules[First(Hits)].action
                 ELSE IF Defaults # {} THEN rules[Last(Defaults)].default
                 ELSE "skip"
    <3>1. CASE rules = <<>>
      BY <1>1, <3>1 DEF RulesInv, hit
    <3>2. CASE rules # <<>> /\ hit
      <4>1. Hits # {} /\ rules[First(Hits)] = cs[i]
        <5>1. i \in 1 .. Len(cs) /\ Matches(cs[i], file)
          BY <1>1, <3>2 DEF hit
        <5>2. Picked(rules, cs, Len(rules))
          BY <1>1, <3>2 DEF RulesInv
        <5> QED
          BY <1>1, <2>3, <5>1, <5>2, FirstFitting
      <4> QED
        BY <3>2, <4>1
    <3>3. CASE rules # <<>> /\ ~hit
      <4>1. \A l \in 1 .. Len(cs) : ~Matches(cs[l], file)
        BY <1>1, <1>4, <3>3
      <4>2. Hits = {}
        BY <1>1, <2>3, <3>3, <4>1, NoneFitting DEF RulesInv
      <4>3. engine.default =
               IF Defaults # {} THEN rules[Last(Defaults)].default ELSE "skip"
        BY <1>1, <2>3, <3>3, DefaultIsLast DEF RulesInv
      <4> QED
        BY <3>3, <4>2, <4>3
    <3> QED
      BY <3>1, <3>2, <3>3
  <2>5. FirstMatchWins'
    BY <1>1, <1>4, <2>4 DEF FirstMatchWins, Hits, Defaults
  <2> QED
    BY <1>4, <2>2, <2>5 DEF RulesInv
<1> QED
  BY <1>2, <1>3, <1>4

LEMMA RulesInvStep == RulesInv /\ [Select \/ Dated]_placement => RulesInv'
<1> SUFFICES ASSUME RulesInv, [Select \/ Dated]_placement PROVE RulesInv'
  OBVIOUS
<1>1. CASE UNCHANGED vars
  BY <1>1 DEF vars, RulesInv, RulesTyped, FirstMatchWins, Hits, Defaults
<1>2. CASE Categorize \/ CategorizeEnds
  <2>1. /\ step = "categorize" /\ step' \in {"categorize", "done"}
        /\ UNCHANGED <<rules, file, i, engine, decision>>
    BY <1>2 DEF Categorize, CategorizeEnds, given
  <2>2. FirstMatchWins'
    BY <2>1 DEF RulesInv, FirstMatchWins, Hits, Defaults
  <2>3. RulesTyped'
    BY <2>1 DEF RulesInv, RulesTyped
  <2> QED
    BY <2>1, <2>2, <2>3 DEF RulesInv
<1> QED
  BY <1>1, <1>2, CompileDefaultKeeps, CompileRuleKeeps, CompiledKeeps,
     DecideKeeps DEF Select, Next, Dated, placement

\* For every list of rules and every file, the loops of Compile and Decide
\* come to what the comments say: the first match, else the last default, else
\* skip, and keep without any rules.
THEOREM FirstMatchDecides == PlacementSpec => []FirstMatchWins
<1>1. RulesInv => FirstMatchWins
  BY DEF RulesInv
<1> QED
  BY <1>1, RulesInvInit, RulesInvStep, PTL DEF PlacementSpec

-----------------------------------------------------------------------------
(* categorize.                                                             *)

\* None of the categories the loop has met lists the extension, and if any of
\* them is a catch-all, one is remembered.
CategoryInv ==
    /\ left \subseteq Categories
    /\ {catchAll, category} \subseteq Categories \cup {None}
    /\ step \in {"compile", "decide"} => left = Categories /\ catchAll = None
    /\ step = "categorize" =>
          /\ \A c \in Categories \ left : file.ext \notin cats[c]
          /\ \/ catchAll \in Categories /\ Any \in cats[catchAll]
             \/ /\ catchAll = None
                /\ \A c \in Categories \ left : Any \notin cats[c]
    /\ ExplicitCategoryWins

LEMMA CategoryInvInit == PlacementInit => CategoryInv
BY DEF PlacementInit, Init, CategoryInv, ExplicitCategoryWins

LEMMA CategoryInvStep ==
    CategoryInv /\ [Select \/ Dated]_placement => CategoryInv'
<1> SUFFICES ASSUME CategoryInv, [Select \/ Dated]_placement
             PROVE  CategoryInv'
  OBVIOUS
<1> USE DEF CategoryInv, ExplicitCategoryWins, given
<1>1. CASE UNCHANGED vars
  BY <1>1 DEF vars
<1>2. CASE KeepAll \/ CompileDefault \/ CompileRule \/ Compiled
  BY <1>2 DEF KeepAll, CompileDefault, CompileRule, Compiled
<1>3. CASE Decide
  BY <1>3 DEF Decide
<1>4. CASE Categorize
  BY <1>4 DEF Categorize
<1>5. CASE CategorizeEnds
  BY <1>5 DEF CategorizeEnds
<1> QED
  BY <1>1, <1>2, <1>3, <1>4, <1>5 DEF Select, Next, Dated, placement

\* In whatever order the map of the categories is met, a file that is kept is
\* given a category of its own if there is one, else a catch-all, else none.
THEOREM OwnCategoryFirst == PlacementSpec => []ExplicitCategoryWins
<1>1. CategoryInv => ExplicitCategoryWins
  BY DEF CategoryInv
<1> QED
  BY <1>1, CategoryInvInit, CategoryInvStep, PTL DEF PlacementSpec

\* Every reachable state of the selection is well typed.
THEOREM SelectionTypeCorrect == PlacementSpec => []TypeOK
<1>1. RulesInv /\ CategoryInv => TypeOK
  BY DEF RulesInv, RulesTyped, CategoryInv, TypeOK, Actions
<1> QED
  BY <1>1, RulesInvInit, RulesInvStep, CategoryInvInit, CategoryInvStep, PTL
     DEF PlacementSpec

=============================================================================
