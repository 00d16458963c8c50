----------------------------- MODULE LmddProofs -----------------------------
(***************************************************************************)
(* Proofs about lmdd, for any command lines that main() lets through, any  *)
(* size of file and any failures: the offsets that rand= and norepeat=     *)
(* choose, and what is read, written, compared and reported.               *)
(***************************************************************************)
EXTENDS Lmdd, FiniteSetTheorems, TLAPS

-----------------------------------------------------------------------------
(* The offsets of lmdd.                                                    *)

LEMMA DivMono ==
  ASSUME NEW x \in Int, NEW y \in Int, NEW b \in Nat, b > 0, x <= y
  PROVE  (x \div b) * b <= (y \div b) * b
  OBVIOUS

LEMMA DivRounds ==
  ASSUME NEW x \in Int, NEW b \in Nat, b > 0
  PROVE  /\ (x \div b) * b \in Int
         /\ x - b < (x \div b) * b /\ (x \div b) * b <= x
  OBVIOUS

LEMMA DivShift ==
  ASSUME NEW x \in Int, NEW k \in Int, NEW b \in Nat, b > 0
  PROVE  ((x + k * b) \div b) * b = k * b + (x \div b) * b
<1>1. PICK q \in Int : q = x \div b
  OBVIOUS
<1>2. q * b <= x /\ x < q * b + b
  BY <1>1
<1>3. (k + q) * b = k * b + q * b
  OBVIOUS
<1>4. (x + k * b) \div b = k + q
  BY <1>2, <1>3
<1>. QED
  BY <1>1, <1>3, <1>4

\* Sizes rounded up to blocks.
Rounded(x, b) == ((x + b - 1) \div b) * b

LEMMA RoundedMono ==
  ASSUME NEW x \in Int, NEW y \in Int, NEW b \in Nat, b > 0, x <= y
  PROVE  Rounded(x, b) <= Rounded(y, b)
<1>1. x + b - 1 \in Int /\ y + b - 1 \in Int /\ x + b - 1 <= y + b - 1
  OBVIOUS
<1>. QED
  BY Zenon, <1>1, DivMono DEF Rounded

LEMMA RoundedUp ==
  ASSUME NEW x \in Int, NEW b \in Nat, b > 0
  PROVE  /\ Rounded(x, b) \in Int
         /\ x <= Rounded(x, b) /\ Rounded(x, b) <= x + b - 1
<1>1. PICK y \in Int : y = x + b - 1
  OBVIOUS
<1>2. PICK r \in Int : r = (y \div b) * b /\ y - b < r /\ r <= y
  BY DivRounds
<1>3. Rounded(x, b) = r
  BY <1>1, <1>2 DEF Rounded
<1>. QED
  BY <1>1, <1>2, <1>3

\* An offset of rand=, start= added, leaves a block before its end.
LEMMA RandomOffset ==
  ASSUME NEW b \in Nat, b > 0, NEW rand \in Int, NEW start \in Nat,
         NEW x \in Int, x <= Rounded(rand - b, b) - b - 1
  PROVE  Rounded(x + start, b) + b <= rand + Rounded(start, b)
<1>1. PICK k \in Int : k = (rand - b + b - 1) \div b
  OBVIOUS
<1>2. Rounded(rand - b, b) = k * b
  BY <1>1 DEF Rounded
<1>3. k * b \in Int /\ k * b <= rand - 1
  <2>1. rand - b \in Int
    OBVIOUS
  <2>2. Rounded(rand - b, b) \in Int
        /\ Rounded(rand - b, b) <= rand - b + b - 1
    BY <2>1, RoundedUp
  <2>. QED
    BY <2>2, <1>2
<1>4. PICK y \in Int : y = x + start + b - 1
  OBVIOUS
<1>5. PICK z \in Int : z = start + b - 1
  OBVIOUS
<1>6. y + b <= z + k * b
  BY <1>2, <1>3, <1>4, <1>5
<1>7. ((y + 1 * b) \div b) * b = 1 * b + (y \div b) * b
  BY DivShift
<1>8. ((z + k * b) \div b) * b = k * b + (z \div b) * b
  BY DivShift
<1>9. ((y + b) \div b) * b <= ((z + k * b) \div b) * b
  <2>1. y + b \in Int /\ z + k * b \in Int
    BY <1>3
  <2>. QED
    BY <2>1, <1>6, DivMono
<1>10. PICK u \in Int, v \in Int : u = (y \div b) * b /\ v = (z \div b) * b
  OBVIOUS
<1>11. u + b <= k * b + v
  <2>1. y + 1 * b = y + b /\ 1 * b = b
    OBVIOUS
  <2>. QED
    BY <2>1, <1>7, <1>8, <1>9, <1>10
<1>12. Rounded(x + start, b) = u /\ Rounded(start, b) = v
  BY <1>4, <1>5, <1>10 DEF Rounded
<1>. QED
  BY <1>3, <1>11, <1>12

-----------------------------------------------------------------------------

\* The first offset since norepeats was reset is not noted, and those after it
\* are.
Base == Len(visited) - norepeats
Noted ==
    cmd.norepeat =>
        /\ IF visited = <<>> THEN norepeats = -1 ELSE norepeats \in 0..Len(visited) - 1
        /\ Base = 1 \/ Base \in resets
        /\ \A i \in Base + 1..Len(visited) : seen[i - Base - 1] = visited[i]
        /\ \A i, j \in 1..Len(visited) :
              i < j /\ visited[i] = visited[j]
              => i = 1 \/ \E k \in resets : i <= k /\ k < j

\* What an offset is not to go beyond.
Fits(o) ==
    ~Underflow =>
        /\ o < cmd.rand + Offset0 + cmd.bs
        /\ PowerOfTwo(cmd.bs) =>
              o + cmd.bs <= cmd.rand + RoundedTo(Offset0)
                            + (IF cmd.end = None THEN 0
                               ELSE RoundedTo(cmd.end) - cmd.end + cmd.bs)

OffsetInv ==
    /\ cmd \in Commands
    /\ seen \in [0..Words -> Int] /\ visited \in Seq(Int)
    /\ Len(visited) <= Words
    /\ Noted
    /\ \A o \in Int : (\E i \in 1..Len(visited) : visited[i] = o) => Fits(o)

\* What ALIGN() does: it takes off less than a block, and for powers of two
\* rounds up.
LEMMA MaskedBounds ==
  ASSUME cmd \in Commands, NEW x \in Int, NEW y \in Masked(x)
  PROVE  y \in Int /\ x - cmd.bs < y /\ y <= x
<1>1. cmd.bs \in Nat /\ cmd.bs > 0
  BY CommandsAssumption
<1>2. PICK d \in LowBits(x) : y = x - d
  BY DEF Masked
<1>3. d \in 0..cmd.bs - 1
  BY <1>1, <1>2 DEF LowBits, CommonBits
<1>. QED
  BY <1>1, <1>2, <1>3

LEMMA AlignBounds ==
  ASSUME cmd \in Commands, NEW x \in Int, NEW y \in Align(x)
  PROVE  y \in Int /\ x <= y /\ y <= x + cmd.bs - 1
<1>1. cmd.bs \in Nat
  BY CommandsAssumption
<1>2. PICK z \in Int : z = x + cmd.bs - 1
  BY <1>1
<1>3. y \in Masked(z)
  BY Zenon, <1>2 DEF Align
<1>4. y \in Int /\ z - cmd.bs < y /\ y <= z
  BY Zenon, <1>3, MaskedBounds
<1>. QED
  BY <1>1, <1>2, <1>4

LEMMA AlignRounds ==
  ASSUME cmd \in Commands, PowerOfTwo(cmd.bs), NEW x \in Int,
         NEW y \in Align(x)
  PROVE  y = Rounded(x, cmd.bs)
<1>1. PICK b \in Nat : b = cmd.bs /\ b > 0
  BY CommandsAssumption
<1>2. PICK z \in Int : z = x + b - 1
  BY <1>1
<1>3. y = z - (z % b)
  <2>1. y \in Masked(z)
    BY Zenon, <1>1, <1>2 DEF Align
  <2>2. LowBits(z) = {z % b}
    BY Zenon, <1>1 DEF LowBits
  <2>3. y \in {z - d : d \in {z % b}}
    BY Zenon, <2>1, <2>2 DEF Masked
  <2>. QED
    BY <2>3
<1>4. z - (z % b) = (z \div b) * b
  <2>1. z % b \in 0..b - 1 /\ z = (z \div b) * b + (z % b) /\ z \div b \in Int
    BY <1>1
  <2>2. PICK m \in Int, q \in Int : m = z % b /\ q = (z \div b) * b
    BY <2>1, <1>1
  <2>. QED
    BY <2>1, <2>2
<1>. QED
  BY Zenon, <1>1, <1>2, <1>3, <1>4 DEF Rounded

LEMMA OptionTypes ==
  ASSUME cmd \in Commands
  PROVE  /\ cmd.bs \in Nat /\ cmd.bs > 0 /\ Offset0 \in Nat
         /\ cmd.rand \in Int /\ cmd.end \in Int
         /\ cmd.end # None => cmd.end >= 0
         /\ cmd.rand # None => cmd.rand >= 0 /\ cmd.end <= cmd.rand
  BY CommandsAssumption DEF Offset0, None

LEMMA BelowBounds ==
  ASSUME NEW n \in Int, NEW x \in Drawn(n)
  PROVE  x \in Int /\ (n > 0 => 0 <= x /\ x < n) /\ (n = 0 => x = 0)
  BY LmddAssumption DEF Drawn

\* Each offset is an integer of its own making.
CandidateOf(s, o) ==
    \/ /\ cmd.end # None
       /\ \E x \in Drawn(cmd.end) : \E a \in Align(x) : o = a + s + Offset0
    \/ /\ cmd.end = None
       /\ \E size \in Align(cmd.rand - cmd.bs) :
             \E x \in Drawn(size - cmd.bs) : o \in Align(x + Offset0)

LEMMA CandidateIs ==
  ASSUME NEW s, NEW o \in Candidates(s)
  PROVE  CandidateOf(s, o)
  BY DEF Candidates, CandidateOf

LEMMA CandidateInt ==
  ASSUME cmd \in Commands, NEW s \in Int, NEW o \in Candidates(s)
  PROVE  o \in Int
<1>1. CASE cmd.end # None
  <2>0. PICK x \in Drawn(cmd.end) : \E a \in Align(x) : o = a + s + Offset0
    BY <1>1, CandidateIs DEF CandidateOf
  <2>1. PICK a \in Align(x) : o = a + s + Offset0
    BY <2>0
  <2>2. x \in Int
    BY OptionTypes, BelowBounds
  <2>3. a \in Int
    BY <2>2, AlignBounds
  <2>. QED
    BY <2>1, <2>3, OptionTypes
<1>2. CASE cmd.end = None
  <2>1. PICK size \in Align(cmd.rand - cmd.bs) :
           \E x \in Drawn(size - cmd.bs) : o \in Align(x + Offset0)
    BY <1>2, CandidateIs DEF CandidateOf
  <2>2. PICK x \in Drawn(size - cmd.bs) : o \in Align(x + Offset0)
    BY <2>1
  <2>3. size \in Int /\ size - cmd.bs \in Int
    BY OptionTypes, AlignBounds
  <2>4. x + Offset0 \in Int
    BY <2>3, BelowBounds, OptionTypes
  <2>. QED
    BY Zenon, <2>2, <2>4, AlignBounds
<1>. QED
  BY <1>1, <1>2

LEMMA EndFits ==
  ASSUME cmd \in Commands, cmd.end # None, cmd.rand # None, NEW s \in Int,
         s = 0 \/ s = cmd.rand - cmd.end, NEW o \in Candidates(s)
  PROVE  Fits(o)
<1>. DEFINE b == cmd.bs
            rand == cmd.rand
            last == cmd.end
            first == Offset0
<1>1. /\ b \in Nat /\ b > 0 /\ rand \in Nat /\ first \in Nat
      /\ last \in Nat /\ last <= rand /\ s <= rand - last
  BY OptionTypes
<1>0. PICK x \in Drawn(last) : \E a \in Align(x) : o = a + s + first
  BY CandidateIs DEF CandidateOf
<1>2. PICK a \in Align(x) : o = a + s + first
  BY <1>0
<1>3. x \in Int /\ x <= last /\ (last > 0 => x < last) /\ (last = 0 => x = 0)
  BY <1>1, <1>2, BelowBounds
<1>4. a \in Int /\ x <= a /\ a <= x + b - 1
  BY <1>3, AlignBounds
<1>5. o < rand + first + b
  BY <1>1, <1>2, <1>3, <1>4
<1>6. ASSUME PowerOfTwo(b)
      PROVE  o + b <= rand + Rounded(first, b) + (Rounded(last, b) - last + b)
  <2>1. a = Rounded(x, b)
    BY Zenon, <1>3, <1>6, <1>2, AlignRounds
  <2>. HIDE DEF b, rand, last, first
  <2>2. last \in Int /\ first \in Int
    BY <1>1
  <2>3. Rounded(x, b) <= Rounded(last, b)
    BY Zenon, <2>2, <1>3, <1>1, RoundedMono
  <2>4. Rounded(x, b) \in Int /\ Rounded(last, b) \in Int
        /\ Rounded(first, b) \in Int /\ first <= Rounded(first, b)
    BY Zenon, <2>2, <1>3, <1>1, RoundedUp
  <2>5. PICK u \in Int, v \in Int, w \in Int :
           u = Rounded(x, b) /\ v = Rounded(last, b) /\ w = Rounded(first, b)
    BY Zenon, <2>4
  <2>6. u <= v /\ first <= w /\ o = u + s + first
    BY Zenon, <1>2, <2>1, <2>3, <2>4, <2>5
  <2>7. o + b <= rand + w + (v - last + b)
    BY <2>6, <1>1, <2>5, <2>2
  <2>. QED
    BY Zenon, <2>5, <2>7
<1>. HIDE DEF b, rand, last, first
<1>. QED
  BY <1>5, <1>6 DEF Fits, RoundedTo, Rounded, b, rand, last, first

LEMMA RandFits ==
  ASSUME cmd \in Commands, cmd.end = None, NEW s \in Int,
         NEW o \in Candidates(s)
  PROVE  Fits(o)
<1>. SUFFICES ASSUME ~Underflow PROVE Fits(o)
  BY DEF Fits
<1>. DEFINE b == cmd.bs
            rand == cmd.rand
            first == Offset0
<1>1. b \in Nat /\ b > 0 /\ rand \in Nat /\ first \in Nat
  BY OptionTypes DEF Underflow
<1>2. PICK size \in Align(rand - b) :
         \E x \in Drawn(size - b) : o \in Align(x + first)
  BY CandidateIs DEF CandidateOf
<1>3. PICK x \in Drawn(size - b) : o \in Align(x + first)
  BY <1>2
<1>4. size >= b /\ size \in Int /\ size <= rand - 1
  <2>1. rand - b \in Int
    BY <1>1
  <2>2. size \in Int /\ size <= rand - b + b - 1
    BY <2>1, AlignBounds
  <2>3. ~(size < b)
    BY Zenon, <1>2 DEF Underflow
  <2>. QED
    BY <2>2, <2>3, <1>1
<1>5. x \in Int /\ 0 <= x /\ (x = 0 \/ x <= size - b - 1) /\ x <= size - b
  <2>1. size - b \in Int /\ size - b >= 0
    BY <1>1, <1>4
  <2>. QED
    BY <2>1, <1>3, BelowBounds
<1>6. o \in Int /\ o <= x + first + b - 1
  <2>1. x + first \in Int
    BY <1>1, <1>5
  <2>. QED
    BY <2>1, <1>3, AlignBounds
<1>7. o < rand + first + b
  BY <1>1, <1>4, <1>5, <1>6
<1>8. ASSUME PowerOfTwo(b)
      PROVE  o + b <= rand + Rounded(first, b)
  <2>1. o = Rounded(x + first, b) /\ size = Rounded(rand - b, b)
    <3>1. x + first \in Int /\ rand - b \in Int
      BY <1>1, <1>5
    <3>. QED
      BY Zenon, <3>1, <1>8, <1>2, <1>3, AlignRounds
  <2>. HIDE DEF b, rand, first
  <2>2. CASE x <= size - b - 1
    <3>1. rand \in Int /\ x <= Rounded(rand - b, b) - b - 1
      BY <2>1, <2>2, <1>1
    <3>. QED
      BY Zenon, <2>1, <3>1, <1>1, <1>5, RandomOffset
  <2>3. CASE x = 0
    <3>1. x + first = first
      BY <2>3, <1>1
    <3>2. first \in Int
      BY <1>1
    <3>3. o = Rounded(first, b) /\ Rounded(first, b) \in Int
      BY Zenon, <3>1, <3>2, <2>1, <1>1, RoundedUp
    <3>. QED
      BY <3>3, <1>1, <1>4
  <2>. QED
    BY <2>2, <2>3, <1>5
<1>9. RoundedTo(first) = Rounded(first, b)
  BY DEF RoundedTo, Rounded
<1>. HIDE DEF b, rand, first
<1>10. PowerOfTwo(b) => o + b <= rand + RoundedTo(first) + 0
  <2>1. ASSUME PowerOfTwo(b) PROVE o + b <= rand + RoundedTo(first) + 0
    <3>1. first \in Int
      BY <1>1
    <3>2. Rounded(first, b) \in Int
      BY Zenon, <3>1, <1>1, RoundedUp
    <3>3. o + b <= rand + Rounded(first, b)
      BY Zenon, <2>1, <1>8
    <3>4. PICK r \in Int : r = Rounded(first, b)
      BY <3>2
    <3>5. o + b <= rand + r + 0
      BY <3>3, <3>4, <1>1
    <3>. QED
      BY Zenon, <3>5, <3>4, <1>9
  <2>. QED
    BY Zenon, <2>1
<1>. QED
  BY <1>7, <1>10 DEF Fits, b, rand, first

LEMMA CandidateFits ==
  ASSUME cmd \in Commands, NEW s \in Int,
         s = 0 \/ (cmd.end # None /\ s = cmd.rand - cmd.end),
         NEW o \in Candidates(s)
  PROVE  o \in Int /\ Fits(o)
<1>1. o \in Int
  BY Zenon, CandidateInt
<1>2. CASE cmd.end = None
  BY Zenon, <1>1, <1>2, RandFits
<1>3. CASE cmd.end # None /\ cmd.rand # None
  BY Zenon, <1>1, <1>3, EndFits
<1>4. CASE cmd.rand = None
  BY Zenon, <1>1, <1>4 DEF Fits, Underflow
<1>. QED
  BY Zenon, <1>2, <1>3, <1>4

LEMMA OffsetsInit ==
  DdInit => OffsetInv
<1>. SUFFICES ASSUME DdInit PROVE OffsetInv
  OBVIOUS
<1>1. PICK c \in Commands : DdStart(c)
  BY DEF DdInit
<1>2. cmd \in Commands /\ visited = <<>> /\ norepeats = -1
      /\ seen = [i \in 0..Words |-> 0]
  BY <1>1 DEF DdStart
<1>3. seen \in [0..Words -> Int] /\ visited \in Seq(Int) /\ Len(visited) = 0
  BY <1>2
<1>. QED
  BY <1>2, <1>3, LmddAssumption DEF OffsetInv, Noted, Base

\* An offset that has been there is not chosen.
LEMMA NotedNext ==
  ASSUME NEW o \in Int, Note(o), ~BeenThere(o), Noted, cmd.norepeat,
         cmd' = cmd, visited \in Seq(Int), visited' = Append(visited, o),
         seen \in [0..Words -> Int], Len(visited) < Words
  PROVE  seen' \in [0..Words -> Int] /\ Noted'
<1>. DEFINE n == Len(visited)
            b == Base
<1>1. n \in Nat /\ n < Words /\ Words \in Nat
  BY LmddAssumption
<1>2. /\ Len(visited') = n + 1 /\ visited'[n + 1] = o
      /\ \A i \in 1..n : visited'[i] = visited[i]
  BY <1>1
<1>3. /\ IF n = 0 THEN norepeats = -1 ELSE norepeats \in 0..n - 1
      /\ b \in Int /\ b = n - norepeats /\ (b = 1 \/ b \in resets)
      /\ \A i \in b + 1..n : seen[i - b - 1] = visited[i]
      /\ \A i, j \in 1..n : i < j /\ visited[i] = visited[j]
            => i = 1 \/ \E k \in resets : i <= k /\ k < j
  <2>1. n = 0 <=> visited = <<>>
    OBVIOUS
  <2>2. IF n = 0 THEN norepeats = -1 ELSE norepeats \in 0..n - 1
    BY <2>1 DEF Noted
  <2>. QED
    BY <2>2, <1>1 DEF Noted, Base
<1>. HIDE DEF b
<1>0. b \in Int /\ b = n - norepeats
      /\ IF n = 0 THEN norepeats = -1 ELSE norepeats \in 0..n - 1
  BY <1>3
<1>4. resets \subseteq resets' /\ visited' # <<>>
  BY <1>2 DEF Note
<1>5. ASSUME NEW i \in 1..n, visited[i] = o
      PROVE  i = 1 \/ \E k \in resets : i <= k /\ k < n + 1
  <2>1. CASE i > b
    <3>1. i \in b + 1..n
      BY <2>1, <1>1, <1>0
    <3>0. norepeats \in Int /\ i - b - 1 \in Int /\ 0 <= i - b - 1
          /\ i - b - 1 <= norepeats
      <4>1. i \in Int /\ i <= n /\ n # 0
        BY <1>1
      <4>2. norepeats \in Int
        BY <4>1, <1>0
      <4>. QED
        BY <4>1, <4>2, <2>1, <1>1, <1>0
    <3>2. PICK k \in 0..norepeats : k = i - b - 1
      BY <3>0
    <3>3. seen[k] = o
      BY Zenon, <3>1, <3>2, <1>3, <1>5
    <3>. QED
      BY Zenon, <3>3 DEF BeenThere
  <2>2. CASE i <= b
    <3>1. b < n + 1
      BY <1>1, <1>3
    <3>2. CASE b = 1
      BY <3>2, <2>2
    <3>3. CASE b \in resets
      BY Zenon, <3>1, <3>3, <2>2
    <3>. QED
      BY <3>2, <3>3, <1>3
  <2>. QED
    BY <2>1, <2>2, <1>3
<1>6. ASSUME NEW i \in 1..n + 1, NEW j \in 1..n + 1, i < j,
             visited'[i] = visited'[j]
      PROVE  i = 1 \/ \E k \in resets' : i <= k /\ k < j
  <2>1. i \in 1..n
    BY <1>6, <1>1
  <2>2. CASE j \in 1..n
    <3>1. visited[i] = visited[j]
      BY Zenon, <2>1, <2>2, <1>2, <1>6
    <3>. QED
      BY Zenon, <2>1, <2>2, <3>1, <1>3, <1>4, <1>6
  <2>3. CASE j = n + 1
    <3>1. visited[i] = o
      BY Zenon, <2>1, <2>3, <1>2, <1>6
    <3>. QED
      BY Zenon, <2>1, <2>3, <3>1, <1>4, <1>5
  <2>4. j \in 1..n \/ j = n + 1
    BY <1>1
  <2>. QED
    BY Zenon, <2>2, <2>3, <2>4
<1>7. CASE n = 0
  <2>1. norepeats = -1
    BY <1>3, <1>7
  <2>2. seen' = seen
    BY <2>1 DEF Note
  <2>3. norepeats' = 0
    BY <2>1 DEF Note
  <2>4. Base' = 1
    BY <2>3, <1>2, <1>7 DEF Base
  <2>. QED
    BY <2>2, <2>3, <2>4, <1>2, <1>4, <1>6, <1>7 DEF Noted
<1>8. CASE n > 0
  <2>1. norepeats \in 0..n - 1 /\ norepeats # -1
    BY <1>1, <1>3, <1>8
  <2>2. seen' = [seen EXCEPT ![norepeats] = o]
    BY <2>1 DEF Note
  <2>3. seen' \in [0..Words -> Int] /\ seen'[norepeats] = o
        /\ \A k \in 0..Words : k # norepeats => seen'[k] = seen[k]
    BY <2>1, <2>2, <1>1
  <2>4. CASE Full
    <3>1. norepeats' = 0 /\ n + 1 \in resets'
      BY <2>4 DEF Note
    <3>2. Base' = n + 1 /\ norepeats' \in 0..n + 1 - 1
      BY <3>1, <1>1, <1>2 DEF Base
    <3>3. \A i \in n + 1 + 1..n + 1 : FALSE
      BY <1>1
    <3>. QED
      BY <3>1, <3>2, <3>3, <2>3, <1>2, <1>4, <1>6 DEF Noted
  <2>5. CASE ~Full
    <3>1. norepeats' = norepeats + 1 /\ resets' = resets
      BY <2>5 DEF Note
    <3>2. Base' = b /\ norepeats' \in 0..n + 1 - 1
      BY <3>1, <2>1, <1>1, <1>2, <1>3 DEF Base
    <3>3. ASSUME NEW i \in b + 1..n + 1
          PROVE  seen'[i - b - 1] = visited'[i]
      <4>1. CASE i = n + 1
        <5>1. i - b - 1 = norepeats
          BY <4>1, <1>1, <1>3, <2>1
        <5>. QED
          BY Zenon, <5>1, <4>1, <2>3, <1>2
      <4>2. CASE i # n + 1
        <5>1. /\ i \in b + 1..n /\ i \in 1..n /\ i - b - 1 \in 0..Words
              /\ i - b - 1 # norepeats
          BY <4>2, <1>1, <1>0, <2>1, <1>8
        <5>2. PICK k \in 0..Words : k = i - b - 1
          BY <5>1
        <5>3. seen'[k] = seen[k] /\ seen[k] = visited[i]
          BY Zenon, <5>1, <5>2, <2>3, <1>3
        <5>. QED
          BY Zenon, <5>1, <5>2, <5>3, <1>2
      <4>. QED
        BY <4>1, <4>2
    <3>4. b = 1 \/ b \in resets'
      BY <3>1, <1>3
    <3>5. \A i \in Base' + 1..Len(visited') : seen'[i - Base' - 1] = visited'[i]
      BY Zenon, <3>2, <3>3, <1>2
    <3>6. \A i, j \in 1..Len(visited') :
             i < j /\ visited'[i] = visited'[j]
             => i = 1 \/ \E k \in resets' : i <= k /\ k < j
      BY Zenon, <1>2, <1>6
    <3>7. Base' = 1 \/ Base' \in resets'
      BY Zenon, <3>2, <3>4
    <3>8. norepeats' \in 0..Len(visited') - 1 /\ visited' # <<>>
      <4>1. norepeats' \in 0..n + 1 - 1
        BY Zenon, <3>2
      <4>. QED
        BY <4>1, <1>2, <1>4
    <3>. QED
      BY Zenon, <3>5, <3>6, <3>7, <3>8, <2>3 DEF Noted
  <2>. QED
    BY <2>4, <2>5
<1>. QED
  BY <1>1, <1>7, <1>8

LEMMA OffsetChosen ==
  ASSUME OffsetInv, Random
  PROVE  OffsetInv'
<1>. DEFINE n == Len(visited)
<1>1. cmd' = cmd /\ cmd \in Commands
  BY DEF Random, OffsetInv
<1>2. PICK o \in Candidates(side') :
         /\ cmd.norepeat => ~BeenThere(o)
         /\ IF cmd.norepeat THEN Note(o)
            ELSE UNCHANGED <<seen, norepeats, resets>>
         /\ visited' = Append(visited, o)
  BY DEF Random
<1>3. o \in Int /\ Fits(o)
  <2>1. PICK s : s = side'
    OBVIOUS
  <2>2. s = 0 \/ (cmd.end # None /\ s = cmd.rand - cmd.end)
    BY <2>1 DEF Random
  <2>3. s \in Int
    BY <2>2, <1>1, OptionTypes
  <2>4. o \in Candidates(s)
    BY Zenon, <2>1, <1>2
  <2>. QED
    BY Zenon, <2>2, <2>3, <2>4, <1>1, CandidateFits
<1>4. visited \in Seq(Int) /\ n \in Nat /\ n < Words /\ Words \in Nat
      /\ seen \in [0..Words -> Int] /\ Noted
  BY LmddAssumption DEF OffsetInv, Random
<1>5. /\ visited' \in Seq(Int) /\ Len(visited') = n + 1
      /\ \A i \in 1..n : visited'[i] = visited[i]
      /\ visited'[n + 1] = o
  BY <1>2, <1>3, <1>4
<1>6. \A x : Fits(x)' <=> Fits(x)
  BY <1>1 DEF Fits, Underflow, Align, Masked, LowBits, Offset0, RoundedTo
<1>7. ASSUME NEW x \in Int, NEW i \in 1..Len(visited'), visited'[i] = x
      PROVE  Fits(x)
  <2>1. CASE i \in 1..n
    BY Zenon, <2>1, <1>5, <1>7 DEF OffsetInv
  <2>2. CASE i = n + 1
    BY Zenon, <2>2, <1>3, <1>5, <1>7
  <2>3. i \in 1..n \/ i = n + 1
    BY <1>4, <1>5
  <2>. QED
    BY Zenon, <2>1, <2>2, <2>3
<1>8. seen' \in [0..Words -> Int] /\ Noted'
  <2>1. CASE cmd.norepeat
    BY Zenon, <2>1, <1>1, <1>2, <1>3, <1>4, NotedNext
  <2>2. CASE ~cmd.norepeat
    BY <2>2, <1>1, <1>2, <1>4 DEF Noted
  <2>. QED
    BY <2>1, <2>2
<1>9. Len(visited') <= Words
  BY <1>4, <1>5
<1>10. \A x \in Int : (\E i \in 1..Len(visited') : visited'[i] = x) => Fits(x)'
  BY Zenon, <1>6, <1>7
<1>. QED
  BY Zenon, <1>1, <1>5, <1>8, <1>9, <1>10 DEF OffsetInv
LEMMA OffsetsKept ==
  ASSUME OffsetInv, cmd' = cmd, UNCHANGED randVars
  PROVE  OffsetInv'
<1>1. seen' = seen /\ norepeats' = norepeats /\ visited' = visited
      /\ resets' = resets
  BY DEF randVars
<1>2. \A x : Fits(x)' <=> Fits(x)
  BY DEF Fits, Underflow, Align, Masked, LowBits, Offset0, RoundedTo
<1>3. Noted'
  BY <1>1 DEF OffsetInv, Noted, Base
<1>4. \A x \in Int : (\E i \in 1..Len(visited') : visited'[i] = x) => Fits(x)'
  BY Zenon, <1>1, <1>2 DEF OffsetInv
<1>. QED
  BY <1>1, <1>3, <1>4 DEF OffsetInv

LEMMA OffsetsNext ==
  ASSUME OffsetInv, [DdNext]_ddVars
  PROVE  OffsetInv'
<1>1. CASE Random
  BY <1>1, OffsetChosen
<1>2. CASE ~Random
  <2>1. cmd' = cmd /\ UNCHANGED randVars
    <3>1. CASE UNCHANGED ddVars
      BY <3>1 DEF ddVars
    <3>2. CASE DdStep
      BY <3>2, <1>2 DEF DdStep, LastBlock, Sequential, Read, Padding, Check,
         Write, Count, ForkWriter, ChildWrites, Shift, PrintOut, ExitDone
    <3>3. CASE ReadFails \/ WriteFails \/ ForkFails \/ ChildFails
      BY <3>3 DEF ReadFails, WriteFails, ForkFails, ChildFails
    <3>4. CASE \E sig \in {"alarm", "int"} : Signal(sig)
      BY <3>4 DEF Signal
    <3>. QED
      BY <3>1, <3>2, <3>3, <3>4 DEF DdNext
  <2>. QED
    BY <2>1, OffsetsKept
<1>. QED
  BY <1>1, <1>2

LEMMA OffsetsFit ==
  ASSUME OffsetInv
  PROVE  OffsetsApart
<1>1. visited \in Seq(Int) /\ \A i \in 1..Len(visited) : visited[i] \in Int
  BY DEF OffsetInv
<1>2. \A i \in 1..Len(visited) : Fits(visited[i])
  BY Zenon, <1>1 DEF OffsetInv
<1>. QED
  BY Zenon, <1>2 DEF OffsetInv, Noted, Fits, OffsetsApart

\* norepeat= chooses no offset twice but the first, or after its array was
\* begun anew; and no block begins or reaches further past rand= than start=
\* and rounding take it, unless rand= is too short or left out: for any
\* command line and any sizes.
THEOREM LmddOffsetsApart ==
  DdSpec => []OffsetsApart
<1>1. DdInit => OffsetInv
  BY OffsetsInit
<1>2. OffsetInv /\ [DdNext]_ddVars => OffsetInv'
  BY OffsetsNext
<1>3. OffsetInv => OffsetsApart
  BY OffsetsFit
<1>. QED
  BY <1>1, <1>2, <1>3, PTL DEF DdSpec

-----------------------------------------------------------------------------
(* What is read, compared, written and reported.                           *)

DdPc == {"loop", "read", "pad", "check", "write", "fork", "count", "exited"}
Buffers == [1..cmd.bs -> Int]
WriterOf == [buf : Buffers, moved : 1..cmd.bs, count : Nat]

\* Types, and when the loop is where.
DdTypes ==
    /\ cmd \in Commands /\ dpc \in DdPc
    /\ off \in Int /\ inpos \in Int /\ outpos \in Int
    /\ wrote \in Nat /\ intCount \in Nat /\ misses \in Int /\ odds \in Nat
    /\ padin \in BOOLEAN /\ (padin => cmd.padin)
    /\ moved \in Int /\ moved <= cmd.bs
    /\ dpc \in {"write", "fork", "count"} => moved > 0
    /\ buf \in Buffers /\ DOMAIN out \subseteq LookedAt
    /\ writer # <<>> => \E w \in WriterOf : writer = <<w>>
    /\ frames \in Seq({"begin", "print", "exit"})
    /\ visited \in Seq(Int) /\ (~Randomly => visited = <<>>)

DdShape ==
    /\ dpc = "write" => ~cmd.fork /\ cmd.of # Internal
    /\ dpc = "fork" => cmd.fork /\ cmd.of # Internal
    /\ dpc = "pad" => padin /\ cmd.if # Internal
    /\ writer # <<>> => cmd.fork /\ cmd.of # Internal

\* A failure or the end of the loop leaves it for good.
InLoop == frames = <<>> /\ dpc # "exited"
Pending == IF writer = <<>> THEN 0 ELSE writer[1].moved
NoneLost == mishaps \cap {"fork", "child"} = {}
Ended == cmd.if # Internal /\ inpos >= cmd.if
HasBlock == dpc \in {"write", "fork", "count"} \/ (dpc = "check" /\ moved > 0)
HeldBack == IF HasBlock /\ dpc # "count" THEN moved ELSE 0
ToCount == IF dpc = "count" THEN moved ELSE 0

\* In sequence, only the last block of a file is short.
Blocks ==
    InLoop /\ ~Randomly /\ ~cmd.pipe =>
        IF HasBlock THEN off % cmd.bs = 0 /\ (moved = cmd.bs \/ Ended)
                    ELSE off % cmd.bs = 0 \/ Ended

\* Offsets of rand= are where it has been.
BeenHere ==
    InLoop /\ Randomly /\ dpc # "loop" =>
        \E i \in 1..Len(visited) : off = visited[i]

\* Of a pipe, only an odd block puts the next one between words.
InPipe == InLoop /\ ~Randomly /\ cmd.pipe /\ cmd.bs % 4 = 0
             => off % 4 = 0 \/ odds > 0

\* Blocks of a file that is words are words.
InWords ==
    InLoop /\ cmd.bs % 4 = 0 /\ ~OddBytes /\ ~Astray =>
        /\ cmd.if # Internal => inpos % 4 = 0
        /\ HasBlock => moved % 4 = 0

\* What is read is what the input has there, and it is there that the loop is.
Reading ==
    InLoop /\ cmd.if # Internal =>
        /\ dpc \in {"check", "write", "fork"} =>
             \A i \in 1..moved :
                \/ buf[i] = FileByte(inpos - moved + i - 1)
                \/ dpc # "check" /\ cmd.touch /\ (i - 1) % 4096 = 0
        /\ ~cmd.padin /\ ~Displaced /\ ~Refused =>
             inpos = off + IF HasBlock THEN moved ELSE 0

Inputs == Blocks /\ BeenHere /\ InPipe /\ InWords /\ Reading

\* Where the output goes is known: as far as the input, and to the offset.
KnownPlace == /\ cmd.of # Internal /\ ~cmd.append /\ NoneLost
              /\ ~(cmd.fork /\ Randomly)
InPlace ==
    KnownPlace /\ InLoop =>
        /\ cmd.if # Internal /\ ~cmd.padin /\ ~Displaced =>
              outpos + Pending = inpos - HeldBack
        /\ ~Refused => outpos + Pending = off + ToCount

\* A byte that is right where it is, or need not be.
Excused(p) ==
    \/ /\ ~cmd.opat \/ OddBytes
       /\ cmd.if = Internal \/ cmd.padin \/ Displaced \/ Spoiled(p)
    \/ cmd.opat /\ Astray
Fine(v, p) == v = FileByte(p) \/ Excused(p)

\* What the child has to write is right where it will be.
Handed ==
    KnownPlace /\ writer # <<>> =>
        \A i \in 1..Pending : Fine(writer[1].buf[i], outpos + i - 1)

Outputs == InPlace /\ Handed /\ OutputFaithful /\ NoMismatch

Factor == <<1, 4, 16, 64>>

Counted(words, s) ==
    /\ s \in 0..3 /\ words \in Nat /\ intCount = Factor[s + 1] * words
    /\ 4 * words <= wrote + Pending
    /\ wrote + Pending <= 4 * words + Uncounted
    /\ InLoop => s = 0
    /\ frames # <<>> =>
          IF frames[Len(frames)] = "begin" THEN s <= Len(frames) - 1
                                           ELSE s \in 1..Len(frames)
    /\ InLoop => wrote + Pending <= 4 * words + 3 * odds + ToCount
    /\ InLoop => wrote + Pending >= 4 * words + ToCount

Reported(r) ==
    r.by = "parent" =>
        \E n \in 0..Cardinality(Signals),
           whole \in (wrote + Pending) - Uncounted..wrote + Pending :
              r.bytes = <<1, 4, 16>>[n + 1] * whole

ReportOf == [by : {"parent", "child"}, bytes : Nat]

Counting ==
    /\ Len(frames) <= Cardinality(Signals) + 1
    /\ cmd.of # Internal /\ NoneLost =>
          /\ \E words \in Nat, s \in 0..3 : Counted(words, s)
          /\ reports \in Seq(ReportOf) /\ (InLoop => reports = <<>>)
          /\ \A i \in 1..Len(reports) : Reported(reports[i])

-----------------------------------------------------------------------------
(* Arithmetic of blocks and words.                                         *)

LEMMA BlockMultiple ==
  ASSUME NEW k \in Int, NEW b \in Nat, b > 0
  PROVE  k * b \in Int /\ (k * b) % b = 0
<1>1. k * b \in Int /\ (k * b + 0) % b = 0
  OBVIOUS
<1>. QED
  BY <1>1

LEMMA NextBlock ==
  ASSUME NEW x \in Int, NEW b \in Nat, b > 0, x % b = 0
  PROVE  (x + b) % b = 0
<1>1. PICK q \in Int : x = q * b
  OBVIOUS
<1>2. x + b = (q + 1) * b
  BY <1>1
<1>. QED
  BY <1>2, BlockMultiple

LEMMA InBlock ==
  ASSUME NEW x \in Int, NEW b \in Nat, b > 0, x % b = 0,
         NEW y \in 0..b - 1
  PROVE  (x + y) % b = y
<1>1. PICK q \in Int : x = q * b
  OBVIOUS
<1>0. PICK z \in Int : z = x + y
  OBVIOUS
<1>2. PICK d \in Int, m \in Int :
         z = d * b + m /\ 0 <= m /\ m < b /\ m = z % b
  <2>1. z % b \in 0..b - 1 /\ z = (z \div b) * b + (z % b) /\ z \div b \in Int
    OBVIOUS
  <2>2. PICK d \in Int, m \in 0..b - 1 : d = z \div b /\ m = z % b
    BY <2>1
  <2>3. z = d * b + m
    BY <2>1, <2>2
  <2>4. m \in Int /\ 0 <= m /\ m < b
    OBVIOUS
  <2>. QED
    BY Zenon, <2>2, <2>3, <2>4
<1>3. ASSUME NEW u \in Int, NEW v \in Int, u < v PROVE u * b + b <= v * b
  <2>1. PICK w \in Nat : v = u + 1 + w
    BY <1>3
  <2>2. v * b = u * b + b + w * b /\ w * b >= 0
    BY <2>1
  <2>. QED
    BY <2>2
<1>4. q * b \in Int /\ d * b \in Int
  OBVIOUS
<1>5. ~(q < d) /\ ~(d < q)
  BY <1>0, <1>1, <1>2, <1>3, <1>4
<1>6. q = d
  BY <1>5
<1>7. z = q * b + m /\ z = q * b + y
  BY <1>0, <1>1, <1>2, <1>6
<1>8. m = y
  BY <1>2, <1>4, <1>7
<1>. QED
  BY Zenon, <1>0, <1>2, <1>8

LEMMA WordMultiple ==
  ASSUME NEW k \in Int, NEW b \in Nat, b % 4 = 0
  PROVE  k * b \in Int /\ (k * b) % 4 = 0
<1>1. PICK m \in Nat : b = 4 * m
  OBVIOUS
<1>2. PICK y \in Int : y = k * m
  OBVIOUS
<1>3. k * b = 4 * y
  BY <1>1, <1>2
<1>. QED
  BY <1>3

LEMMA BlockOfWords ==
  ASSUME NEW x \in Int, NEW b \in Nat, b > 0, b % 4 = 0, x % b = 0
  PROVE  x % 4 = 0
<1>1. PICK q \in Int : x = q * b
  OBVIOUS
<1>. QED
  BY <1>1, WordMultiple

LEMMA WordsInt ==
  ASSUME NEW x \in Int
  PROVE  /\ WordsOf(x) \in Int /\ 4 * WordsOf(x) <= x
         /\ x <= 4 * WordsOf(x) + 3
         /\ x % 4 = 0 => 4 * WordsOf(x) = x
         /\ x >= 0 => WordsOf(x) >= 0
  BY DEF WordsOf

\* A byte of the integers from o on is the file's there, if a word begins at o.
LEMMA PatternIsFile ==
  ASSUME NEW o \in Int, o % 4 = 0, NEW i \in Nat \ {0}
  PROVE  Pattern(o, i) = FileByte(o + i - 1)
  BY DEF Pattern, FileByte, IntByte, WordsOf

LEMMA CmdTypes ==
  ASSUME cmd \in Commands
  PROVE  /\ cmd.bs \in Nat /\ cmd.bs >= 4 /\ cmd.bs > 0
         /\ cmd.ipat \/ cmd.opat => cmd.bs % 4 = 0
         /\ cmd.if \in Int /\ cmd.of \in Int /\ cmd.count \in Int
         /\ cmd.skip \in Int /\ cmd.mismatch \in Int /\ cmd.rand \in Int
         /\ cmd.if >= -1 /\ cmd.of >= -1 /\ cmd.mismatch >= -1
         /\ cmd.fork \in BOOLEAN /\ cmd.padin \in BOOLEAN
  BY CommandsAssumption

\* What only the command line tells.
LEMMA CmdSame ==
  ASSUME cmd' = cmd
  PROVE  /\ Randomly' = Randomly /\ Displaced' = Displaced
         /\ OddBytes' = OddBytes
  BY DEF Randomly, Displaced, OddBytes, None, Internal

-----------------------------------------------------------------------------
(* Types.                                                                  *)

LEMMA DdTypesInit ==
  DdInit => DdTypes /\ DdShape
<1>. SUFFICES ASSUME DdInit PROVE DdTypes /\ DdShape
  OBVIOUS
<1>1. PICK c \in Commands : DdStart(c)
  BY DEF DdInit
<1>2. cmd = c /\ cmd \in Commands
  BY <1>1 DEF DdStart
<1>3. cmd.bs \in Nat /\ cmd.skip \in Int /\ cmd.mismatch \in Int
      /\ cmd.padin \in BOOLEAN
  BY <1>2, CmdTypes
<1>4. off \in Int /\ inpos \in Int /\ outpos = off
  BY <1>1, <1>2, <1>3 DEF DdStart, None
<1>5. buf \in Buffers
  BY <1>1, <1>2, <1>3 DEF DdStart, Buffers, IntByte
<1>6. DOMAIN out \subseteq LookedAt
  BY <1>1 DEF DdStart
<1>7. /\ dpc = "loop" /\ moved = 0 /\ wrote = 0 /\ intCount = 0 /\ odds = 0
      /\ misses = cmd.mismatch /\ padin = cmd.padin /\ writer = <<>>
      /\ frames = <<>> /\ visited = <<>>
  BY <1>1, <1>2 DEF DdStart
<1>8. DdTypes
  BY <1>2, <1>3, <1>4, <1>5, <1>6, <1>7 DEF DdTypes, DdPc
<1>9. DdShape
  BY <1>7 DEF DdShape
<1>. QED
  BY <1>8, <1>9

LEMMA PlaceType ==
  ASSUME DdTypes
  PROVE  Place \in Int
  BY CmdTypes DEF DdTypes, Place

\* What Put() leaves.
LEMMA PutBytes ==
  ASSUME DdTypes, NEW b, NEW n \in 0..cmd.bs, Put(b, n)
  PROVE  /\ DOMAIN out' \subseteq LookedAt
         /\ outpos' = Place + n /\ outpos' \in Int
         /\ wrote' = wrote + n /\ wrote' \in Nat
         /\ \A p \in DOMAIN out' :
               \/ p \in DOMAIN out /\ out'[p] = out[p]
               \/ \E i \in 1..n : p = Place + i - 1 /\ out'[p] = b[i]
<1>1. Place \in Int /\ n \in Int /\ wrote \in Nat /\ cmd.bs \in Nat /\ n >= 0
  BY PlaceType, CmdTypes DEF DdTypes
<1>2. PICK D : D = DOMAIN out \cup (LookedAt \cap (Place..Place + n - 1))
  OBVIOUS
<1>3. out' = [p \in D |-> IF p \in Place..Place + n - 1
                          THEN b[p - Place + 1] ELSE out[p]]
  BY <1>2 DEF Put
<1>4. DOMAIN out' = D /\ D \subseteq LookedAt
  BY <1>2, <1>3 DEF DdTypes
<1>5. ASSUME NEW p \in D
      PROVE  \/ p \in DOMAIN out /\ out'[p] = out[p]
             \/ \E i \in 1..n : p = Place + i - 1 /\ out'[p] = b[i]
  <2>1. CASE p \in Place..Place + n - 1
    <3>1. PICK i \in 1..n : i = p - Place + 1
      BY <2>1, <1>1
    <3>2. p = Place + i - 1
      BY <2>1, <3>1, <1>1
    <3>3. out'[p] = b[i]
      BY Zenon, <2>1, <3>1, <1>3
    <3>. QED
      BY Zenon, <3>2, <3>3
  <2>2. CASE p \notin Place..Place + n - 1
    BY Zenon, <2>2, <1>2, <1>3
  <2>. QED
    BY <2>1, <2>2
<1>6. outpos' = Place + n /\ wrote' = wrote + n
  BY DEF Put
<1>7. outpos' \in Int /\ wrote' \in Nat
  BY <1>1, <1>6
<1>. QED
  BY Zenon, <1>4, <1>5, <1>6, <1>7

LEMMA BufferKept ==
  ASSUME DdTypes
  PROVE  Written(buf) \in Buffers /\ Touched(buf) \in Buffers
         /\ Touched(Written(buf)) \in Buffers
<1>1. buf \in [1..cmd.bs -> Int] /\ cmd.bs \in Nat /\ off \in Int
  BY CmdTypes DEF DdTypes, Buffers
<1>2. ASSUME NEW b \in Buffers PROVE Touched(b) \in Buffers
  BY DEF Touched, Buffers, IntByte
<1>3. ASSUME NEW i \in 1..cmd.bs PROVE Pattern(off, i) \in Int
  BY <1>1 DEF Pattern, IntByte, WordsOf
<1>4. Written(buf) \in Buffers
  BY <1>1, <1>3 DEF Written, Buffers
<1>. QED
  BY <1>1, <1>2, <1>4 DEF DdTypes

LEMMA FilledType ==
  ASSUME DdTypes, NEW n \in Int
  PROVE  Filled(n) \in Buffers
<1>1. inpos \in Int /\ buf \in [1..cmd.bs -> Int] /\ cmd.bs \in Nat
  BY CmdTypes DEF DdTypes, Buffers
<1>2. ASSUME NEW i \in 1..cmd.bs PROVE FileByte(inpos + i - 1) \in Int
  BY <1>1 DEF FileByte, IntByte
<1>. QED
  BY <1>1, <1>2 DEF Filled, Buffers

\* What read() may take.
LEMMA ReadableType ==
  ASSUME DdTypes, NEW n \in Readable
  PROVE  /\ n \in Nat /\ n <= cmd.bs
         /\ inpos >= cmd.if => n = 0
         /\ inpos < cmd.if => n > 0
         /\ inpos < cmd.if /\ ~cmd.pipe => n = cmd.bs \/ inpos + n = cmd.if
<1>1. cmd.bs \in Nat /\ cmd.bs > 0 /\ cmd.if \in Int /\ inpos \in Int
  BY CmdTypes DEF DdTypes
<1>2. PICK a \in Int : a = Available
  BY <1>1 DEF Available, Least
<1>3. /\ a <= cmd.bs
      /\ inpos >= cmd.if => a <= 0
      /\ inpos < cmd.if => a > 0 /\ (a = cmd.bs \/ inpos + a = cmd.if)
  BY <1>1, <1>2 DEF Available, Least
<1>4. n \in IF a <= 0 THEN {0} ELSE IF cmd.pipe THEN 1..a ELSE {a}
  BY Zenon, <1>2 DEF Readable
<1>5. CASE a <= 0
  BY <1>1, <1>3, <1>4, <1>5
<1>6. CASE a > 0
  BY <1>1, <1>3, <1>4, <1>6
<1>. QED
  BY <1>5, <1>6

LEMMA WrongType ==
  ASSUME DdTypes, moved > 0
  PROVE  Wrong \in Nat
<1>1. WordsOf(moved) - 1 \in Int
  BY WordsInt DEF DdTypes
<1>2. IsFiniteSet(0..WordsOf(moved) - 1)
  BY <1>1, FS_Interval
<1>3. IsFiniteSet({k \in 0..WordsOf(moved) - 1 :
                     \E i \in 4 * k + 1..4 * k + 4 : buf[i] # Pattern(off, i)})
  BY <1>2, FS_Subset
<1>. QED
  BY <1>3, FS_CardinalityType DEF Wrong

\* done() is called.
LEMMA DoneFrames ==
  ASSUME DdTypes, Done
  PROVE  frames' \in Seq({"begin", "print", "exit"})
         /\ frames' # <<>> /\ Len(frames') = Len(frames) + 1
         /\ frames'[Len(frames')] = "begin"
  BY DEF DdTypes, Done

LEMMA DdTypesLoop ==
  ASSUME DdTypes, DdShape, LastBlock \/ Sequential \/ Padding \/ Count
  PROVE  DdTypes' /\ DdShape'
<1>. USE DEF DdTypes, DdShape, DdPc, Running, fileVars, randVars, doneVars,
         Randomly, None
<1>1. CASE LastBlock
  <2>1. frames' \in Seq({"begin", "print", "exit"})
    BY <1>1, DoneFrames DEF LastBlock
  <2>. QED
    BY <1>1, <2>1 DEF LastBlock, Buffers, WriterOf
<1>2. CASE Sequential
  BY <1>2 DEF Sequential, Buffers, WriterOf
<1>3. CASE Padding
  BY <1>3 DEF Padding, Buffers, WriterOf
<1>4. CASE Count
  <2>1. WordsOf(moved) \in Nat
    <3>1. moved \in Int /\ moved >= 0
      BY <1>4 DEF Count
    <3>. QED
      BY <3>1, WordsInt
  <2>2. off' \in Int /\ intCount' \in Nat /\ odds' \in Nat
    BY <1>4, <2>1 DEF Count
  <2>. QED
    BY <1>4, <2>2 DEF Count, Buffers, WriterOf
<1>. QED
  BY <1>1, <1>2, <1>3, <1>4

\* The offset that rand= goes to.
LEMMA RandomChoice ==
  ASSUME DdTypes, Random
  PROVE  \E o \in Int :
            off' = o /\ Seek(o) /\ visited' = Append(visited, o)
<1>1. PICK s : s = side'
  OBVIOUS
<1>2. s = 0 \/ (cmd.end # None /\ s = cmd.rand - cmd.end)
  BY <1>1 DEF Random
<1>3. cmd \in Commands /\ s \in Int
  BY <1>2, OptionTypes DEF DdTypes
<1>4. PICK o \in Candidates(s) :
         off' = o /\ Seek(o) /\ visited' = Append(visited, o)
  BY Zenon, <1>1 DEF Random
<1>5. o \in Int
  BY Zenon, <1>3, CandidateInt
<1>. QED
  BY Zenon, <1>4, <1>5

LEMMA DdTypesRandom ==
  ASSUME DdTypes, DdShape, Random
  PROVE  DdTypes' /\ DdShape'
<1>1. PICK o \in Int : off' = o /\ Seek(o) /\ visited' = Append(visited, o)
  BY RandomChoice
<1>2. visited' \in Seq(Int) /\ Randomly' /\ cmd' = cmd
      /\ dpc' = "read" /\ frames = <<>>
  BY <1>1, CmdSame DEF DdTypes, Random, Running
<1>3. UNCHANGED <<padin, buf, moved, intCount, misses, writer, odds, mishaps,
                  out, wrote, doneVars>>
  BY DEF Random
<1>4. inpos' \in Int /\ outpos' \in Int
  BY <1>1 DEF Seek, DdTypes
<1>. QED
  BY <1>1, <1>2, <1>3, <1>4
  DEF DdTypes, DdShape, DdPc, Buffers, WriterOf, doneVars

LEMMA DdTypesRead ==
  ASSUME DdTypes, DdShape, Read \/ ReadFails
  PROVE  DdTypes' /\ DdShape'
<1>. USE DEF DdShape, DdPc, Running, fileVars, randVars, doneVars
<1>1. cmd \in Commands /\ cmd.bs \in Nat /\ cmd.if \in Int /\ inpos \in Int
  BY CmdTypes DEF DdTypes
<1>2. CASE Read
  <2>1. moved' \in Int /\ moved' <= cmd.bs /\ inpos' \in Int
        /\ buf' \in Buffers
    <3>1. CASE cmd.if = Internal
      BY <1>1, <1>2, <3>1 DEF Read, DdTypes
    <3>2. CASE cmd.if # Internal
      <4>1. PICK n \in Readable :
               moved' = n /\ buf' = Filled(n) /\ inpos' = inpos + n
        BY Zenon, <1>2, <3>2 DEF Read
      <4>2. n \in Int /\ n <= cmd.bs
        BY ReadableType
      <4>3. inpos' \in Int
        BY <4>1, <4>2, <1>1
      <4>4. Filled(n) \in Buffers
        BY <4>2, FilledType
      <4>. QED
        BY Zenon, <4>1, <4>2, <4>3, <4>4
    <3>. QED
      BY <3>1, <3>2
  <2>2. /\ dpc' \in {"pad", "check"}
        /\ dpc' = "pad" => padin /\ cmd.if # Internal
        /\ UNCHANGED <<cmd, off, count, padin, intCount, misses, writer, odds,
                       mishaps, outpos, out, wrote, randVars, doneVars>>
    BY <1>2 DEF Read
  <2>. QED
    BY <2>1, <2>2, CmdSame DEF DdTypes, Buffers, WriterOf
<1>3. CASE ReadFails
  BY <1>1, <1>3, CmdSame DEF ReadFails, DdTypes, Buffers, WriterOf, Mishap
<1>. QED
  BY <1>2, <1>3

LEMMA DdTypesCheck ==
  ASSUME DdTypes, DdShape, Check
  PROVE  DdTypes' /\ DdShape'
<1>. USE DEF DdShape, DdPc, Running, fileVars, randVars, doneVars
<1>0. UNCHANGED <<cmd, off, count, padin, moved, intCount, writer, odds,
                  mishaps, fileVars, randVars, reports>>
      /\ dpc = "check" /\ frames = <<>>
  BY DEF Check
<1>1. CASE moved <= 0
  <2>1. Done /\ UNCHANGED <<dpc, misses, buf>>
    BY <1>1 DEF Check
  <2>2. frames' \in Seq({"begin", "print", "exit"})
    BY <2>1, DoneFrames
  <2>. QED
    BY <1>0, <2>1, <2>2, CmdSame DEF DdTypes, Buffers, WriterOf
<1>2. CASE ~(moved <= 0)
  <2>1. PICK wrong \in Int : wrong = IF cmd.ipat THEN Wrong ELSE 0
    <3>1. moved > 0
      BY <1>2 DEF DdTypes
    <3>. QED
      BY <3>1, WrongType
  <2>2. /\ misses' = IF cmd.mismatch = None THEN misses ELSE misses - wrong
        /\ \/ Done /\ UNCHANGED <<dpc, buf>>
           \/ /\ UNCHANGED frames
              /\ buf' = IF cmd.if = Internal THEN buf ELSE Touched(buf)
              /\ dpc' = IF cmd.of = Internal THEN "count"
                        ELSE IF cmd.fork THEN "fork" ELSE "write"
    BY Zenon, <1>2, <2>1 DEF Check
  <2>3. misses' \in Int
    BY <2>1, <2>2 DEF DdTypes
  <2>4. moved > 0
    BY <1>2 DEF DdTypes
  <2>5. CASE Done /\ UNCHANGED <<dpc, buf>>
    <3>1. frames' \in Seq({"begin", "print", "exit"})
      BY <2>5, DoneFrames
    <3>. QED
      BY <1>0, <2>3, <2>5, <3>1, CmdSame DEF DdTypes, Buffers, WriterOf
  <2>6. CASE /\ UNCHANGED frames
             /\ buf' = IF cmd.if = Internal THEN buf ELSE Touched(buf)
             /\ dpc' = IF cmd.of = Internal THEN "count"
                       ELSE IF cmd.fork THEN "fork" ELSE "write"
    <3>1. buf' \in Buffers
      BY <2>6, BufferKept DEF DdTypes
    <3>2. dpc' \in {"count", "fork", "write"}
          /\ (dpc' = "write" => ~cmd.fork /\ cmd.of # Internal)
          /\ (dpc' = "fork" => cmd.fork /\ cmd.of # Internal)
      BY <2>6
    <3>. QED
      BY <1>0, <2>3, <2>4, <2>6, <3>1, <3>2, CmdSame
      DEF DdTypes, Buffers, WriterOf
  <2>. QED
    BY <2>2, <2>5, <2>6
<1>. QED
  BY <1>1, <1>2

\* The child that writes.
LEMMA WriterType ==
  ASSUME DdTypes, writer # <<>>
  PROVE  /\ writer[1] \in WriterOf /\ writer = <<writer[1]>>
         /\ writer[1].moved \in 1..cmd.bs /\ Pending = writer[1].moved
<1>1. PICK w \in WriterOf : writer = <<w>>
  BY DEF DdTypes
<1>2. writer[1] = w
  BY <1>1
<1>3. w.moved \in 1..cmd.bs
  BY DEF WriterOf
<1>. QED
  BY Zenon, <1>1, <1>2, <1>3 DEF Pending

LEMMA DdTypesWrite ==
  ASSUME DdTypes, DdShape, Write \/ WriteFails
  PROVE  DdTypes' /\ DdShape'
<1>. USE DEF DdShape, DdPc, Running, fileVars, randVars, doneVars
<1>1. Touched(Written(buf)) \in Buffers
  BY BufferKept
<1>2. moved \in Int /\ moved <= cmd.bs /\ cmd.bs \in Nat /\ dpc = "write"
      /\ moved > 0
  BY CmdTypes DEF DdTypes, Write, WriteFails
<1>3. PICK n \in 0..cmd.bs : Put(Written(buf), n)
  <2>1. CASE Write
    <3>1. moved \in 0..cmd.bs /\ Put(Written(buf), moved)
      BY <1>2, <2>1 DEF Write
    <3>. QED
      BY Zenon, <3>1
  <2>2. CASE WriteFails
    <3>1. PICK n \in 0..moved - 1 : Put(Written(buf), n)
      BY Zenon, <2>2 DEF WriteFails
    <3>2. n \in 0..cmd.bs
      BY <1>2, <3>1
    <3>. QED
      BY Zenon, <3>1, <3>2
  <2>. QED
    BY <2>1, <2>2
<1>4. DOMAIN out' \subseteq LookedAt /\ outpos' \in Int /\ wrote' \in Nat
  BY Zenon, <1>3, PutBytes
<1>5. CASE Write
  <2>1. buf' \in Buffers /\ dpc' = "count"
        /\ UNCHANGED <<cmd, off, count, padin, moved, intCount, misses,
                       writer, odds, mishaps, inpos, randVars, doneVars>>
    BY <1>1, <1>5 DEF Write
  <2>. QED
    BY <1>2, <1>4, <2>1, CmdSame DEF DdTypes, Buffers, WriterOf, LookedAt
<1>6. CASE WriteFails
  <2>1. frames' \in Seq({"begin", "print", "exit"})
    BY <1>6, DoneFrames DEF WriteFails
  <2>2. UNCHANGED <<cmd, dpc, off, count, padin, buf, moved, intCount, misses,
                    writer, odds, inpos, randVars, reports>>
    BY <1>6 DEF WriteFails
  <2>. QED
    BY <1>2, <1>4, <2>1, <2>2, CmdSame DEF DdTypes, Buffers, WriterOf, LookedAt
<1>. QED
  BY <1>5, <1>6

LEMMA DdTypesFork ==
  ASSUME DdTypes, DdShape, ForkWriter \/ ForkFails
  PROVE  DdTypes' /\ DdShape'
<1>. USE DEF DdShape, DdPc, Running, fileVars, randVars, doneVars
<1>1. moved \in 1..cmd.bs /\ Written(buf) \in Buffers /\ intCount \in Nat
      /\ dpc = "fork"
  BY BufferKept, CmdTypes DEF DdTypes, ForkWriter, ForkFails
<1>2. CASE ForkWriter
  <2>1. PICK w : w = [buf |-> Written(buf), moved |-> moved,
                      count |-> intCount]
    OBVIOUS
  <2>2. w \in WriterOf
    BY <1>1, <2>1 DEF WriterOf
  <2>3. writer' = <<w>> /\ dpc' = "count"
        /\ UNCHANGED <<cmd, off, count, padin, buf, moved, intCount, misses,
                       odds, mishaps, fileVars, randVars, doneVars>>
    BY Zenon, <1>2, <2>1 DEF ForkWriter
  <2>4. cmd' = cmd /\ WriterOf' = WriterOf
    BY <2>3 DEF WriterOf, Buffers
  <2>5. \E v \in WriterOf' : writer' = <<v>>
    BY Zenon, <2>2, <2>3, <2>4
  <2>. QED
    BY <1>1, <2>3, <2>5, CmdSame DEF DdTypes, Buffers
<1>3. CASE ForkFails
  BY <1>1, <1>3, CmdSame DEF ForkFails, DdTypes, Buffers, WriterOf
<1>. QED
  BY <1>2, <1>3

LEMMA DdTypesChild ==
  ASSUME DdTypes, DdShape, ChildWrites \/ ChildFails
  PROVE  DdTypes' /\ DdShape'
<1>. USE DEF DdShape, DdPc, fileVars, randVars, doneVars
<1>1. CASE ChildWrites
  <2>1. writer[1].moved \in 1..cmd.bs
    BY <1>1, WriterType DEF ChildWrites
  <2>2. writer[1].moved \in 0..cmd.bs
    BY <2>1
  <2>3. Put(writer[1].buf, writer[1].moved)
    BY <1>1 DEF ChildWrites
  <2>4. DOMAIN out' \subseteq LookedAt /\ outpos' \in Int /\ wrote' \in Nat
    BY Zenon, <2>2, <2>3, PutBytes
  <2>5. writer' = <<>>
        /\ UNCHANGED <<cmd, dpc, off, count, padin, buf, moved, intCount,
                       misses, odds, mishaps, inpos, randVars, doneVars>>
    BY <1>1 DEF ChildWrites
  <2>. QED
    BY <2>4, <2>5, CmdSame DEF DdTypes, Buffers, LookedAt
<1>2. CASE ChildFails
  BY <1>2, CmdSame DEF ChildFails, DdTypes, Buffers
<1>. QED
  BY <1>1, <1>2

LEMMA DdTypesDone ==
  ASSUME DdTypes, DdShape,
         \/ Shift \/ PrintOut \/ ExitDone
         \/ \E sig \in {"alarm", "int"} : Signal(sig)
  PROVE  DdTypes' /\ DdShape'
<1>. USE DEF DdShape, DdPc, fileVars, randVars, doneVars, Frame
<1>0. frames \in Seq({"begin", "print", "exit"}) /\ Len(frames) \in Nat
  BY DEF DdTypes
<1>1. ASSUME frames' \in Seq({"begin", "print", "exit"}), intCount' \in Nat,
             dpc' \in {dpc, "exited"},
             UNCHANGED <<cmd, off, count, padin, buf, moved, misses, writer,
                         odds, fileVars, randVars>>
      PROVE  DdTypes' /\ DdShape'
  BY <1>1, CmdSame DEF DdTypes, Buffers, WriterOf
<1>2. CASE Shift
  <2>1. frames' \in Seq({"begin", "print", "exit"}) /\ intCount' \in Nat
    BY <1>0, <1>2 DEF Shift, DdTypes
  <2>. QED
    BY <1>1, <1>2, <2>1 DEF Shift
<1>3. CASE PrintOut
  <2>1. frames' \in Seq({"begin", "print", "exit"}) /\ intCount' \in Nat
    BY <1>0, <1>3 DEF PrintOut, DdTypes
  <2>. QED
    BY <1>1, <1>3, <2>1 DEF PrintOut
<1>4. CASE ExitDone
  <2>1. frames' \in Seq({"begin", "print", "exit"}) /\ intCount' \in Nat
    BY <1>4 DEF ExitDone, DdTypes
  <2>. QED
    BY <1>1, <1>4, <2>1 DEF ExitDone
<1>5. CASE \E sig \in {"alarm", "int"} : Signal(sig)
  <2>1. Done
        /\ UNCHANGED <<cmd, dpc, off, count, padin, buf, moved, intCount,
                       misses, writer, odds, fileVars, randVars, reports>>
    BY <1>5 DEF Signal
  <2>2. frames' \in Seq({"begin", "print", "exit"}) /\ intCount' \in Nat
    BY <2>1, DoneFrames DEF DdTypes
  <2>. QED
    BY <1>1, <2>1, <2>2
<1>. QED
  BY <1>2, <1>3, <1>4, <1>5

LEMMA DdTypesNext ==
  ASSUME DdTypes, DdShape, [DdNext]_ddVars
  PROVE  DdTypes' /\ DdShape'
<1>1. CASE UNCHANGED ddVars
  BY <1>1, CmdSame DEF DdTypes, DdShape, ddVars, fileVars, randVars, doneVars,
     Buffers, WriterOf
<1>2. CASE DdNext
  BY Zenon, <1>2, DdTypesLoop, DdTypesRandom, DdTypesRead, DdTypesCheck,
     DdTypesWrite, DdTypesFork, DdTypesChild, DdTypesDone DEF DdNext, DdStep
<1>. QED
  BY <1>1, <1>2

-----------------------------------------------------------------------------
(* What is read.                                                           *)

\* What has been is not forgotten.
Grows ==
    /\ cmd' = cmd /\ mishaps \subseteq mishaps'
    /\ odds' \in Nat /\ odds <= odds'
    /\ visited' = visited \/ \E o : visited' = Append(visited, o)

LEMMA GrowsNext ==
  ASSUME DdTypes, [DdNext]_ddVars
  PROVE  Grows
<1>0. odds \in Nat
  BY DEF DdTypes
<1>. USE DEF Grows, Mishap, fileVars, randVars, doneVars
<1>1. CASE UNCHANGED ddVars
  BY <1>0, <1>1 DEF ddVars
<1>2. CASE LastBlock \/ Sequential \/ Read \/ Padding \/ Check
  BY <1>0, <1>2 DEF LastBlock, Sequential, Read, Padding, Check
<1>3. CASE Random
  <2>1. \E o : visited' = Append(visited, o)
    BY <1>3, RandomChoice
  <2>. QED
    BY <1>0, <1>3, <2>1 DEF Random
<1>4. CASE Write \/ Count \/ ForkWriter \/ ChildWrites
  BY <1>0, <1>4 DEF Write, Count, ForkWriter, ChildWrites
<1>5. CASE Shift \/ PrintOut \/ ExitDone
  BY <1>0, <1>5 DEF Shift, PrintOut, ExitDone
<1>6. CASE ReadFails \/ WriteFails \/ ForkFails \/ ChildFails
  BY <1>0, <1>6 DEF ReadFails, WriteFails, ForkFails, ChildFails
<1>7. CASE \E sig \in {"alarm", "int"} : Signal(sig)
  BY <1>0, <1>7 DEF Signal
<1>. QED
  BY <1>1, <1>2, <1>3, <1>4, <1>5, <1>6, <1>7 DEF DdNext, DdStep

LEMMA HistoryGrows ==
  ASSUME DdTypes, Grows
  PROVE  /\ Astray => Astray'
         /\ Refused => Refused'
         /\ \A p : Spoiled(p) => Spoiled(p)'
<1>0. /\ cmd' = cmd /\ odds' \in Nat /\ odds <= odds'
      /\ visited' = visited \/ \E o : visited' = Append(visited, o)
  BY DEF Grows
<1>1. visited \in Seq(Int) /\ odds \in Nat
  BY DEF DdTypes
<1>2. Len(visited) \in Nat /\ Len(visited') \in Nat
      /\ Len(visited) <= Len(visited')
      /\ \A i \in 1..Len(visited) : visited'[i] = visited[i]
  BY <1>0, <1>1
<1>3. \A i \in 1..Len(visited) :
         i \in 1..Len(visited') /\ visited'[i] = visited[i]
  BY <1>2
<1>4. Refused => Refused'
  BY Zenon, <1>3 DEF Refused
<1>5. Randomly' = Randomly
  BY <1>0, CmdSame
<1>6. Astray => Astray'
  <2>1. odds > 0 => odds' > 0
    BY <1>0, <1>1
  <2>. QED
    BY Zenon, <2>1, <1>0, <1>3 DEF Astray
<1>7. \A p : Spoiled(p) => Spoiled(p)'
  BY <1>0, <1>3, <1>4, <1>5 DEF Spoiled
<1>. QED
  BY <1>4, <1>6, <1>7

LEMMA InputsInit ==
  ASSUME DdInit
  PROVE  Inputs
<1>1. PICK c \in Commands : DdStart(c)
  BY DEF DdInit
<1>2. cmd \in Commands /\ cmd.bs \in Nat /\ cmd.bs > 0 /\ cmd.skip \in Int
  BY <1>1, CmdTypes DEF DdStart
<1>3. off % cmd.bs = 0
  <2>1. CASE cmd.skip = None
    BY <1>1, <1>2, <2>1 DEF DdStart
  <2>2. CASE cmd.skip # None
    <3>1. off = cmd.skip * cmd.bs
      BY <1>1, <2>2 DEF DdStart
    <3>. QED
      BY <3>1, <1>2, BlockMultiple
  <2>. QED
    BY <2>1, <2>2
<1>4. off \in Int
  BY <1>1, DdTypesInit DEF DdTypes
<1>5. /\ dpc = "loop"
      /\ inpos = IF cmd.pipe THEN 0 ELSE off
      /\ cmd.skip = None => off = 0
  BY <1>1 DEF DdStart
<1>6. cmd.bs % 4 = 0 => off % 4 = 0
  BY <1>2, <1>3, <1>4, BlockOfWords
<1>7. Blocks /\ BeenHere /\ InPipe
  BY <1>3, <1>5, <1>6 DEF Blocks, BeenHere, InPipe, HasBlock
<1>8. InWords
  BY <1>5, <1>6 DEF InWords, HasBlock, OddBytes
<1>9. ~Displaced => inpos = off
  BY <1>5 DEF Displaced
<1>10. Reading
  BY <1>4, <1>5, <1>9 DEF Reading, HasBlock
<1>. QED
  BY <1>7, <1>8, <1>10 DEF Inputs

\* The loop has been left.
LEMMA InputsLeft ==
  ASSUME ~InLoop'
  PROVE  Inputs'
  BY DEF Inputs, Blocks, BeenHere, InPipe, InWords, Reading

LEMMA InputsSame ==
  ASSUME Inputs,
         UNCHANGED <<cmd, dpc, off, moved, buf, inpos, visited, odds, frames>>
  PROVE  Inputs'
<1>1. Refused' = Refused /\ Astray' = Astray
  BY DEF Refused, Astray
<1>2. /\ Randomly' = Randomly /\ Displaced' = Displaced
      /\ OddBytes' = OddBytes /\ InLoop' = InLoop /\ HasBlock' = HasBlock
      /\ Ended' = Ended
  BY CmdSame DEF InLoop, HasBlock, Ended, Internal, None
<1>3. Blocks' /\ InPipe' /\ InWords' /\ BeenHere'
  BY <1>1, <1>2 DEF Inputs, Blocks, BeenHere, InPipe, InWords, Internal, None
<1>4. Reading'
  BY <1>1, <1>2 DEF Inputs, Reading, Internal, None
<1>. QED
  BY <1>3, <1>4 DEF Inputs

LEMMA InputsRandom ==
  ASSUME DdTypes, Random
  PROVE  Inputs'
<1>1. PICK o \in Int : off' = o /\ Seek(o) /\ visited' = Append(visited, o)
  BY RandomChoice
<1>2. cmd' = cmd /\ Randomly /\ Randomly' /\ dpc' = "read"
      /\ visited \in Seq(Int) /\ ~HasBlock'
  BY CmdSame DEF Random, DdTypes, HasBlock
<1>3. PICK k : k = Len(visited')
  OBVIOUS
<1>4. k \in 1..Len(visited') /\ visited'[k] = o
  BY <1>1, <1>2, <1>3
<1>5. BeenHere'
  BY Zenon, <1>1, <1>4 DEF BeenHere
<1>6. Blocks' /\ InPipe'
  BY <1>2 DEF Blocks, InPipe
<1>7. /\ ~Astray' => o >= 0 /\ o % 4 = 0
      /\ ~Refused' => o >= 0
  <2>1. ~Astray' => ~(o < 0 \/ o % 4 # 0)
    BY Zenon, <1>4 DEF Astray
  <2>2. ~Refused' => ~(o < 0)
    BY Zenon, <1>4 DEF Refused
  <2>. QED
    BY <2>1, <2>2
<1>8. o >= 0 /\ ~cmd.pipe => inpos' = o
  BY <1>1 DEF Seek
<1>9. InWords'
  BY <1>2, <1>7, <1>8 DEF InWords, OddBytes
<1>10. Reading'
  BY <1>1, <1>2, <1>7, <1>8 DEF Reading, Displaced
<1>. QED
  BY <1>5, <1>6, <1>9, <1>10 DEF Inputs

LEMMA InputsRead ==
  ASSUME DdTypes, Inputs, Read
  PROVE  Inputs'
<1>1. cmd \in Commands /\ cmd.bs \in Nat /\ cmd.bs > 0 /\ cmd.if \in Int
      /\ inpos \in Int /\ off \in Int /\ InLoop /\ dpc = "read" /\ ~HasBlock
  BY CmdTypes DEF DdTypes, Read, InLoop, HasBlock, Running
<1>2. /\ UNCHANGED <<cmd, off, visited, odds, frames>>
      /\ dpc' = IF padin /\ cmd.if # Internal THEN "pad" ELSE "check"
  BY DEF Read, randVars, doneVars
<1>3. /\ Randomly' = Randomly /\ Displaced' = Displaced
      /\ OddBytes' = OddBytes /\ Refused' = Refused /\ Astray' = Astray
      /\ Internal' = Internal
  BY <1>2, CmdSame DEF Refused, Astray, Internal, None
<1>4. BeenHere'
  BY <1>1, <1>2, <1>3 DEF Inputs, BeenHere
<1>5. InPipe'
  BY <1>1, <1>2, <1>3 DEF Inputs, InPipe
<1>6. CASE cmd.if = Internal
  <2>1. moved' = cmd.bs /\ dpc' = "check" /\ HasBlock'
    BY <1>1, <1>2, <1>6 DEF Read, HasBlock
  <2>2. Blocks'
    BY <1>1, <1>2, <1>3, <1>6, <2>1 DEF Inputs, Blocks, Ended
  <2>3. InWords'
    BY <1>2, <1>3, <1>6, <2>1 DEF InWords
  <2>4. Reading'
    BY <1>2, <1>3, <1>6 DEF Reading
  <2>. QED
    BY <2>2, <2>3, <2>4, <1>4, <1>5 DEF Inputs
<1>7. CASE cmd.if # Internal
  <2>1. PICK n \in Readable :
           moved' = n /\ buf' = Filled(n) /\ inpos' = inpos + n
    BY Zenon, <1>7 DEF Read
  <2>2. /\ n \in Nat /\ n <= cmd.bs
        /\ inpos >= cmd.if => n = 0
        /\ inpos < cmd.if /\ ~cmd.pipe => n = cmd.bs \/ inpos + n = cmd.if
    BY ReadableType
  <2>3. Blocks'
    <3>1. CASE Ended
      <4>1. n = 0 /\ ~HasBlock' /\ Ended'
        BY <3>1, <2>1, <2>2, <1>1, <1>2, <1>3 DEF Ended, HasBlock
      <4>. QED
        BY <4>1 DEF Blocks
    <3>2. CASE ~Ended
      <4>1. inpos < cmd.if
        BY <3>2, <1>1, <1>7 DEF Ended
      <4>2. ~cmd.pipe => moved' = cmd.bs \/ Ended'
        BY <4>1, <2>1, <2>2, <1>1, <1>2, <1>3, <1>7 DEF Ended
      <4>3. ~Randomly /\ ~cmd.pipe => off % cmd.bs = 0
        BY <3>2, <1>1 DEF Inputs, Blocks
      <4>. QED
        BY <4>2, <4>3, <1>2, <1>3 DEF Blocks
    <3>. QED
      BY <3>1, <3>2
  <2>4. InWords'
    <3>1. ASSUME cmd.bs % 4 = 0, ~OddBytes, ~Astray
          PROVE  inpos' % 4 = 0 /\ moved' % 4 = 0
      <4>1. cmd.if % 4 = 0 /\ ~cmd.pipe /\ inpos % 4 = 0
        BY <3>1, <1>1, <1>7 DEF OddBytes, Inputs, InWords
      <4>. QED
        BY <4>1, <3>1, <2>1, <2>2, <1>1
    <3>. QED
      BY <3>1, <1>2, <1>3 DEF InWords
  <2>5. Reading'
    <3>1. ASSUME NEW i \in 1..n
          PROVE  buf'[i] = FileByte(inpos' - moved' + i - 1)
      <4>1. i \in 1..cmd.bs /\ i <= n
        BY <2>2, <1>1
      <4>2. Filled(n)[i] = FileByte(inpos + i - 1)
        BY <4>1 DEF Filled
      <4>3. inpos' - moved' + i - 1 = inpos + i - 1
        BY <4>1, <2>1, <2>2, <1>1
      <4>. QED
        BY Zenon, <4>2, <4>3, <2>1
    <3>2. \A i \in 1..moved' : buf'[i] = FileByte(inpos' - moved' + i - 1)
      BY Zenon, <3>1, <2>1
    <3>3. ASSUME ~cmd.padin, ~Displaced, ~Refused
          PROVE  inpos' = off' + IF HasBlock' THEN moved' ELSE 0
      <4>1. dpc' = "check"
        BY <3>3, <1>1, <1>2 DEF DdTypes
      <4>2. inpos = off
        BY <3>3, <1>1, <1>7 DEF Inputs, Reading
      <4>. QED
        BY <4>1, <4>2, <2>1, <2>2, <1>1, <1>2 DEF HasBlock
    <3>. QED
      BY <3>2, <3>3, <1>2, <1>3 DEF Reading
  <2>. QED
    BY <2>3, <2>4, <2>5, <1>4, <1>5 DEF Inputs
<1>. QED
  BY <1>6, <1>7

LEMMA InputsCheck ==
  ASSUME DdTypes, Inputs, Check
  PROVE  Inputs'
<1>1. cmd \in Commands /\ cmd.bs \in Nat /\ moved \in Int /\ off \in Int
      /\ moved <= cmd.bs /\ InLoop /\ dpc = "check" /\ inpos \in Int
      /\ DOMAIN buf = 1..cmd.bs
  BY CmdTypes DEF DdTypes, Check, InLoop, Running, Buffers
<1>2. UNCHANGED <<cmd, off, moved, inpos, visited, odds>>
  BY DEF Check, fileVars, randVars
<1>3. /\ Randomly' = Randomly /\ Displaced' = Displaced
      /\ OddBytes' = OddBytes /\ Refused' = Refused /\ Astray' = Astray
      /\ Internal' = Internal
  BY <1>2, CmdSame DEF Refused, Astray, Internal, None
<1>4. CASE Done
  <2>1. ~InLoop'
    BY <1>4, DoneFrames DEF InLoop
  <2>. QED
    BY <2>1, InputsLeft
<1>5. CASE ~Done
  <2>1. moved > 0 /\ HasBlock
    BY <1>1, <1>5 DEF Check, HasBlock
  <2>2. /\ buf' = IF cmd.if = Internal THEN buf ELSE Touched(buf)
        /\ dpc' = IF cmd.of = Internal THEN "count"
                  ELSE IF cmd.fork THEN "fork" ELSE "write"
    BY <2>1, <1>1, <1>5 DEF Check
  <2>3. HasBlock' /\ dpc' \notin {"check", "loop"}
    BY <2>2 DEF HasBlock
  <2>4. Blocks' /\ InPipe'
    BY <1>1, <1>2, <1>3, <2>1, <2>3 DEF Inputs, Blocks, InPipe, Ended
  <2>5. BeenHere' /\ InWords'
    BY <1>1, <1>2, <1>3, <2>1, <2>3 DEF Inputs, BeenHere, InWords
  <2>6. ASSUME cmd.if # Internal PROVE Reading'
    <3>1. \A i \in 1..moved : buf[i] = FileByte(inpos - moved + i - 1)
      BY <2>6, <1>1 DEF Inputs, Reading
    <3>2. ASSUME NEW i \in 1..moved
          PROVE  \/ buf'[i] = FileByte(inpos' - moved' + i - 1)
                 \/ cmd'.touch /\ (i - 1) % 4096 = 0
      <4>1. i \in DOMAIN buf
        BY <1>1
      <4>2. buf' = Touched(buf)
        BY <2>2, <2>6
      <4>3. buf'[i] = IF cmd.touch /\ i <= moved /\ (i - 1) % 4096 = 0
                      THEN IntByte(0, 0) ELSE buf[i]
        BY <4>1, <4>2 DEF Touched
      <4>4. inpos' - moved' + i - 1 = inpos - moved + i - 1
        BY <1>2
      <4>. QED
        BY <4>3, <4>4, <3>1, <1>2
    <3>3. \A i \in 1..moved' :
             \/ buf'[i] = FileByte(inpos' - moved' + i - 1)
             \/ dpc' # "check" /\ cmd'.touch /\ (i - 1) % 4096 = 0
      <4>1. moved' = moved /\ dpc' # "check"
        BY <1>2, <2>3
      <4>. QED
        BY <4>1, <3>2
    <3>4. ASSUME ~cmd'.padin, ~Displaced', ~Refused'
          PROVE  inpos' = off' + IF HasBlock' THEN moved' ELSE 0
      BY <3>4, <2>1, <2>3, <2>6, <1>1, <1>2, <1>3 DEF Inputs, Reading
    <3>. QED
      BY Zenon, <3>3, <3>4 DEF Reading
  <2>7. Reading'
    BY <2>6, <1>2, <1>3 DEF Reading
  <2>. QED
    BY <2>4, <2>5, <2>7 DEF Inputs
<1>. QED
  BY <1>4, <1>5

\* A block has been counted.
LEMMA InputsCount ==
  ASSUME DdTypes, Inputs, Count
  PROVE  Inputs'
<1>0. cmd \in Commands /\ cmd.bs \in Nat /\ cmd.bs > 0 /\ moved \in Int
      /\ off \in Int /\ inpos \in Int /\ odds \in Nat
  BY CmdTypes DEF DdTypes
<1>1. /\ dpc = "count" /\ dpc' \in {"exited", "loop"} /\ off' = off + moved
      /\ UNCHANGED <<cmd, moved, inpos, visited, frames>> /\ frames = <<>>
      /\ odds' = IF moved % 4 = 0 THEN odds ELSE odds + 1
  BY DEF Count, Running, fileVars, randVars, doneVars
<1>2. HasBlock /\ ~HasBlock' /\ InLoop
  BY <1>1 DEF HasBlock, InLoop
<1>3. /\ Randomly' = Randomly /\ Displaced' = Displaced
      /\ OddBytes' = OddBytes /\ Refused' = Refused
      /\ Internal' = Internal /\ Ended' = Ended
  BY <1>1, CmdSame DEF Refused, Internal, None, Ended
<1>4. Astray => Astray'
  <2>1. Grows
    BY GrowsNext DEF DdNext, DdStep
  <2>. QED
    BY Zenon, <2>1, HistoryGrows
<1>5. Blocks'
  <2>1. CASE ~Randomly /\ ~cmd.pipe
    <3>1. off % cmd.bs = 0 /\ (moved = cmd.bs \/ Ended)
      BY <2>1, <1>2 DEF Inputs, Blocks
    <3>2. ASSUME ~Ended PROVE off' % cmd'.bs = 0
      <4>1. (off + cmd.bs) % cmd.bs = 0
        BY <3>1, <1>0, NextBlock
      <4>2. off' = off + cmd.bs /\ cmd' = cmd
        BY <3>1, <3>2, <1>1
      <4>. QED
        BY Zenon, <4>1, <4>2
    <3>. QED
      BY <3>2, <1>2, <1>3 DEF Blocks
  <2>2. CASE ~(~Randomly /\ ~cmd.pipe)
    BY <2>2, <1>1, <1>3 DEF Blocks
  <2>. QED
    BY <2>1, <2>2
<1>6. BeenHere'
  BY <1>1 DEF BeenHere, InLoop
<1>7. InPipe'
  <2>1. ASSUME off % 4 = 0 \/ odds > 0 PROVE off' % 4 = 0 \/ odds' > 0
    BY <2>1, <1>0, <1>1
  <2>. QED
    BY <2>1, <1>1, <1>2, <1>3 DEF Inputs, InPipe
<1>8. InWords'
  BY <1>1, <1>2, <1>3, <1>4 DEF Inputs, InWords
<1>9. Reading'
  <2>1. dpc' \notin {"check", "write", "fork"}
    BY <1>1
  <2>2. ASSUME cmd.if # Internal, ~cmd.padin, ~Displaced, ~Refused
        PROVE  inpos' = off' + 0
    <3>1. inpos = off + moved
      BY <2>2, <1>2 DEF Inputs, Reading
    <3>. QED
      BY <3>1, <1>0, <1>1
  <2>. QED
    BY <2>1, <2>2, <1>1, <1>2, <1>3 DEF Reading
<1>. QED
  BY <1>5, <1>6, <1>7, <1>8, <1>9 DEF Inputs

\* Steps of the loop that leave the buffer and the input alone.
LEMMA InputsLoop ==
  ASSUME DdTypes, DdShape, Inputs,
         \/ Sequential \/ ReadFails \/ Padding \/ Write
         \/ ForkWriter \/ ForkFails
  PROVE  Inputs'
<1>. USE DEF Running, fileVars, randVars, doneVars
<1>0. UNCHANGED <<cmd, off, inpos, visited, odds, frames>> /\ InLoop
  BY DEF Sequential, ReadFails, Padding, Write, ForkWriter, ForkFails, InLoop
<1>1. /\ Randomly' = Randomly /\ Displaced' = Displaced
      /\ OddBytes' = OddBytes /\ Refused' = Refused /\ Astray' = Astray
      /\ Internal' = Internal /\ Ended' = Ended
  BY <1>0, CmdSame DEF Refused, Astray, Internal, None, Ended
<1>2. ASSUME HasBlock' = HasBlock, HasBlock => moved' = moved,
             dpc' \in {"check", "write", "fork"} => moved' <= 0,
             dpc' = "loop" \/ dpc # "loop" \/ ~Randomly, moved' \in Int
      PROVE  Inputs'
  <2>1. Blocks' /\ InPipe' /\ InWords'
    BY <1>0, <1>1, <1>2 DEF Inputs, Blocks, InPipe, InWords
  <2>2. BeenHere'
    BY <1>0, <1>1, <1>2 DEF Inputs, BeenHere
  <2>3. Reading'
    <3>1. ASSUME dpc' \in {"check", "write", "fork"} PROVE 1..moved' = {}
      BY <3>1, <1>2
    <3>2. ASSUME cmd.if # Internal, ~cmd.padin, ~Displaced, ~Refused
          PROVE  inpos' = off' + IF HasBlock' THEN moved' ELSE 0
      BY <3>2, <1>0, <1>2 DEF Inputs, Reading
    <3>. QED
      BY <3>1, <3>2, <1>0, <1>1 DEF Reading
  <2>. QED
    BY <2>1, <2>2, <2>3 DEF Inputs
<1>3. CASE Sequential
  BY <1>2, <1>3 DEF Sequential, HasBlock, DdTypes
<1>4. CASE ReadFails
  BY <1>2, <1>4 DEF ReadFails, HasBlock
<1>5. CASE Padding
  BY <1>2, <1>5 DEF Padding, HasBlock, DdTypes
<1>6. CASE Write \/ ForkWriter \/ ForkFails
  BY <1>2, <1>6 DEF Write, ForkWriter, ForkFails, HasBlock, DdTypes
<1>. QED
  BY <1>3, <1>4, <1>5, <1>6

LEMMA InputsNext ==
  ASSUME DdTypes, DdShape, Inputs, [DdNext]_ddVars
  PROVE  Inputs'
<1>. USE DEF Running, fileVars, randVars, doneVars
<1>1. CASE \/ LastBlock \/ WriteFails
           \/ \E sig \in {"alarm", "int"} : Signal(sig)
  <2>1. Done
    BY <1>1 DEF LastBlock, WriteFails, Signal
  <2>2. ~InLoop'
    BY <2>1, DoneFrames DEF InLoop
  <2>. QED
    BY <2>2, InputsLeft
<1>2. CASE Shift \/ PrintOut \/ ExitDone
  <2>1. ~InLoop'
    <3>1. frames \in Seq({"begin", "print", "exit"})
      BY DEF DdTypes
    <3>. QED
      BY <3>1, <1>2 DEF Shift, PrintOut, ExitDone, InLoop, Frame
  <2>. QED
    BY <2>1, InputsLeft
<1>3. CASE ChildWrites \/ ChildFails \/ UNCHANGED ddVars
  <2>1. UNCHANGED <<cmd, dpc, off, moved, buf, inpos, visited, odds, frames>>
    BY <1>3 DEF ChildWrites, ChildFails, ddVars
  <2>. QED
    BY <2>1, InputsSame
<1>. QED
  BY Zenon, <1>1, <1>2, <1>3, InputsRandom, InputsRead, InputsCheck,
     InputsCount, InputsLoop DEF DdNext, DdStep

-----------------------------------------------------------------------------
(* What is written and compared.                                           *)

\* What is exempt of the output for another reason than its bytes.
Elsewhere(p) ==
    \/ cmd.append /\ p >= cmd.of
    \/ cmd.fork /\ Randomly
    \/ ~NoneLost

LEMMA FaithfulIs ==
  /\ OutputFaithful <=>
        \A p \in DOMAIN out : Fine(out[p], p) \/ Elsewhere(p)
  /\ OutputFaithful' <=>
        \A p \in DOMAIN out' : Fine(out[p], p)' \/ Elsewhere(p)'
  BY DEF OutputFaithful, Fine, Excused, Elsewhere, NoneLost

LEMMA FineGrows ==
  ASSUME DdTypes, Grows
  PROVE  /\ \A v, p : Fine(v, p) => Fine(v, p)'
         /\ \A p : Elsewhere(p) => Elsewhere(p)'
         /\ KnownPlace' => KnownPlace
<1>1. /\ Astray => Astray'
      /\ \A p : Spoiled(p) => Spoiled(p)'
  BY HistoryGrows
<1>2. cmd' = cmd /\ mishaps \subseteq mishaps'
  BY DEF Grows
<1>3. /\ Randomly' = Randomly /\ Displaced' = Displaced
      /\ OddBytes' = OddBytes /\ Internal' = Internal
  BY <1>2, CmdSame DEF Internal, None
<1>4. \A p : Excused(p) => Excused(p)'
  BY <1>1, <1>2, <1>3 DEF Excused
<1>5. \A v, p : Fine(v, p) => Fine(v, p)'
  BY Zenon, <1>4 DEF Fine
<1>6. NoneLost' => NoneLost
  BY <1>2 DEF NoneLost
<1>7. \A p : Elsewhere(p) => Elsewhere(p)'
  BY <1>2, <1>3, <1>6 DEF Elsewhere
<1>8. KnownPlace' => KnownPlace
  BY <1>2, <1>3, <1>6 DEF KnownPlace
<1>. QED
  BY <1>5, <1>7, <1>8

LEMMA OutputsInit ==
  ASSUME DdInit
  PROVE  Outputs
<1>1. PICK c \in Commands : DdStart(c)
  BY DEF DdInit
<1>2. /\ off \in Int /\ outpos = off /\ writer = <<>> /\ dpc = "loop"
      /\ misses = cmd.mismatch /\ inpos = IF cmd.pipe THEN 0 ELSE off
      /\ cmd.skip = None => off = 0
  BY <1>1, DdTypesInit DEF DdStart, DdTypes
<1>3. InPlace
  <2>1. Pending = 0 /\ HeldBack = 0 /\ ToCount = 0
    BY <1>2 DEF Pending, HeldBack, ToCount, HasBlock
  <2>2. ~Displaced => inpos = off
    BY <1>2 DEF Displaced
  <2>. QED
    BY <1>2, <2>1, <2>2 DEF InPlace
<1>4. \A p \in DOMAIN out : Fine(out[p], p)
  BY <1>1 DEF DdStart, Fine
<1>5. OutputFaithful
  BY Zenon, <1>4, FaithfulIs
<1>. QED
  BY <1>2, <1>3, <1>5 DEF Outputs, Handed, NoMismatch

\* What does not write leaves what is written.
LEMMA FaithfulKept ==
  ASSUME DdTypes, Grows, OutputFaithful, out' = out
  PROVE  OutputFaithful'
  BY Zenon, FaithfulIs, FineGrows

LEMMA HandedKept ==
  ASSUME DdTypes, Grows, Handed, UNCHANGED <<writer, outpos>>
  PROVE  Handed'
<1>1. Pending' = Pending
  BY DEF Pending
<1>2. ASSUME KnownPlace', writer' # <<>>
      PROVE  \A i \in 1..Pending' : Fine(writer[1].buf[i], outpos + i - 1)'
  <2>1. \A i \in 1..Pending : Fine(writer[1].buf[i], outpos + i - 1)
    BY <1>2, FineGrows DEF Handed
  <2>2. ASSUME NEW i \in 1..Pending'
        PROVE  Fine(writer[1].buf[i], outpos + i - 1)'
    <3>1. PICK v, p : v = writer[1].buf[i] /\ p = outpos + i - 1
      OBVIOUS
    <3>2. Fine(v, p)'
      BY <3>1, <2>1, <2>2, <1>1, FineGrows
    <3>3. v = writer'[1].buf[i] /\ p = outpos' + i - 1
      BY <3>1
    <3>. QED
      BY Zenon, <3>2, <3>3 DEF Fine
  <2>. QED
    BY <2>2
<1>. QED
  BY <1>2 DEF Handed

LEMMA MismatchKept ==
  ASSUME DdTypes, Grows, NoMismatch, misses' = misses
  PROVE  NoMismatch'
<1>1. cmd' = cmd /\ (Astray => Astray')
  BY HistoryGrows DEF Grows
<1>2. Displaced' = Displaced /\ Internal' = Internal
  BY <1>1, CmdSame DEF Internal, None
<1>. QED
  BY <1>1, <1>2 DEF NoMismatch

LEMMA PlacesKept ==
  ASSUME DdTypes, Grows, InPlace, UNCHANGED <<writer, outpos, visited>>,
         InLoop' => /\ InLoop
                    /\ KnownPlace /\ cmd.if # Internal /\ ~cmd.padin
                       => inpos' - HeldBack' = inpos - HeldBack
                    /\ KnownPlace => off' + ToCount' = off + ToCount
  PROVE  InPlace'
<1>1. cmd' = cmd /\ Pending' = Pending /\ Refused' = Refused
  BY DEF Grows, Pending, Refused
<1>2. Displaced' = Displaced /\ Internal' = Internal
  BY <1>1, CmdSame DEF Internal, None
<1>3. KnownPlace' => KnownPlace
  BY FineGrows
<1>. QED
  BY <1>1, <1>2, <1>3 DEF InPlace

\* In whole words, offsets are where words begin.
LEMMA OffAligned ==
  ASSUME DdTypes, Inputs, InLoop, HasBlock, cmd.bs % 4 = 0, ~Astray
  PROVE  off % 4 = 0
<1>1. cmd \in Commands /\ cmd.bs \in Nat /\ cmd.bs > 0 /\ off \in Int
  BY CmdTypes DEF DdTypes
<1>2. CASE Randomly
  <2>1. dpc # "loop"
    BY DEF HasBlock
  <2>2. PICK i \in 1..Len(visited) : off = visited[i]
    BY <1>2, <2>1 DEF Inputs, BeenHere
  <2>. QED
    BY <2>2 DEF Astray
<1>3. CASE ~Randomly /\ cmd.pipe
  BY <1>3 DEF Inputs, InPipe, Astray
<1>4. CASE ~Randomly /\ ~cmd.pipe
  <2>1. off % cmd.bs = 0
    BY <1>4 DEF Inputs, Blocks
  <2>. QED
    BY <2>1, <1>1, BlockOfWords
<1>. QED
  BY <1>2, <1>3, <1>4

\* What touch= zeroes of a block are bytes that may be spoiled.
LEMMA SpoiledByte ==
  ASSUME DdTypes, Inputs, InLoop, HasBlock, cmd.touch,
         NEW i \in 1..moved
  PROVE  (i - 1) % 4096 = 0 => Spoiled(off + i - 1)
<1>1. cmd.bs \in Nat /\ cmd.bs > 0 /\ off \in Int /\ moved \in Int
      /\ moved <= cmd.bs
  BY CmdTypes DEF DdTypes
<1>2. PICK y \in 0..cmd.bs - 1 : y = i - 1
  BY <1>1
<1>3. PICK p \in Int : p = off + y /\ p = off + i - 1
  BY <1>1, <1>2
<1>4. CASE cmd.pipe \/ Refused
  BY <1>4 DEF Spoiled
<1>5. CASE ~Randomly /\ ~cmd.pipe
  <2>1. off % cmd.bs = 0
    BY <1>5 DEF Inputs, Blocks
  <2>2. (off + y) % cmd.bs = y
    BY Zenon, <2>1, <1>1, InBlock
  <2>3. p % cmd.bs = y
    BY <2>2, <1>3
  <2>. QED
    BY <2>3, <1>2, <1>3, <1>5 DEF Spoiled
<1>6. CASE Randomly
  <2>1. dpc # "loop"
    BY DEF HasBlock
  <2>2. PICK j \in 1..Len(visited) : off = visited[j]
    BY <1>6, <2>1 DEF Inputs, BeenHere
  <2>3. p \in visited[j]..visited[j] + cmd.bs - 1 /\ p - visited[j] = y
    BY <2>2, <1>1, <1>2, <1>3
  <2>. QED
    BY <2>3, <1>2, <1>3 DEF Spoiled
<1>. QED
  BY <1>4, <1>5, <1>6

\* The buffer is what its place in the output is to have.
LEMMA BufferFine ==
  ASSUME DdTypes, Inputs, InPlace, InLoop, KnownPlace, writer = <<>>,
         dpc \in {"write", "fork"},
         cmd.if # Internal, ~cmd.padin, ~Displaced, NEW i \in 1..moved
  PROVE  buf[i] = FileByte(outpos + i - 1) \/ Spoiled(outpos + i - 1)
<1>1. /\ off \in Int /\ moved \in Int /\ outpos \in Int /\ inpos \in Int
      /\ HasBlock /\ Pending = 0 /\ HeldBack = moved /\ ToCount = 0
  BY DEF DdTypes, HasBlock, Pending, HeldBack, ToCount
<1>2. outpos = inpos - moved /\ (~Refused => outpos = off)
  BY <1>1 DEF InPlace
<1>3. \/ buf[i] = FileByte(inpos - moved + i - 1)
      \/ cmd.touch /\ (i - 1) % 4096 = 0
  BY DEF Inputs, Reading
<1>4. CASE buf[i] = FileByte(inpos - moved + i - 1)
  BY <1>2, <1>4
<1>5. CASE cmd.touch /\ (i - 1) % 4096 = 0
  <2>1. CASE Refused
    BY <1>5, <2>1 DEF Spoiled
  <2>2. CASE ~Refused
    BY <1>1, <1>2, <1>5, <2>2, SpoiledByte
  <2>. QED
    BY <2>1, <2>2
<1>. QED
  BY <1>3, <1>4, <1>5

\* So is what is written.
LEMMA WrittenFine ==
  ASSUME DdTypes, Inputs, InPlace, InLoop, KnownPlace, writer = <<>>,
         dpc \in {"write", "fork"}
  PROVE  \A i \in 1..moved : Fine(Written(buf)[i], outpos + i - 1)
<1>. TAKE i \in 1..moved
<1>1. /\ off \in Int /\ moved \in Int /\ moved <= cmd.bs /\ outpos \in Int
      /\ HasBlock /\ Pending = 0 /\ ToCount = 0 /\ cmd \in Commands
      /\ cmd.bs \in Nat
  BY CmdTypes DEF DdTypes, HasBlock, Pending, ToCount
<1>2. PICK p \in Int : p = outpos + i - 1
  BY <1>1
<1>3. \/ buf[i] = FileByte(p)
      \/ cmd.if = Internal \/ cmd.padin \/ Displaced \/ Spoiled(p)
  BY <1>2, BufferFine
<1>4. CASE ~cmd.opat
  <2>1. Written(buf)[i] = buf[i]
    BY <1>4 DEF Written
  <2>. QED
    BY <2>1, <1>2, <1>3, <1>4 DEF Fine, Excused
<1>5. CASE cmd.opat /\ Astray
  BY <1>5 DEF Fine, Excused
<1>6. CASE cmd.opat /\ ~Astray
  <2>1. cmd.bs % 4 = 0
    BY <1>1, <1>6, CmdTypes
  <2>2. off % 4 = 0
    BY <2>1, <1>1, <1>6, OffAligned
  <2>3. outpos = off
    <3>1. ~Refused
      BY <1>6 DEF Astray, Refused
    <3>. QED
      BY <3>1, <1>1 DEF InPlace
  <2>4. WordsOf(moved) \in Int
    BY <1>1, WordsInt
  <2>5. i \in 1..cmd.bs /\ i \in Nat \ {0}
    BY <1>1
  <2>6. Written(buf)[i] = IF i <= 4 * WordsOf(moved) THEN Pattern(off, i)
                          ELSE buf[i]
    BY <2>5, <1>6 DEF Written
  <2>7. CASE i <= 4 * WordsOf(moved)
    <3>1. Pattern(off, i) = FileByte(off + i - 1)
      BY <2>2, <2>5, <1>1, PatternIsFile
    <3>. QED
      BY <3>1, <2>3, <2>6, <2>7 DEF Fine
  <2>8. CASE ~(i <= 4 * WordsOf(moved))
    <3>1. moved % 4 # 0
      BY <2>8, <1>1 DEF WordsOf
    <3>2. OddBytes
      BY <3>1, <2>1, <1>1, <1>6 DEF Inputs, InWords
    <3>3. Written(buf)[i] = buf[i]
      BY <2>6, <2>8
    <3>. QED
      BY <3>2, <3>3, <1>2, <1>3 DEF Fine, Excused
  <2>. QED
    BY <2>7, <2>8
<1>. QED
  BY <1>4, <1>5, <1>6

\* A write leaves the output faithful, if what it writes is.
LEMMA PutFaithful ==
  ASSUME DdTypes, Grows, OutputFaithful, NEW b, NEW n \in 1..cmd.bs,
         NEW m \in 0..n, Put(b, m), cmd.of # Internal,
         KnownPlace => \A i \in 1..n : Fine(b[i], outpos + i - 1)
  PROVE  OutputFaithful'
<1>1. cmd \in Commands /\ cmd.bs \in Nat /\ cmd.of \in Int /\ Place \in Int
      /\ wrote \in Nat /\ m \in 0..cmd.bs
  BY CmdTypes, PlaceType DEF DdTypes
<1>2. ASSUME NEW i \in 1..m, NEW p, p = Place + i - 1
      PROVE  Fine(b[i], p) \/ Elsewhere(p)
  <2>1. CASE cmd.append
    <3>1. Place >= cmd.of
      BY <2>1, <1>1 DEF Place
    <3>. QED
      BY <3>1, <2>1, <1>1, <1>2 DEF Elsewhere
  <2>2. CASE ~cmd.append
    <3>1. Place = outpos /\ i \in 1..n
      BY <2>2 DEF Place
    <3>2. KnownPlace \/ Elsewhere(p)
      BY <2>2 DEF KnownPlace, Elsewhere
    <3>. QED
      BY Zenon, <3>1, <3>2, <1>2
  <2>. QED
    BY <2>1, <2>2
<1>3. ASSUME NEW p \in DOMAIN out'
      PROVE  Fine(out'[p], p) \/ Elsewhere(p)
  <2>1. \/ p \in DOMAIN out /\ out'[p] = out[p]
        \/ \E i \in 1..m : p = Place + i - 1 /\ out'[p] = b[i]
    BY Zenon, <1>1, PutBytes
  <2>2. CASE p \in DOMAIN out /\ out'[p] = out[p]
    BY Zenon, <2>2, FaithfulIs
  <2>3. CASE \E i \in 1..m : p = Place + i - 1 /\ out'[p] = b[i]
    BY Zenon, <2>3, <1>2
  <2>. QED
    BY Zenon, <2>1, <2>2, <2>3
<1>4. ASSUME NEW p \in DOMAIN out'
      PROVE  Fine(out[p], p)' \/ Elsewhere(p)'
  <2>1. PICK v : v = out'[p]
    OBVIOUS
  <2>2. Fine(v, p)' \/ Elsewhere(p)'
    BY Zenon, <2>1, <1>3, FineGrows
  <2>. QED
    BY Zenon, <2>1, <2>2 DEF Fine
<1>. QED
  BY Zenon, <1>4, FaithfulIs

LEMMA OutputsRandom ==
  ASSUME DdTypes, DdShape, Grows, Outputs, Random
  PROVE  Outputs'
<1>1. PICK o \in Int : off' = o /\ Seek(o) /\ visited' = Append(visited, o)
  BY RandomChoice
<1>2. /\ UNCHANGED <<cmd, writer, out, misses>> /\ dpc = "loop"
      /\ dpc' = "read" /\ Randomly /\ frames = <<>> /\ visited \in Seq(Int)
      /\ outpos \in Int /\ inpos \in Int
  BY DEF Random, Running, DdTypes
<1>3. ASSUME KnownPlace' PROVE KnownPlace /\ writer = <<>> /\ writer' = <<>>
  <2>1. KnownPlace
    BY <1>3, FineGrows
  <2>. QED
    BY <2>1, <1>2 DEF KnownPlace, DdShape
<1>4. InPlace'
  <2>0. ASSUME KnownPlace'
        PROVE  Pending' = 0 /\ HeldBack' = 0 /\ ToCount' = 0
    BY <1>2, <1>3, <2>0 DEF Pending, HeldBack, ToCount, HasBlock
  <2>1. SUFFICES ASSUME KnownPlace'
                 PROVE  /\ cmd.if # Internal /\ ~cmd.padin /\ ~Displaced
                           => outpos' = inpos'
                        /\ ~Refused' => outpos' = off'
    <3>2. Displaced' = Displaced /\ Internal' = Internal /\ cmd' = cmd
          /\ outpos' \in Int /\ inpos' \in Int /\ off' \in Int
      BY <1>1, <1>2, CmdSame DEF Internal, None, Seek
    <3>. QED
      BY <2>0, <2>1, <3>2 DEF InPlace
  <2>2. ASSUME cmd.if # Internal, ~cmd.padin, ~Displaced
        PROVE  outpos' = inpos'
    <3>1. Pending = 0 /\ HeldBack = 0
      BY <1>2, <1>3, <2>1 DEF Pending, HeldBack, HasBlock
    <3>2. outpos = inpos
      BY <2>1, <2>2, <3>1, <1>2, <1>3 DEF Outputs, InPlace, InLoop
    <3>3. ~cmd.pipe
      BY <2>2, <1>2 DEF Displaced
    <3>. QED
      BY <3>2, <3>3, <1>1 DEF Seek
  <2>3. ASSUME ~Refused' PROVE outpos' = off'
    <3>1. PICK k : k = Len(visited')
      OBVIOUS
    <3>2. k \in 1..Len(visited') /\ visited'[k] = o
      BY <3>1, <1>1, <1>2
    <3>3. ~(o < 0)
      BY Zenon, <2>3, <3>2 DEF Refused
    <3>. QED
      BY <3>3, <1>1 DEF Seek
  <2>. QED
    BY <2>2, <2>3
<1>5. Handed'
  BY <1>3 DEF Handed
<1>6. OutputFaithful' /\ NoMismatch'
  BY <1>2, FaithfulKept, MismatchKept DEF Outputs
<1>. QED
  BY <1>4, <1>5, <1>6 DEF Outputs

\* ipat= finds what opat= has written.
LEMMA OutputsCheck ==
  ASSUME DdTypes, DdShape, Grows, Inputs, Outputs, Check
  PROVE  Outputs'
<1>1. /\ UNCHANGED <<cmd, off, inpos, moved, writer, outpos, out, visited, odds>>
      /\ dpc = "check" /\ InLoop
      /\ off \in Int /\ moved \in Int /\ cmd \in Commands
  BY DEF Check, fileVars, randVars, Running, InLoop, DdTypes
<1>2. InLoop' =>
        /\ moved > 0
        /\ dpc' = IF cmd.of = Internal THEN "count"
                  ELSE IF cmd.fork THEN "fork" ELSE "write"
  <2>1. ASSUME InLoop' PROVE ~Done
    BY <2>1, DoneFrames DEF InLoop
  <2>. QED
    BY <2>1, <1>1 DEF Check
<1>3. InPlace'
  <2>1. InLoop' =>
          /\ InLoop
          /\ KnownPlace /\ cmd.if # Internal /\ ~cmd.padin
                => inpos' - HeldBack' = inpos - HeldBack
          /\ KnownPlace => off' + ToCount' = off + ToCount
    <3>1. ASSUME InLoop'
          PROVE  /\ KnownPlace => dpc' \in {"fork", "write"}
                 /\ dpc' \in {"fork", "write", "count"}
      BY <3>1, <1>2 DEF KnownPlace
    <3>2. ASSUME InLoop', dpc' = "count" PROVE cmd.of = Internal
      BY <3>2, <1>2
    <3>. QED
      BY <3>1, <3>2, <1>1, <1>2 DEF HeldBack, HasBlock, ToCount, KnownPlace
  <2>. QED
    BY <2>1, <1>1, PlacesKept DEF Outputs
<1>4. Handed' /\ OutputFaithful'
  BY <1>1, HandedKept, FaithfulKept DEF Outputs
<1>5. NoMismatch'
  <2>1. SUFFICES ASSUME cmd.ipat, cmd.if # Internal, ~cmd.padin, ~Displaced,
                        ~Astray
                 PROVE  misses' = misses
    <3>1. Displaced' = Displaced /\ Astray' = Astray /\ Internal' = Internal
      BY <1>1, CmdSame DEF Astray, Internal, None
    <3>. QED
      BY <2>1, <3>1, <1>1 DEF NoMismatch, Outputs
  <2>2. CASE moved <= 0
    BY <2>2 DEF Check
  <2>3. CASE ~(moved <= 0)
    <3>1. HasBlock /\ moved > 0 /\ cmd.bs % 4 = 0
      BY <2>1, <2>3, <1>1, CmdTypes DEF HasBlock
    <3>2. off % 4 = 0
      BY <2>1, <3>1, <1>1, OffAligned
    <3>3. ~Refused
      BY <2>1 DEF Astray, Refused
    <3>4. inpos = off + moved
      BY <2>1, <3>1, <3>3, <1>1 DEF Inputs, Reading
    <3>5. ASSUME NEW i \in 1..moved PROVE buf[i] = Pattern(off, i)
      <4>1. buf[i] = FileByte(inpos - moved + i - 1)
        BY <2>1, <1>1 DEF Inputs, Reading
      <4>2. inpos - moved + i - 1 = off + i - 1 /\ i \in Nat \ {0}
        BY <3>4, <1>1
      <4>3. Pattern(off, i) = FileByte(off + i - 1)
        BY <3>2, <4>2, <1>1, PatternIsFile
      <4>. QED
        BY Zenon, <4>1, <4>2, <4>3
    <3>6. WordsOf(moved) \in Int /\ 4 * WordsOf(moved) <= moved
      BY <1>1, WordsInt
    <3>7. ASSUME NEW k \in 0..WordsOf(moved) - 1
          PROVE  ~ \E i \in 4 * k + 1..4 * k + 4 : buf[i] # Pattern(off, i)
      <4>1. \A i \in 4 * k + 1..4 * k + 4 : i \in 1..moved
        BY <3>6, <1>1
      <4>. QED
        BY Zenon, <3>5, <4>1
    <3>8. {k \in 0..WordsOf(moved) - 1 :
             \E i \in 4 * k + 1..4 * k + 4 : buf[i] # Pattern(off, i)} = {}
      BY Zenon, <3>7
    <3>9. Wrong = 0
      BY Zenon, <3>8, FS_EmptySet DEF Wrong
    <3>10. misses' = IF cmd.mismatch = None THEN misses ELSE misses - 0
      BY <2>1, <2>3, <3>9 DEF Check
    <3>. QED
      BY <3>10 DEF DdTypes
  <2>. QED
    BY <2>2, <2>3
<1>. QED
  BY <1>3, <1>4, <1>5 DEF Outputs

LEMMA OutputsWrite ==
  ASSUME DdTypes, DdShape, Grows, Inputs, Outputs, Write \/ WriteFails
  PROVE  Outputs'
<1>0. /\ dpc = "write" /\ InLoop /\ cmd.of # Internal /\ writer = <<>>
  BY DEF Write, WriteFails, Running, InLoop, DdShape
<1>1. /\ dpc = "write" /\ InLoop /\ writer = <<>> /\ cmd.of # Internal
      /\ moved \in 1..cmd.bs /\ moved \in Int /\ off \in Int
      /\ inpos \in Int /\ outpos \in Int
      /\ Pending = 0 /\ HeldBack = moved /\ ToCount = 0
  <2>1. Pending = 0 /\ HeldBack = moved /\ ToCount = 0
    BY <1>0 DEF Pending, HeldBack, HasBlock, ToCount
  <2>2. moved \in 1..cmd.bs
    BY <1>0, CmdTypes DEF DdTypes
  <2>. QED
    BY <1>0, <2>1, <2>2 DEF DdTypes
<1>2. PICK n \in 0..moved : Put(Written(buf), n) /\ (Write => n = moved)
  <2>1. CASE Write
    <3>1. moved \in 0..moved /\ Put(Written(buf), moved)
      BY <1>1, <2>1 DEF Write
    <3>. QED
      BY Zenon, <3>1
  <2>2. CASE ~Write
    <3>1. PICK n \in 0..moved - 1 : Put(Written(buf), n)
      BY Zenon, <2>2 DEF WriteFails
    <3>2. n \in 0..moved
      BY <1>1, <3>1
    <3>. QED
      BY Zenon, <2>2, <3>1, <3>2
  <2>. QED
    BY <2>1, <2>2
<1>3. /\ UNCHANGED <<cmd, off, moved, misses, writer, inpos, visited>>
      /\ InLoop' => Write /\ dpc' = "count"
  <2>1. CASE Write
    BY <2>1 DEF Write, randVars
  <2>2. CASE WriteFails
    <3>1. ~InLoop'
      BY <2>2, DoneFrames DEF WriteFails, InLoop
    <3>. QED
      BY <2>2, <3>1 DEF WriteFails, randVars
  <2>. QED
    BY <2>1, <2>2
<1>4. InPlace'
  <2>1. ASSUME KnownPlace', InLoop'
        PROVE  /\ KnownPlace
               /\ outpos' + Pending' = outpos + moved
               /\ HeldBack' = 0 /\ ToCount' = moved
    <3>1. KnownPlace
      BY <2>1, FineGrows
    <3>2. n = moved /\ Place = outpos /\ dpc' = "count"
      BY <2>1, <3>1, <1>2, <1>3 DEF Place, KnownPlace
    <3>3. outpos' = outpos + moved
      BY <3>2, <1>2 DEF Put
    <3>4. Pending' = 0 /\ HeldBack' = 0 /\ ToCount' = moved
      BY <3>2, <1>1, <1>3 DEF Pending, HeldBack, ToCount
    <3>. QED
      BY <3>1, <3>3, <3>4, <1>1
  <2>2. Displaced' = Displaced /\ Internal' = Internal /\ Refused' = Refused
    BY <1>3, CmdSame DEF Internal, None, Refused
  <2>. QED
    BY <2>1, <2>2, <1>1, <1>3 DEF Outputs, InPlace
<1>5. Handed'
  BY <1>1, <1>3 DEF Handed
<1>6. OutputFaithful'
  <2>1. KnownPlace =>
          \A i \in 1..moved : Fine(Written(buf)[i], outpos + i - 1)
    BY <1>1, WrittenFine DEF Outputs
  <2>. QED
    BY Zenon, <2>1, <1>1, <1>2, PutFaithful DEF Outputs
<1>7. NoMismatch'
  BY <1>3, MismatchKept DEF Outputs
<1>. QED
  BY <1>4, <1>5, <1>6, <1>7 DEF Outputs

LEMMA OutputsFork ==
  ASSUME DdTypes, DdShape, Grows, Inputs, Outputs, ForkWriter \/ ForkFails
  PROVE  Outputs'
<1>1. /\ dpc = "fork" /\ InLoop /\ writer = <<>> /\ dpc' = "count"
      /\ moved \in Int /\ off \in Int /\ inpos \in Int /\ outpos \in Int
      /\ UNCHANGED <<cmd, off, moved, misses, visited, inpos, outpos, out>>
      /\ Pending = 0 /\ HeldBack = moved /\ ToCount = 0
      /\ HeldBack' = 0 /\ ToCount' = moved
  BY DEF ForkWriter, ForkFails, Running, InLoop, DdTypes, fileVars,
     randVars, doneVars, Pending, HeldBack, HasBlock, ToCount
<1>2. InPlace' /\ Handed'
  <2>1. CASE ForkWriter
    <3>1. PICK b, m : b = Written(buf) /\ m = moved
      OBVIOUS
    <3>2. /\ writer' = <<[buf |-> Written(buf), moved |-> moved,
                          count |-> intCount]>>
      BY <2>1 DEF ForkWriter
    <3>3. Pending' = m /\ writer'[1].buf = b
      BY <3>1, <3>2 DEF Pending
    <3>4. ASSUME KnownPlace', NEW i \in 1..Pending'
          PROVE  Fine(writer[1].buf[i], outpos + i - 1)'
      <4>1. KnownPlace
        BY <3>4, FineGrows
      <4>2. PICK v, p : v = Written(buf)[i] /\ p = outpos + i - 1
        OBVIOUS
      <4>3. Fine(v, p)
        BY <4>1, <4>2, <3>1, <3>3, <1>1, WrittenFine DEF Outputs
      <4>4. Fine(v, p)'
        BY Zenon, <4>3, FineGrows
      <4>5. v = writer'[1].buf[i] /\ p = outpos' + i - 1
        BY <4>2, <3>1, <3>3, <1>1
      <4>. QED
        BY Zenon, <4>4, <4>5 DEF Fine
    <3>5. ASSUME KnownPlace' PROVE KnownPlace
      BY <3>5, FineGrows
    <3>6. Displaced' = Displaced /\ Internal' = Internal /\ Refused' = Refused
      BY <1>1, CmdSame DEF Internal, None, Refused
    <3>7. InPlace'
      BY <3>1, <3>3, <3>5, <3>6, <1>1 DEF Outputs, InPlace
    <3>. QED
      BY <3>4, <3>7 DEF Handed
  <2>2. CASE ForkFails
    <3>1. ~NoneLost'
      BY <2>2 DEF ForkFails, Mishap, NoneLost
    <3>. QED
      BY <3>1 DEF InPlace, Handed, KnownPlace
  <2>. QED
    BY <2>1, <2>2
<1>3. OutputFaithful' /\ NoMismatch'
  BY <1>1, FaithfulKept, MismatchKept DEF Outputs
<1>. QED
  BY <1>2, <1>3 DEF Outputs

\* The child writes where the loop meant it to.
LEMMA OutputsChild ==
  ASSUME DdTypes, DdShape, Grows, Outputs, ChildWrites
  PROVE  Outputs'
<1>1. PICK b, n : b = writer[1].buf /\ n = writer[1].moved
  OBVIOUS
<1>2. /\ writer # <<>> /\ Put(b, n) /\ writer' = <<>>
      /\ UNCHANGED <<cmd, dpc, off, moved, misses, inpos, visited, frames>>
  BY <1>1 DEF ChildWrites, randVars, doneVars
<1>3. n \in 1..cmd.bs /\ n \in Int /\ Pending = n /\ outpos \in Int
  <2>1. n \in 1..cmd.bs /\ Pending = n
    BY <1>1, <1>2, WriterType
  <2>2. cmd.bs \in Nat /\ outpos \in Int
    BY CmdTypes DEF DdTypes
  <2>. QED
    BY <2>1, <2>2
<1>4. cmd.of # Internal
  BY <1>2 DEF DdShape
<1>5. InPlace'
  <2>1. ASSUME KnownPlace' PROVE KnownPlace /\ outpos' + Pending' = outpos + Pending
    <3>1. KnownPlace
      BY <2>1, FineGrows
    <3>2. outpos' = outpos + n
      BY <3>1, <1>2 DEF Put, Place, KnownPlace
    <3>3. Pending' = 0
      BY <1>2 DEF Pending
    <3>. QED
      BY <3>1, <3>2, <3>3, <1>3
  <2>2. Displaced' = Displaced /\ Internal' = Internal /\ Refused' = Refused
        /\ HeldBack' = HeldBack /\ ToCount' = ToCount /\ InLoop' = InLoop
    BY <1>2, CmdSame DEF Internal, None, Refused, HeldBack, HasBlock, ToCount,
       InLoop
  <2>. QED
    BY <2>1, <2>2, <1>2 DEF Outputs, InPlace
<1>6. Handed'
  BY <1>2 DEF Handed
<1>7. OutputFaithful'
  <2>1. KnownPlace => \A i \in 1..n : Fine(b[i], outpos + i - 1)
    BY <1>1, <1>2, <1>3 DEF Outputs, Handed
  <2>2. n \in 0..n
    BY <1>3
  <2>. QED
    BY Zenon, <2>1, <2>2, <1>2, <1>3, <1>4, PutFaithful DEF Outputs
<1>8. NoMismatch'
  BY <1>2, MismatchKept DEF Outputs
<1>. QED
  BY <1>5, <1>6, <1>7, <1>8 DEF Outputs

LEMMA OutputsChildFails ==
  ASSUME DdTypes, Grows, Outputs, ChildFails
  PROVE  Outputs'
<1>1. misses' = misses /\ out' = out /\ ~NoneLost'
  BY DEF ChildFails, Mishap, NoneLost, fileVars
<1>2. InPlace' /\ Handed'
  BY <1>1 DEF InPlace, Handed, KnownPlace
<1>. QED
  BY <1>1, <1>2, FaithfulKept, MismatchKept DEF Outputs

\* Steps that write nothing.
LEMMA OutputsKept ==
  ASSUME DdTypes, Grows, Outputs,
         UNCHANGED <<writer, outpos, out, misses, visited>>,
         InLoop' => /\ InLoop
                    /\ KnownPlace /\ cmd.if # Internal /\ ~cmd.padin
                       => inpos' - HeldBack' = inpos - HeldBack
                    /\ KnownPlace => off' + ToCount' = off + ToCount
  PROVE  Outputs'
  BY Zenon, PlacesKept, HandedKept, FaithfulKept, MismatchKept DEF Outputs

LEMMA OutputsNext ==
  ASSUME DdTypes, DdShape, Inputs, Outputs, [DdNext]_ddVars
  PROVE  Outputs'
<1>. USE DEF Running, fileVars, randVars, doneVars
<1>0. Grows
  BY GrowsNext
<1>1. CASE LastBlock \/ \E sig \in {"alarm", "int"} : Signal(sig)
  <2>1. Done /\ UNCHANGED <<writer, outpos, out, misses, visited>>
    BY <1>1 DEF LastBlock, Signal
  <2>2. ~InLoop'
    BY <2>1, DoneFrames DEF InLoop
  <2>. QED
    BY <2>1, <2>2, <1>0, OutputsKept
<1>2. CASE Shift \/ PrintOut \/ ExitDone
  <2>1. ~InLoop'
    <3>1. frames \in Seq({"begin", "print", "exit"})
      BY DEF DdTypes
    <3>. QED
      BY <3>1, <1>2 DEF Shift, PrintOut, ExitDone, InLoop, Frame
  <2>2. UNCHANGED <<writer, outpos, out, misses, visited>>
    BY <1>2 DEF Shift, PrintOut, ExitDone
  <2>. QED
    BY <2>1, <2>2, <1>0, OutputsKept
<1>3. CASE Sequential \/ Read \/ ReadFails \/ Padding \/ Count
           \/ UNCHANGED ddVars
  <2>1. UNCHANGED <<writer, outpos, out, misses, visited>>
    BY <1>3 DEF Sequential, Read, ReadFails, Padding, Count, ddVars
  <2>2. InLoop' =>
          /\ InLoop
          /\ cmd.if # Internal /\ ~cmd.padin
                => inpos' - HeldBack' = inpos - HeldBack
          /\ off' + ToCount' = off + ToCount
    <3>0. off \in Int /\ moved \in Int /\ inpos \in Int
          /\ (padin => cmd.padin) /\ (dpc = "pad" => padin)
      BY DEF DdTypes, DdShape
    <3>. USE DEF InLoop, HeldBack, HasBlock, ToCount
    <3>1. CASE Sequential
      BY <3>0, <3>1 DEF Sequential
    <3>2. CASE Read
      <4>1. CASE cmd.if = Internal
        BY <3>0, <3>2, <4>1 DEF Read
      <4>2. CASE cmd.if # Internal
        <5>1. PICK n \in Readable : moved' = n /\ inpos' = inpos + n
          BY Zenon, <3>2, <4>2 DEF Read
        <5>2. n \in Nat
          BY ReadableType
        <5>. QED
          BY <3>0, <3>2, <4>2, <5>1, <5>2 DEF Read
      <4>. QED
        BY <4>1, <4>2
    <3>3. CASE ReadFails
      BY <3>0, <3>3 DEF ReadFails
    <3>4. CASE Padding
      BY <3>0, <3>4 DEF Padding
    <3>5. CASE Count
      BY <3>0, <3>5 DEF Count
    <3>6. CASE UNCHANGED ddVars
      BY <3>0, <3>6 DEF ddVars
    <3>. QED
      BY <1>3, <3>1, <3>2, <3>3, <3>4, <3>5, <3>6
  <2>. QED
    BY <2>1, <2>2, <1>0, OutputsKept
<1>. QED
  BY Zenon, <1>0, <1>1, <1>2, <1>3, OutputsRandom, OutputsCheck, OutputsWrite,
     OutputsFork, OutputsChild, OutputsChildFails DEF DdNext, DdStep

-----------------------------------------------------------------------------
(* What is counted and reported.                                           *)

LEMMA TwoSignals ==
  ASSUME NEW m
  PROVE  /\ IsFiniteSet(m \cap {"alarm", "int"})
         /\ Cardinality(m \cap {"alarm", "int"}) \in 0..2
<1>1. IsFiniteSet({"alarm", "int"}) /\ Cardinality({"alarm", "int"}) = 2
  <2>1. IsFiniteSet({"int"}) /\ Cardinality({"int"}) = 1
    BY FS_Singleton
  <2>2. {"alarm", "int"} = {"int"} \cup {"alarm"}
    OBVIOUS
  <2>. QED
    BY <2>1, <2>2, FS_AddElement
<1>2. m \cap {"alarm", "int"} \subseteq {"alarm", "int"}
  OBVIOUS
<1>3. /\ IsFiniteSet(m \cap {"alarm", "int"})
      /\ Cardinality(m \cap {"alarm", "int"}) <= 2
  BY <1>1, <1>2, FS_Subset
<1>4. Cardinality(m \cap {"alarm", "int"}) \in Nat
  BY <1>3, FS_CardinalityType
<1>. QED
  BY <1>3, <1>4

LEMMA SignalsType ==
  /\ Cardinality(Signals) \in 0..2
  /\ Cardinality(Signals)' \in 0..2
  BY TwoSignals DEF Signals

LEMMA SignalsFinite ==
  IsFiniteSet(Signals)
  BY TwoSignals DEF Signals

\* The signals that have come.
LEMMA SignalCounted ==
  ASSUME NEW sig \in {"alarm", "int"}, sig \notin mishaps,
         mishaps' = mishaps \cup {sig}
  PROVE  Cardinality(Signals)' = Cardinality(Signals) + 1
<1>1. Signals' = Signals \cup {sig} /\ sig \notin Signals
  BY DEF Signals
<1>. QED
  BY <1>1, SignalsFinite, FS_AddElement

LEMMA BufferedType ==
  ASSUME DdTypes
  PROVE  /\ wrote + Pending \in Nat /\ Pending \in Nat
         /\ Pending <= cmd.bs
         /\ writer = <<>> => Pending = 0
         /\ odds \in Nat /\ cmd.bs \in Nat
         /\ Uncounted \in Nat /\ Uncounted = cmd.bs + 3 * odds
<1>1. cmd.bs \in Nat /\ wrote \in Nat /\ odds \in Nat
  BY CmdTypes DEF DdTypes
<1>2. writer = <<>> => Pending = 0
  BY DEF Pending
<1>3. writer # <<>> => Pending \in 1..cmd.bs
  BY WriterType
<1>4. Uncounted = cmd.bs + 3 * odds /\ Uncounted \in Nat
  BY <1>1 DEF Uncounted
<1>. QED
  BY <1>1, <1>2, <1>3, <1>4

\* done() is called.
LEMMA CountedDone ==
  ASSUME DdTypes, NEW words, NEW s, Counted(words, s), dpc # "exited", Done,
         UNCHANGED <<cmd, dpc, intCount, wrote, writer, odds>>
  PROVE  Counted(words, s)'
<1>1. /\ frames \in Seq({"begin", "print", "exit"})
      /\ frames' # <<>> /\ Len(frames') = Len(frames) + 1
      /\ frames'[Len(frames')] = "begin" /\ Len(frames) \in Nat
  BY DoneFrames DEF DdTypes
<1>2. ~InLoop' /\ Pending' = Pending /\ Uncounted' = Uncounted
  BY <1>1 DEF InLoop, Pending, Uncounted
<1>3. Factor' = Factor
  BY DEF Factor
<1>4. s \in 0..3 /\ s <= Len(frames)
  <2>1. CASE frames = <<>>
    <3>1. InLoop
      BY <2>1 DEF InLoop
    <3>. QED
      BY <2>1, <3>1 DEF Counted
  <2>2. CASE frames # <<>>
    BY <2>2, <1>1 DEF Counted
  <2>. QED
    BY <2>1, <2>2
<1>5. s <= Len(frames') - 1
  BY <1>1, <1>4
<1>6. /\ words \in Nat /\ intCount' = Factor'[s + 1] * words
      /\ 4 * words <= wrote' + Pending'
      /\ wrote' + Pending' <= 4 * words + Uncounted'
  BY Zenon, <1>2, <1>3 DEF Counted
<1>. QED
  BY <1>1, <1>2, <1>4, <1>5, <1>6 DEF Counted

\* Steps of the loop that move nothing.
LEMMA CountedLoop ==
  ASSUME DdTypes, NEW words, NEW s, Counted(words, s), InLoop,
         UNCHANGED <<cmd, intCount, wrote, writer, frames, odds>>,
         dpc # "count", dpc' \notin {"count", "exited"}
  PROVE  Counted(words, s)'
<1>1. Pending' = Pending /\ Factor' = Factor /\ Uncounted' = Uncounted
      /\ ToCount' = 0 /\ ToCount = 0 /\ InLoop'
  BY DEF Pending, Factor, Uncounted, ToCount, InLoop
<1>. QED
  BY <1>1 DEF Counted

\* A block is written, or handed to a child.
LEMMA CountedWrite ==
  ASSUME DdTypes, NEW words, NEW s, Counted(words, s), InLoop,
         dpc \in {"write", "fork"}, dpc' = "count",
         UNCHANGED <<cmd, intCount, frames, odds, moved>>,
         wrote' + Pending' = wrote + Pending + moved
  PROVE  Counted(words, s)'
<1>1. Factor' = Factor /\ Uncounted' = Uncounted /\ ToCount = 0
      /\ ToCount' = moved
  BY DEF Factor, Uncounted, ToCount
<1>2. PICK t \in Nat, u \in Nat, b \in Nat :
         t = wrote + Pending /\ u = odds /\ b = cmd.bs
  BY BufferedType
<1>3. moved \in Int /\ moved <= b /\ moved > 0 /\ Uncounted = b + 3 * u
  BY <1>2, BufferedType DEF DdTypes
<1>4. words \in Nat /\ 4 * words <= t /\ t <= 4 * words + 3 * u
  BY <1>1, <1>2 DEF Counted
<1>5. s \in 0..3 /\ intCount = Factor[s + 1] * words
      /\ s = 0 /\ frames = <<>>
  BY DEF Counted, InLoop
<1>6. /\ 4 * words <= t + moved
      /\ t + moved <= 4 * words + (b + 3 * u)
      /\ t + moved <= 4 * words + 3 * u + moved
      /\ t + moved >= 4 * words + moved
  BY <1>3, <1>4
<1>7. wrote' + Pending' = t + moved /\ odds' = u
  BY <1>2
<1>8. Counted(words, s)' <=>
        /\ s \in 0..3 /\ words \in Nat
        /\ intCount' = Factor'[s + 1] * words
        /\ 4 * words <= wrote' + Pending'
        /\ wrote' + Pending' <= 4 * words + Uncounted'
        /\ s = 0
        /\ wrote' + Pending' <= 4 * words + 3 * odds' + ToCount'
        /\ wrote' + Pending' >= 4 * words + ToCount'
  <2>1. InLoop' /\ frames' = <<>>
    BY <1>5 DEF InLoop
  <2>. QED
    BY Zenon, <2>1 DEF Counted
<1>9. intCount' = Factor'[s + 1] * words
  BY Zenon, <1>1, <1>5
<1>10. Uncounted' = b + 3 * u /\ ToCount' = moved
  BY Zenon, <1>1, <1>3
<1>. QED
  BY Zenon, <1>4, <1>5, <1>6, <1>7, <1>8, <1>9, <1>10

\* A block that has been moved is counted by its words.
LEMMA CountedCount ==
  ASSUME DdTypes, NEW words, NEW s, Counted(words, s), Count,
         dpc' = "loop"
  PROVE  Counted(words + WordsOf(moved), s)'
<1>1. /\ dpc = "count" /\ InLoop /\ InLoop' /\ frames = <<>>
      /\ intCount' = intCount + WordsOf(moved)
      /\ UNCHANGED <<cmd, moved, writer, wrote, frames>>
  BY DEF Count, Running, InLoop, fileVars, randVars, doneVars
<1>2. PICK t \in Nat, u \in Nat, b \in Nat :
         t = wrote + Pending /\ u = odds /\ b = cmd.bs
  BY BufferedType
<1>3. moved \in Int /\ moved <= b /\ moved > 0
  BY <1>1, <1>2 DEF DdTypes
<1>4. PICK w \in Nat : /\ w = WordsOf(moved) /\ 4 * w <= moved
                       /\ moved <= 4 * w + 3
                       /\ (moved % 4 = 0 => 4 * w = moved)
  <2>1. PICK w \in Int : w = WordsOf(moved)
    BY <1>3, WordsInt
  <2>2. w >= 0 /\ 4 * w <= moved /\ moved <= 4 * w + 3
    BY <2>1, <1>3, WordsInt
  <2>3. moved % 4 = 0 => 4 * w = moved
    BY <2>1, <1>3 DEF WordsOf
  <2>4. w \in Nat
    BY <2>2
  <2>. QED
    BY Zenon, <2>1, <2>2, <2>3, <2>4
<1>5. PICK v \in Nat : v = odds' /\ moved - 4 * w <= 3 * (v - u) /\ v >= u
  <2>1. odds' = IF moved % 4 = 0 THEN u ELSE u + 1
    BY <1>2 DEF Count
  <2>2. CASE moved % 4 = 0
    BY <2>1, <2>2, <1>3, <1>4
  <2>3. CASE moved % 4 # 0
    BY <2>1, <2>3, <1>3, <1>4
  <2>. QED
    BY <2>2, <2>3
<1>6. words \in Nat /\ s = 0 /\ intCount = words
  BY <1>1 DEF Counted, Factor
<1>7. t >= 4 * words + moved /\ t <= 4 * words + 3 * u + moved
  BY <1>1, <1>2 DEF Counted, ToCount
<1>8. Pending' = Pending /\ Uncounted' = b + 3 * v /\ ToCount' = 0
  BY <1>1, <1>2, <1>5 DEF Pending, Uncounted, ToCount
<1>9. words + w \in Nat /\ intCount' = words + w
  BY <1>1, <1>4, <1>6
<1>10. PICK q \in Nat : q = 4 * (words + w)
  BY <1>9
<1>11. q <= t /\ t <= q + 3 * v
  BY <1>3, <1>4, <1>5, <1>6, <1>7, <1>10
<1>12. 4 * (words + w) <= t
       /\ t <= 4 * (words + w) + (b + 3 * v)
       /\ t <= 4 * (words + w) + 3 * v + 0
       /\ t >= 4 * (words + w) + 0
  <2>1. q <= t /\ t <= q + (b + 3 * v) /\ t <= q + 3 * v + 0 /\ t >= q + 0
    BY <1>11
  <2>. QED
    BY Zenon, <1>10, <2>1
<1>13. intCount' = Factor'[s + 1] * (words + w) /\ s \in 0..3
  BY <1>6, <1>9 DEF Factor
<1>14. wrote' + Pending' = t
  BY <1>1, <1>2, <1>8
<1>15. Counted(words + w, s)'
  <2>1. Counted(words + w, s)' <=>
          /\ s \in 0..3 /\ words + w \in Nat
          /\ intCount' = Factor'[s + 1] * (words + w)
          /\ 4 * (words + w) <= wrote' + Pending'
          /\ wrote' + Pending' <= 4 * (words + w) + Uncounted'
          /\ s = 0
          /\ wrote' + Pending' <= 4 * (words + w) + 3 * odds' + ToCount'
          /\ wrote' + Pending' >= 4 * (words + w) + ToCount'
    BY <1>1 DEF Counted
  <2>2. wrote' + Pending' <= 4 * (words + w) + Uncounted'
    BY Zenon, <1>8, <1>12, <1>14
  <2>3. wrote' + Pending' <= 4 * (words + w) + 3 * odds' + ToCount'
    BY Zenon, <1>5, <1>8, <1>12, <1>14
  <2>4. wrote' + Pending' >= 4 * (words + w) + ToCount'
    BY Zenon, <1>8, <1>12, <1>14
  <2>5. 4 * (words + w) <= wrote' + Pending'
    BY Zenon, <1>12, <1>14
  <2>. QED
    BY Zenon, <2>1, <2>2, <2>3, <2>4, <2>5, <1>6, <1>9, <1>13
<1>. QED
  BY <1>1, <1>4, <1>15

\* Steps of the loop that move nothing.
LEMMA LoopMovesNothing ==
  ASSUME InLoop, Sequential \/ Random \/ Read \/ ReadFails \/ Padding
  PROVE  /\ UNCHANGED <<cmd, intCount, wrote, writer, frames, reports, odds>>
         /\ dpc # "count" /\ dpc' \notin {"count", "exited"}
  BY DEF Sequential, Random, Read, ReadFails, Padding, fileVars, randVars,
     doneVars, Running

\* What a signal does not touch stays counted and reported.
LEMMA SignalsKept ==
  ASSUME UNCHANGED mishaps
         \/ \E name \in {"read", "write", "fork", "child"} : Mishap(name)
  PROVE  Signals' = Signals
  BY DEF Signals, Mishap

LEMMA ReportedKept ==
  ASSUME NEW r, Reported(r), wrote' + Pending' = wrote + Pending,
         Uncounted' = Uncounted,
         Cardinality(Signals) <= Cardinality(Signals)'
  PROVE  Reported(r)'
<1>1. \A n \in 0..Cardinality(Signals) : n \in 0..Cardinality(Signals)'
  BY SignalsType
<1>2. (wrote' + Pending') - Uncounted'..wrote' + Pending'
      = (wrote + Pending) - Uncounted..wrote + Pending
  BY Zenon
<1>3. ASSUME r.by = "parent"
      PROVE  \E n \in 0..Cardinality(Signals)',
                whole \in (wrote' + Pending') - Uncounted'..wrote' + Pending' :
                   r.bytes = <<1, 4, 16>>[n + 1] * whole
  BY Zenon, <1>1, <1>2, <1>3 DEF Reported
<1>. QED
  BY Zenon, <1>3 DEF Reported

\* The count is multiplied.
LEMMA CountedShift ==
  ASSUME DdTypes, NEW words, NEW s, Counted(words, s), Shift,
         Len(frames) <= 3
  PROVE  Counted(words, s + 1)'
<1>1. /\ frames \in Seq({"begin", "print", "exit"}) /\ Len(frames) \in Nat
      /\ frames # <<>> /\ frames[Len(frames)] = "begin"
      /\ intCount' = 4 * intCount
      /\ frames' = [frames EXCEPT ![Len(frames)] = "print"]
      /\ UNCHANGED <<cmd, dpc, wrote, writer, odds>>
  BY DEF DdTypes, Shift, Frame, fileVars, randVars
<1>2. Len(frames') = Len(frames) /\ frames' # <<>>
      /\ frames'[Len(frames')] = "print"
  BY <1>1
<1>3. s \in 0..2 /\ s + 1 \in 1..Len(frames) /\ s + 1 \in 0..3
  BY <1>1 DEF Counted
<1>4. words \in Nat /\ intCount = Factor[s + 1] * words
  BY DEF Counted
<1>5. intCount' = Factor[s + 1 + 1] * words
  <2>1. CASE s = 0
    BY <2>1, <1>1, <1>4 DEF Factor
  <2>2. CASE s = 1
    BY <2>2, <1>1, <1>4 DEF Factor
  <2>3. CASE s = 2
    BY <2>3, <1>1, <1>4 DEF Factor
  <2>. QED
    BY <1>3, <2>1, <2>2, <2>3
<1>6. Pending' = Pending /\ Uncounted' = Uncounted /\ Factor' = Factor
      /\ ~InLoop'
  BY <1>1, <1>2 DEF Pending, Uncounted, Factor, InLoop
<1>7. 4 * words <= wrote' + Pending'
      /\ wrote' + Pending' <= 4 * words + Uncounted'
  BY <1>1, <1>6 DEF Counted
<1>8. Counted(words, s + 1)' <=>
        /\ s + 1 \in 0..3 /\ words \in Nat
        /\ intCount' = Factor'[s + 1 + 1] * words
        /\ 4 * words <= wrote' + Pending'
        /\ wrote' + Pending' <= 4 * words + Uncounted'
        /\ s + 1 \in 1..Len(frames')
  BY <1>2, <1>6 DEF Counted
<1>. QED
  BY Zenon, <1>2, <1>3, <1>4, <1>5, <1>6, <1>7, <1>8

\* What done() prints is four bytes a word, and what a signal adds.
LEMMA PrintedTrue ==
  ASSUME DdTypes, NEW words, NEW s, Counted(words, s), PrintOut,
         Len(frames) <= Cardinality(Signals) + 1
  PROVE  /\ Counted(words, s)'
         /\ Reported([by |-> "parent", bytes |-> intCount])
<1>1. /\ frames \in Seq({"begin", "print", "exit"}) /\ Len(frames) \in Nat
      /\ frames # <<>> /\ frames[Len(frames)] = "print"
      /\ frames' = [frames EXCEPT ![Len(frames)] = "exit"]
      /\ UNCHANGED <<cmd, dpc, intCount, wrote, writer, odds>>
  BY DEF DdTypes, PrintOut, Frame, fileVars, randVars
<1>2. Len(frames') = Len(frames) /\ frames' # <<>>
      /\ frames'[Len(frames')] = "exit"
  BY <1>1
<1>3. s \in 1..3 /\ words \in Nat /\ intCount = Factor[s + 1] * words
      /\ s \in 1..Len(frames)
  BY <1>1 DEF Counted
<1>4. Counted(words, s)'
  <2>1. Pending' = Pending /\ Uncounted' = Uncounted /\ Factor' = Factor
        /\ ~InLoop'
    BY <1>1, <1>2 DEF Pending, Uncounted, Factor, InLoop
  <2>. QED
    BY <1>1, <1>2, <1>3, <2>1 DEF Counted
<1>5. Reported([by |-> "parent", bytes |-> intCount])
  <2>1. PICK n \in Int, whole \in Int : n = s - 1 /\ whole = 4 * words
    BY <1>3
  <2>2. intCount = <<1, 4, 16>>[n + 1] * whole
    <3>1. CASE s = 1
      BY <3>1, <2>1, <1>3 DEF Factor
    <3>2. CASE s = 2
      BY <3>2, <2>1, <1>3 DEF Factor
    <3>3. CASE s = 3
      BY <3>3, <2>1, <1>3 DEF Factor
    <3>. QED
      BY <3>1, <3>2, <3>3, <1>3
  <2>3. n \in 0..Cardinality(Signals)
    BY <2>1, <1>1, <1>3, SignalsType
  <2>4. PICK t \in Int, u \in Int : t = wrote + Pending /\ u = Uncounted
    BY BufferedType
  <2>5. whole <= t /\ t <= whole + u
    BY Zenon, <2>1, <2>4 DEF Counted
  <2>6. whole \in t - u..t
    BY <2>5
  <2>7. whole \in (wrote + Pending) - Uncounted..wrote + Pending
    BY Zenon, <2>4, <2>6
  <2>. QED
    BY Zenon, <2>2, <2>3, <2>7 DEF Reported
<1>. QED
  BY <1>4, <1>5

\* The parts of Counting, for an output that loses nothing.
Told ==
    /\ \E words \in Nat, s \in 0..3 : Counted(words, s)
    /\ reports \in Seq(ReportOf) /\ (InLoop => reports = <<>>)
    /\ \A i \in 1..Len(reports) : Reported(reports[i])
Clear == cmd.of # Internal /\ NoneLost
FramesFit == Len(frames) <= Cardinality(Signals) + 1

LEMMA CountingParts ==
  Counting <=> FramesFit /\ (Clear => Told)
  BY DEF Counting, FramesFit, Clear, Told

LEMMA CountingInit ==
  ASSUME DdInit
  PROVE  Counting
<1>1. PICK c \in Commands : DdStart(c)
  BY DEF DdInit
<1>2. /\ wrote = 0 /\ writer = <<>> /\ intCount = 0 /\ frames = <<>>
      /\ reports = <<>> /\ dpc = "loop" /\ odds = 0
  BY <1>1 DEF DdStart
<1>3. cmd.bs \in Nat /\ wrote + Pending = 0 /\ ToCount = 0
      /\ Uncounted = cmd.bs
  <2>1. DdTypes
    BY DdTypesInit
  <2>. QED
    BY <1>2, <2>1, BufferedType DEF Pending, ToCount
<1>4. Factor[0 + 1] * 0 = 0
  BY DEF Factor
<1>5. Counted(0, 0)
  BY <1>2, <1>3, <1>4 DEF Counted
<1>. QED
  BY <1>2, <1>5, SignalsType DEF Counting

LEMMA CountingDone ==
  ASSUME DdTypes, Counting, Done, dpc # "exited",
         UNCHANGED <<cmd, dpc, intCount, wrote, writer, odds, reports>>,
         mishaps \subseteq mishaps',
         Cardinality(Signals)' >= Cardinality(Signals),
         frames = <<>> \/ Cardinality(Signals)' = Cardinality(Signals) + 1
  PROVE  Counting'
<1>1. Len(frames') = Len(frames) + 1 /\ frames' # <<>> /\ Len(frames) \in Nat
  BY DoneFrames DEF DdTypes
<1>2. FramesFit'
  BY <1>1, SignalsType, CountingParts DEF FramesFit
<1>3. ASSUME Clear' PROVE Told'
  <2>1. Clear
    BY <1>3 DEF Clear, NoneLost, Internal, None
  <2>2. Told
    BY <2>1, CountingParts
  <2>3. \A words, s : Counted(words, s) => Counted(words, s)'
    BY CountedDone
  <2>4. wrote' + Pending' = wrote + Pending /\ Uncounted' = Uncounted
    BY DEF Pending, Uncounted
  <2>5. \A r : Reported(r) => Reported(r)'
    BY <2>4, ReportedKept, SignalsType
  <2>6. ~InLoop'
    BY <1>1 DEF InLoop
  <2>7. \A i \in 1..Len(reports') : Reported(reports[i])'
    BY Zenon, <2>2, <2>5 DEF Told
  <2>. QED
    BY <2>2, <2>3, <2>6, <2>7 DEF Told
<1>. QED
  BY <1>2, <1>3 DEF Counting, FramesFit, Clear, Told

\* Steps of the loop.
LEMMA CountingLoop ==
  ASSUME DdTypes, Counting, InLoop, UNCHANGED <<frames, cmd, reports>>,
         Signals' = Signals, mishaps \subseteq mishaps',
         NEW d \in Nat,
         ASSUME NEW words \in Nat, NEW s \in 0..3, Counted(words, s), Clear'
         PROVE  Counted(words + d, s)'
  PROVE  Counting'
<1>1. FramesFit'
  BY CountingParts DEF FramesFit
<1>2. ASSUME Clear' PROVE Told'
  <2>1. Clear
    BY <1>2 DEF Clear, NoneLost, Internal, None
  <2>2. Told /\ reports = <<>>
    BY <2>1, CountingParts DEF Told
  <2>3. PICK words \in Nat, s \in 0..3 : Counted(words, s)
    BY <2>2 DEF Told
  <2>4. Counted(words + d, s)' /\ words + d \in Nat
    BY <1>2, <2>3
  <2>. QED
    BY <2>2, <2>4 DEF Told
<1>. QED
  BY <1>1, <1>2 DEF Counting, FramesFit, Clear, Told

LEMMA CountingMoves ==
  ASSUME DdTypes, DdShape, Counting,
         \/ Sequential \/ Random \/ Read \/ ReadFails \/ Padding
         \/ Write \/ ForkWriter \/ Count
  PROVE  Counting'
<1>1. /\ InLoop /\ UNCHANGED <<frames, cmd, reports>>
      /\ Signals' = Signals /\ mishaps \subseteq mishaps'
  <2>1. mishaps' = mishaps \/ Mishap("read")
    BY DEF Sequential, Random, Read, ReadFails, Padding, Write, ForkWriter,
       Count
  <2>2. Signals' = Signals /\ mishaps \subseteq mishaps'
    BY <2>1, SignalsKept DEF Mishap
  <2>. QED
    BY <2>2 DEF Sequential, Random, Read, ReadFails, Padding, Write,
       ForkWriter, Count, Running, InLoop, doneVars
<1>2. CASE Sequential \/ Random \/ Read \/ ReadFails \/ Padding
  <2>1. ASSUME NEW words \in Nat, NEW s \in 0..3, Counted(words, s), Clear'
        PROVE  Counted(words + 0, s)'
    <3>1. Counted(words, s)'
      BY Zenon, <1>1, <1>2, <2>1, LoopMovesNothing, CountedLoop
    <3>2. words + 0 = words
      OBVIOUS
    <3>. QED
      BY Zenon, <3>1, <3>2
  <2>. QED
    BY Zenon, <1>1, <2>1, CountingLoop
<1>3. CASE Write \/ ForkWriter
  <2>1. /\ dpc \in {"write", "fork"} /\ dpc' = "count"
        /\ UNCHANGED <<cmd, intCount, frames, odds, moved>>
    BY <1>3 DEF Write, ForkWriter, Running, fileVars, randVars, doneVars
  <2>2. wrote' + Pending' = wrote + Pending + moved
    <3>1. writer = <<>> /\ Pending = 0 /\ wrote \in Nat /\ moved \in Nat
      <4>1. writer = <<>>
        BY <1>3 DEF Write, ForkWriter, Running, DdShape
      <4>2. wrote \in Nat /\ moved \in Nat
        BY <1>3 DEF Write, ForkWriter, Running, DdTypes
      <4>. QED
        BY <4>1, <4>2 DEF Pending
    <3>2. CASE Write
      <4>1. wrote' = wrote + moved /\ Pending' = 0
        BY <3>1, <3>2 DEF Write, Put, Pending
      <4>. QED
        BY <3>1, <4>1
    <3>3. CASE ForkWriter
      <4>1. wrote' = wrote /\ Pending' = moved
        BY <3>3 DEF ForkWriter, fileVars, Pending
      <4>. QED
        BY <3>1, <4>1
    <3>. QED
      BY <1>3, <3>2, <3>3
  <2>3. ASSUME NEW words \in Nat, NEW s \in 0..3, Counted(words, s), Clear'
        PROVE  Counted(words + 0, s)'
    <3>1. Counted(words, s)'
      BY Zenon, <1>1, <2>1, <2>2, <2>3, CountedWrite
    <3>2. words + 0 = words
      OBVIOUS
    <3>. QED
      BY Zenon, <3>1, <3>2
  <2>. QED
    BY Zenon, <1>1, <2>3, CountingLoop
<1>4. CASE Count
  <2>1. PICK d \in Nat : d = WordsOf(moved)
    <3>1. moved \in Int /\ moved >= 0
      BY <1>4 DEF Count, Running, DdTypes
    <3>. QED
      BY <3>1, WordsInt
  <2>2. ASSUME NEW words \in Nat, NEW s \in 0..3, Counted(words, s), Clear'
        PROVE  Counted(words + d, s)'
    <3>1. dpc' = "loop"
      BY <1>1, <1>4, <2>2 DEF Count, Clear, Internal, None
    <3>2. moved' = moved
      BY <1>4 DEF Count
    <3>3. Counted(words + WordsOf(moved), s)'
      BY Zenon, <1>4, <2>2, <3>1, CountedCount
    <3>. QED
      BY <2>1, <3>2, <3>3
  <2>. QED
    BY Zenon, <1>1, <2>2, CountingLoop
<1>. QED
  BY <1>2, <1>3, <1>4

LEMMA CountingCheck ==
  ASSUME DdTypes, DdShape, Counting, Check
  PROVE  Counting'
<1>1. /\ dpc = "check" /\ InLoop /\ frames = <<>>
      /\ UNCHANGED <<cmd, intCount, wrote, writer, odds, reports, mishaps>>
  BY DEF Check, Running, InLoop, fileVars
<1>2. Signals' = Signals
  BY <1>1, SignalsKept
<1>3. CASE Done
  <2>1. dpc' = dpc
    BY <1>1, <1>3, DoneFrames DEF Check, DdTypes
  <2>. QED
    BY <1>1, <1>2, <1>3, <2>1, CountingDone, SignalsType
<1>4. CASE ~Done
  <2>1. /\ moved > 0 /\ frames' = frames
        /\ dpc' = IF cmd.of = Internal THEN "count"
                  ELSE IF cmd.fork THEN "fork" ELSE "write"
    BY <1>4 DEF Check, DdTypes
  <2>2. ASSUME NEW words \in Nat, NEW s \in 0..3, Counted(words, s), Clear'
        PROVE  Counted(words + 0, s)'
    <3>1. dpc' \in {"fork", "write"}
      BY <1>1, <2>1, <2>2 DEF Clear, Internal, None
    <3>4. Counted(words, s)'
      BY <1>1, <2>1, <2>2, <3>1, CountedLoop
    <3>5. words + 0 = words
      OBVIOUS
    <3>. QED
      BY Zenon, <3>4, <3>5
  <2>3. mishaps \subseteq mishaps' /\ UNCHANGED <<frames, cmd, reports>>
    BY <1>1, <2>1
  <2>. QED
    BY Zenon, <1>1, <1>2, <2>2, <2>3, CountingLoop
<1>. QED
  BY <1>3, <1>4

\* A failing write ends the loop with part of the block written.
LEMMA CountingWriteFails ==
  ASSUME DdTypes, DdShape, Counting, WriteFails
  PROVE  Counting'
<1>1. /\ dpc = "write" /\ InLoop /\ frames = <<>> /\ Done
      /\ UNCHANGED <<cmd, dpc, intCount, writer, odds, reports>>
      /\ Mishap("write")
  BY DEF WriteFails, Running, InLoop
<1>2. Signals' = Signals /\ mishaps \subseteq mishaps'
  BY <1>1, SignalsKept DEF Mishap
<1>3. PICK n \in 0..moved - 1 : Put(Written(buf), n)
  BY Zenon DEF WriteFails
<1>4. wrote' = wrote + n
  BY <1>3 DEF Put
<1>5. /\ frames' # <<>> /\ Len(frames') = 1 /\ frames'[Len(frames')] = "begin"
  BY <1>1, DoneFrames
<1>6. FramesFit'
  BY <1>5, SignalsType DEF FramesFit
<1>7. ASSUME Clear' PROVE Told'
  <2>1. Clear
    BY <1>1, <1>2, <1>7 DEF Clear, NoneLost, Internal, None
  <2>2. Told /\ reports = <<>>
    BY <2>1, <1>1, CountingParts DEF Told
  <2>3. PICK words \in Nat, s \in 0..3 : Counted(words, s)
    BY <2>2 DEF Told
  <2>4. PICK t \in Nat, u \in Nat, b \in Nat :
           t = wrote + Pending /\ u = odds /\ b = cmd.bs
    BY BufferedType
  <2>5. Uncounted = b + 3 * u
    BY <2>4, BufferedType
  <2>6. words \in Nat /\ t <= 4 * words + 3 * u /\ 4 * words <= t
    BY <1>1, <2>3, <2>4 DEF Counted, ToCount
  <2>7. n < b /\ n \in Nat
    BY <1>3, <2>4 DEF DdTypes
  <2>8. wrote' + Pending' = t + n
    <3>1. wrote \in Nat /\ Pending \in Nat /\ Pending' = Pending
      BY <1>1, BufferedType DEF DdTypes, Pending
    <3>. QED
      BY <3>1, <2>4, <2>7, <1>4
  <2>9. 4 * words <= t + n /\ t + n <= 4 * words + Uncounted
    BY <2>5, <2>6, <2>7
  <2>10. ~InLoop' /\ Factor' = Factor /\ Uncounted' = Uncounted
    BY <1>1, <1>5 DEF InLoop, Factor, Uncounted
  <2>11. s = 0 /\ intCount = Factor[s + 1] * words
    BY <1>1, <2>3 DEF Counted
  <2>12. Counted(words, s)'
    BY <1>1, <1>5, <2>8, <2>9, <2>10, <2>11 DEF Counted
  <2>13. \A i \in 1..Len(reports') : Reported(reports[i])'
    BY <1>1, <2>2
  <2>. QED
    BY <1>1, <2>2, <2>10, <2>12, <2>13 DEF Told, ReportOf
<1>. QED
  BY <1>6, <1>7 DEF Counting, FramesFit, Clear, Told

\* A block that is lost.
LEMMA CountingLost ==
  ASSUME DdTypes, DdShape, Counting, ForkFails \/ ChildFails
  PROVE  Counting'
<1>1. frames' = frames /\ (Mishap("fork") \/ Mishap("child"))
  BY DEF ForkFails, ChildFails, doneVars
<1>2. Signals' = Signals /\ ~NoneLost'
  BY <1>1, SignalsKept DEF Mishap, NoneLost
<1>. QED
  BY <1>1, <1>2 DEF Counting

\* The child's write does not change what is written or will be.
LEMMA CountingChild ==
  ASSUME DdTypes, DdShape, Counting, ChildWrites
  PROVE  Counting'
<1>1. /\ UNCHANGED <<cmd, dpc, intCount, frames, odds, moved, reports,
                     mishaps>>
  BY DEF ChildWrites, randVars, doneVars
<1>2. wrote' + Pending' = wrote + Pending
  <2>1. wrote \in Nat /\ writer # <<>> /\ Pending \in Nat
        /\ Pending = writer[1].moved
    BY BufferedType, WriterType DEF DdTypes, ChildWrites
  <2>2. wrote' = wrote + writer[1].moved /\ Pending' = 0
    BY DEF ChildWrites, Put, Pending
  <2>. QED
    BY <2>1, <2>2
<1>3. Uncounted' = Uncounted /\ Factor' = Factor /\ ToCount' = ToCount
      /\ InLoop' = InLoop /\ Signals' = Signals
  BY <1>1 DEF Uncounted, Factor, ToCount, InLoop, Signals
<1>4. \A words, s : Counted(words, s) => Counted(words, s)'
  BY <1>1, <1>2, <1>3 DEF Counted
<1>5. \A r : Reported(r) => Reported(r)'
  BY <1>2, <1>3, ReportedKept, SignalsType
<1>6. Clear' = Clear /\ FramesFit' = FramesFit
  BY <1>1, <1>3 DEF Clear, FramesFit, NoneLost, Internal, None
<1>7. Told => Told'
  BY <1>1, <1>3, <1>4, <1>5 DEF Told
<1>. QED
  BY <1>6, <1>7 DEF Counting, FramesFit, Clear, Told

\* Steps of done() itself.
LEMMA CountingReports ==
  ASSUME DdTypes, DdShape, Counting, Shift \/ PrintOut \/ ExitDone
  PROVE  Counting'
<1>1. /\ frames \in Seq({"begin", "print", "exit"}) /\ Len(frames) \in Nat
      /\ frames # <<>>
      /\ UNCHANGED <<cmd, wrote, writer, odds, mishaps>>
  BY DEF DdTypes, Shift, PrintOut, ExitDone, Frame, fileVars, randVars
<1>2. Signals' = Signals /\ Clear' = Clear /\ Uncounted' = Uncounted
      /\ Pending' = Pending
  BY <1>1 DEF Signals, Clear, NoneLost, Uncounted, Pending, Internal, None
<1>3. Len(frames') \in Nat /\ Len(frames') <= Len(frames) /\ ~InLoop'
  BY <1>1 DEF Shift, PrintOut, ExitDone, InLoop, Frame
<1>4. FramesFit /\ FramesFit'
  BY <1>1, <1>2, <1>3, SignalsType, CountingParts DEF FramesFit
<1>5. \A r : Reported(r) => Reported(r)'
  <2>1. wrote' + Pending' = wrote + Pending
    BY <1>1, <1>2
  <2>. QED
    BY <2>1, <1>2, ReportedKept, SignalsType
<1>6. ASSUME Clear PROVE Told'
  <2>1. Told
    BY <1>6, CountingParts
  <2>2. PICK words \in Nat, s \in 0..3 : Counted(words, s)
    BY <2>1 DEF Told
  <2>3. CASE Shift
    <3>1. Len(frames) <= 3
      BY <1>1, <1>4, SignalsType DEF FramesFit
    <3>2. Counted(words, s + 1)'
      BY <2>2, <2>3, <3>1, CountedShift
    <3>3. s + 1 \in 0..3
      BY <3>2 DEF Counted
    <3>4. reports' = reports
      BY <2>3 DEF Shift
    <3>5. \A i \in 1..Len(reports') : Reported(reports[i])'
      BY Zenon, <2>1, <3>4, <1>5 DEF Told
    <3>. QED
      BY <2>1, <3>2, <3>3, <3>4, <3>5, <1>3 DEF Told, ReportOf
  <2>4. CASE PrintOut
    <3>1. /\ Counted(words, s)'
          /\ Reported([by |-> "parent", bytes |-> intCount])
      BY <2>2, <2>4, <1>4, PrintedTrue DEF FramesFit
    <3>2. PICK r : r = [by |-> "parent", bytes |-> intCount]
      OBVIOUS
    <3>3. reports' = Append(reports, r) /\ Reported(r)'
      BY <2>4, <3>1, <3>2, <1>5 DEF PrintOut
    <3>4. r \in ReportOf
          /\ reports \in Seq(ReportOf) /\ reports' \in Seq(ReportOf)
      <4>1. r \in ReportOf
        BY <3>2 DEF ReportOf, DdTypes
      <4>2. reports \in Seq(ReportOf)
        BY <2>1 DEF Told
      <4>. QED
        BY <3>3, <4>1, <4>2
    <3>5. ASSUME NEW i \in 1..Len(reports') PROVE Reported(reports[i])'
      <4>. DEFINE n == Len(reports)
      <4>1. n \in Nat /\ Len(reports') = n + 1
            /\ (\A j \in 1..n : reports'[j] = reports[j])
            /\ reports'[n + 1] = r
        BY <3>3, <3>4
      <4>2. CASE i = n + 1
        BY Zenon, <4>1, <4>2, <3>3 DEF Reported
      <4>3. CASE i \in 1..n
        <5>1. Reported(reports[i])
          BY <4>3, <2>1 DEF Told
        <5>. QED
          BY Zenon, <4>1, <4>3, <5>1, <1>5 DEF Reported
      <4>. QED
        BY <4>1, <4>2, <4>3
    <3>. QED
      BY <3>1, <3>4, <3>5, <1>3 DEF Told, ReportOf
  <2>5. CASE ExitDone
    <3>1. reports' = reports /\ intCount' = intCount /\ frames' = <<>>
      BY <2>5 DEF ExitDone
    <3>2. Counted(words, s)'
      BY <2>2, <3>1, <1>1, <1>2, <1>3 DEF Counted, Factor
    <3>3. \A i \in 1..Len(reports') : Reported(reports[i])'
      BY Zenon, <2>1, <3>1, <1>5 DEF Told
    <3>. QED
      BY <2>1, <3>1, <3>2, <3>3, <1>3 DEF Told, ReportOf
  <2>. QED
    BY <2>3, <2>4, <2>5
<1>. QED
  BY <1>2, <1>4, <1>6 DEF Counting, FramesFit, Clear, Told

LEMMA CountingNext ==
  ASSUME DdTypes, DdShape, Counting, [DdNext]_ddVars
  PROVE  Counting'
<1>1. CASE LastBlock
  <2>1. /\ Done /\ dpc # "exited" /\ frames = <<>>
        /\ UNCHANGED <<cmd, dpc, intCount, wrote, writer, odds, reports,
                       mishaps>>
    BY <1>1 DEF LastBlock, Running, fileVars, randVars
  <2>2. Signals' = Signals
    BY <2>1, SignalsKept
  <2>. QED
    BY <2>1, <2>2, CountingDone, SignalsType
<1>2. CASE \E sig \in {"alarm", "int"} : Signal(sig)
  <2>1. PICK sig \in {"alarm", "int"} : Signal(sig)
    BY <1>2
  <2>2. /\ Done /\ dpc # "exited" /\ sig \notin mishaps
        /\ mishaps' = mishaps \cup {sig}
        /\ UNCHANGED <<cmd, dpc, intCount, wrote, writer, odds, reports>>
    BY <2>1 DEF Signal, Mishap, fileVars, randVars
  <2>3. Cardinality(Signals)' = Cardinality(Signals) + 1
    BY <2>2, SignalCounted
  <2>. QED
    BY <2>2, <2>3, CountingDone, SignalsType
<1>3. CASE UNCHANGED ddVars
  <2>1. UNCHANGED <<cmd, dpc, moved, intCount, wrote, writer, frames, odds,
                    reports, mishaps>>
    BY <1>3 DEF ddVars, fileVars, randVars, doneVars
  <2>2. \A words, s : Counted(words, s) <=> Counted(words, s)'
    BY <2>1 DEF Counted, Factor, Pending, Uncounted, ToCount, InLoop
  <2>3. \A r : Reported(r) <=> Reported(r)'
    BY <2>1 DEF Reported, Pending, Uncounted, Signals
  <2>4. Told' = Told /\ FramesFit' = FramesFit /\ Clear' = Clear
    BY <2>1, <2>2, <2>3 DEF Told, InLoop, FramesFit, Signals, Clear, NoneLost,
       Internal, None
  <2>. QED
    BY <2>4 DEF Counting, FramesFit, Clear, Told
<1>. QED
  BY Zenon, <1>1, <1>2, <1>3, CountingMoves, CountingCheck,
     CountingWriteFails, CountingLost, CountingChild, CountingReports
  DEF DdNext, DdStep

-----------------------------------------------------------------------------

CopyInv ==
    DdTypes /\ DdShape /\ Inputs /\ Outputs /\ Counting

LEMMA CopyInit ==
  DdInit => CopyInv
  BY DdTypesInit, InputsInit, OutputsInit, CountingInit DEF CopyInv

LEMMA CopyNext ==
  CopyInv /\ [DdNext]_ddVars => CopyInv'
  BY DdTypesNext, InputsNext, OutputsNext, CountingNext DEF CopyInv

LEMMA ReportsTrue ==
  ASSUME DdTypes, DdShape, Counting
  PROVE  ReportTrue
<1>. SUFFICES ASSUME NEW i \in 1..Len(reports), reports[i].by = "parent",
                     Clear
              PROVE  \E n \in 0..Cardinality(Signals),
                        whole \in wrote - Uncounted..wrote + Unwritten :
                           reports[i].bytes = <<1, 4, 16>>[n + 1] * whole
  BY DEF ReportTrue, Clear, NoneLost
<1>1. Reported(reports[i])
  BY CountingParts DEF Told
<1>2. PICK n \in 0..Cardinality(Signals),
           whole \in (wrote + Pending) - Uncounted..wrote + Pending :
              reports[i].bytes = <<1, 4, 16>>[n + 1] * whole
  BY Zenon, <1>1 DEF Reported
<1>3. wrote \in Nat /\ Pending \in Nat /\ Pending <= Unwritten
      /\ Uncounted \in Int /\ Unwritten \in Nat
  <2>1. Pending \in Nat /\ Pending <= cmd.bs /\ cmd.bs \in Nat
        /\ (writer = <<>> => Pending = 0) /\ Uncounted \in Int
    BY BufferedType
  <2>2. wrote \in Nat /\ (writer # <<>> => cmd.fork)
    BY DEF DdTypes, DdShape
  <2>. QED
    BY <2>1, <2>2 DEF Unwritten
<1>4. whole \in wrote - Uncounted..wrote + Unwritten
  BY <1>3
<1>. QED
  BY Zenon, <1>2, <1>4

LEMMA CopyIsFaithful ==
  CopyInv => CopyFaithful
  BY ReportsTrue DEF CopyInv, Outputs, CopyFaithful

\* lmdd reports what it has moved, writes what it was told to, and finds no
\* mismatch in its own pattern, for any command line main() accepts, of any
\* sizes: with short reads of a pipe, failing calls, and signals.
THEOREM LmddCopiesFaithfully ==
  DdSpec => []CopyFaithful
<1>1. DdInit => CopyInv
  BY CopyInit
<1>2. CopyInv /\ [DdNext]_ddVars => CopyInv'
  BY CopyNext
<1>3. CopyInv => CopyFaithful
  BY CopyIsFaithful
<1>. QED
  BY <1>1, <1>2, <1>3, PTL DEF DdSpec

=============================================================================
