----------------------------- MODULE PathProofs -----------------------------
(***************************************************************************)
(* Theorems of EvidencePath, and lemmas about the operators of SearchText, *)
(* for any page, any limits and any model window.  Every recursive         *)
(* function is first shown to be what its recursion says (RecursionExists  *)
(* of DataProofs); what it gives then follows by induction over numbers.   *)
(***************************************************************************)
EXTENDS EvidencePath, DataProofs

-----------------------------------------------------------------------------
\* Sums

\* sums gives the sum of the first i items of s, for each i.
SumsOf(sums, s) == sums[0] = 0 /\ \A i \in 1..Len(s) : sums[i] = sums[i - 1] + s[i]

\* Total is what its recursion says, and each sum on the way is a number.
LEMMA TotalsExist ==
  ASSUME NEW s \in Seq(Nat)
  PROVE  \E sums \in [0..Len(s) -> Nat] : Total(s) = sums[Len(s)] /\ SumsOf(sums, s)
<1> DEFINE n == Len(s)
           next == [i \in 0..n |-> [f \in [0..n -> Nat] |-> IF i = 0 THEN 0 ELSE f[i - 1] + s[i]]]
           Is(g) == g = [i \in 0..n |-> IF i = 0 THEN 0 ELSE g[i - 1] + s[i]]
<1>1. n \in Nat /\ \A i \in 1..n : s[i] \in Nat
  OBVIOUS
<1>2. \A i \in 0..n : i # 0 => i - 1 \in 0..n /\ i \in 1..n
  BY <1>1
<1>3. next \in [0..n -> [[0..n -> Nat] -> Nat]] /\ \A i \in 0..n : \A f \in [0..n -> Nat] : next[i][f] = IF i = 0 THEN 0 ELSE f[i - 1] + s[i]
  <2>1. ASSUME NEW i \in 0..n, NEW f \in [0..n -> Nat] PROVE (IF i = 0 THEN 0 ELSE f[i - 1] + s[i]) \in Nat
    <3>1. i # 0 => f[i - 1] \in Nat /\ s[i] \in Nat
      BY <1>1, <1>2
    <3> QED BY <3>1
  <2> QED BY <2>1
<1> HIDE DEF next
<1>4. LooksBack(n, Nat, next)
  <2> SUFFICES ASSUME NEW i \in 0..n, NEW f \in [0..n -> Nat], NEW g \in [0..n -> Nat], \A j \in 0..(i - 1) : f[j] = g[j]
               PROVE  next[i][f] = next[i][g]
    BY DEF LooksBack
  <2>1. i # 0 => i - 1 \in 0..(i - 1)
    BY <1>1
  <2> QED BY <1>3, <2>1
<1>5. PICK f : IsRecursive(n, Nat, next, f)
  <2> HIDE DEF n
  <2>1. 0 \in Nat
    OBVIOUS
  <2> QED BY <1>1, <1>3, <1>4, <2>1, RecursionExists
<1>6. Is(f)
  <2>1. f \in [0..n -> Nat] /\ \A i \in 0..n : f[i] = IF i = 0 THEN 0 ELSE f[i - 1] + s[i]
    BY <1>3, <1>5 DEF IsRecursive
  <2> QED BY <2>1
<1> DEFINE sums == CHOOSE g : Is(g)
<1>7. Is(sums)
  <2> HIDE DEF Is
  <2> QED BY <1>6
<1>8. Total(s) = sums[n]
  BY DEF Total
<1> HIDE DEF sums
<1>9. \A i \in 0..n : sums[i] = IF i = 0 THEN 0 ELSE sums[i - 1] + s[i]
  BY <1>7
<1>10. SumsOf(sums, s)
  <2>1. \A i \in 1..n : i \in 0..n /\ i # 0
    BY <1>1
  <2>2. 0 \in 0..n
    BY <1>1
  <2> QED BY <1>9, <2>1, <2>2 DEF SumsOf
<1>11. sums \in [0..n -> Nat]
  <2> DEFINE good == {i \in 0..n : sums[i] \in Nat}
  <2>1. 0 \in good
    BY <1>1, <1>9
  <2>2. ASSUME NEW i \in 0..(n - 1), i \in good PROVE i + 1 \in good
    <3>1. i + 1 \in 1..n /\ (i + 1) - 1 = i /\ i + 1 \in 0..n
      BY <1>1
    <3>2. sums[i + 1] = sums[i] + s[i + 1]
      BY <1>10, <3>1 DEF SumsOf
    <3> QED BY <1>1, <2>2, <3>1, <3>2
  <2>3. good = 0..n
    <3>1. good \in SUBSET (0..n)
      OBVIOUS
    <3> HIDE DEF good, n
    <3> QED BY <1>1, <2>1, <2>2, <3>1, UpFromZero
  <2> QED BY <1>7, <2>3
<1> QED BY <1>8, <1>10, <1>11

\* A sum is the last of the numbers that add up one item after the other.
LEMMA TotalIs ==
  ASSUME NEW s \in Seq(Nat), NEW sums, SumsOf(sums, s)
  PROVE  Total(s) = sums[Len(s)] /\ \A i \in 0..Len(s) : sums[i] \in Nat
<1>1. PICK f \in [0..Len(s) -> Nat] : Total(s) = f[Len(s)] /\ SumsOf(f, s)
  BY TotalsExist
<1> DEFINE n == Len(s)
           good == {i \in 0..n : sums[i] = f[i]}
<1>2. n \in Nat
  OBVIOUS
<1>3. 0 \in good
  BY <1>1, <1>2 DEF SumsOf
<1>4. ASSUME NEW i \in 0..(n - 1), i \in good PROVE i + 1 \in good
  <2>1. i + 1 \in 1..n /\ (i + 1) - 1 = i /\ i + 1 \in 0..n
    BY <1>2
  <2>2. sums[i + 1] = sums[i] + s[i + 1] /\ f[i + 1] = f[i] + s[i + 1]
    BY <1>1, <2>1 DEF SumsOf
  <2> QED BY <1>4, <2>1, <2>2
<1>5. good = 0..n
  <2>1. good \in SUBSET (0..n)
    OBVIOUS
  <2> HIDE DEF good, n
  <2> QED BY <1>2, <1>3, <1>4, <2>1, UpFromZero
<1> QED BY <1>1, <1>2, <1>5

\* The sum of numbers is a number,
LEMMA TotalIsNumber ==
  ASSUME NEW s \in Seq(Nat)
  PROVE  Total(s) \in Nat
<1>1. PICK f \in [0..Len(s) -> Nat] : Total(s) = f[Len(s)] /\ SumsOf(f, s)
  BY TotalsExist
<1> QED BY <1>1

\* of none it is 0,
LEMMA TotalOfNone == Total(<<>>) = 0
<1>1. PICK s \in Seq(Nat) : s = <<>> /\ Len(s) = 0
  <2>1. <<>> \in Seq(Nat) /\ Len(<<>>) = 0
    OBVIOUS
  <2> QED BY <2>1, Zenon
<1>2. PICK f \in [0..Len(s) -> Nat] : Total(s) = f[Len(s)] /\ SumsOf(f, s)
  BY TotalsExist
<1> QED BY <1>1, <1>2 DEF SumsOf

\* One item more adds that item to the sum.
LEMMA TotalOfMore ==
  ASSUME NEW s \in Seq(Nat), NEW x \in Nat
  PROVE  Total(Append(s, x)) = Total(s) + x
<1>1. PICK n \in Nat : n = Len(s)
  OBVIOUS
<1>2. PICK t \in Seq(Nat) : t = Append(s, x) /\ Len(t) = n + 1 /\ t[n + 1] = x /\ \A i \in 1..n : t[i] = s[i]
  <2>1. Append(s, x) \in Seq(Nat) /\ Len(Append(s, x)) = n + 1 /\ Append(s, x)[n + 1] = x /\ \A i \in 1..n : Append(s, x)[i] = s[i]
    BY <1>1
  <2> QED BY <2>1, Zenon
<1>3. PICK f \in [0..(n + 1) -> Nat] : Total(t) = f[n + 1] /\ SumsOf(f, t)
  BY <1>2, TotalsExist
<1>4. SumsOf(f, s)
  <2>1. \A i \in 1..n : i \in 1..(n + 1)
    OBVIOUS
  <2> QED BY <1>1, <1>2, <1>3, <2>1 DEF SumsOf
<1>5. Total(s) = f[n]
  BY <1>1, <1>4, TotalIs
<1>6. f[n + 1] = f[n] + x
  <2>1. n + 1 \in 1..(n + 1) /\ (n + 1) - 1 = n
    OBVIOUS
  <2> QED BY <1>2, <1>3, <2>1 DEF SumsOf
<1> QED BY <1>2, <1>3, <1>5, <1>6

-----------------------------------------------------------------------------
\* The windows of a page

\* Ranges as the model has them: first and last position
Ranges == Nat \X Nat

\* A range of a page of so many characters
InPage(r, size) == r \in Ranges /\ 1 <= r[1] /\ r[1] <= r[2] /\ r[2] <= size

\* A range without the blanks at its ends keeps all that is not blank.
LEMMA TrimIs ==
  ASSUME NEW page, NEW a \in Nat, NEW b \in Nat, Solid(page, a, b) # {}
  PROVE  \E c \in a..b, e \in a..b :
           /\ TrimFrom(page, a, b) = <<c, e>> /\ c <= e /\ ~Blank(page[c]) /\ ~Blank(page[e])
           /\ \A i \in a..b : ~Blank(page[i]) => i \in c..e
<1>1. PICK ink : ink = Solid(page, a, b) /\ ink # {} /\ \A i : i \in ink <=> i \in a..b /\ ~Blank(page[i])
  BY DEF Solid
<1>2. ink \in SUBSET Nat /\ ink \in SUBSET (0..b)
  BY <1>1
<1>3. Min(ink) \in ink /\ \A x \in ink : Min(ink) <= x
  BY <1>1, <1>2, MinIs
<1>4. Max(ink) \in ink /\ \A x \in ink : x <= Max(ink)
  BY <1>1, <1>2, MaxIs
<1>5. PICK c, e : c = Min(ink) /\ e = Max(ink)
  OBVIOUS
<1>6. c \in a..b /\ e \in a..b /\ c <= e /\ ~Blank(page[c]) /\ ~Blank(page[e])
  BY <1>1, <1>3, <1>4, <1>5
<1>7. ASSUME NEW i \in a..b, ~Blank(page[i]) PROVE i \in c..e
  BY <1>1, <1>3, <1>4, <1>5, <1>6, <1>7
<1>8. TrimFrom(page, a, b) = <<c, e>>
  BY <1>1, <1>5 DEF TrimFrom
<1> QED BY <1>6, <1>7, <1>8

\* A window ends behind its start, and is no longer than it may be.
LEMMA WindowEndIs ==
  ASSUME TextAssumption, NEW page, NEW size \in Nat, Len(page) = size, NEW start \in 0..(size - 1)
  PROVE  WindowEnd(page, start) \in (start + 1)..size /\ WindowEnd(page, start) <= start + MaxChars
<1>1. MaxChars \in Nat /\ MaxChars > 0 /\ Lead \in Nat
  BY DEF TextAssumption
<1>2. PICK end : end = (IF start + MaxChars < size THEN start + MaxChars ELSE size)
  OBVIOUS
<1>3. end \in (start + 1)..size /\ end <= start + MaxChars /\ end \in Nat /\ start \in Nat
  BY <1>1, <1>2
<1>4. PICK ends : ends = {i \in start + Lead + 1..end : page[i] = "|" \/ (page[i] = "." /\ i < end /\ page[i + 1] = " ")}
  OBVIOUS
<1>5. WindowEnd(page, start) = IF end = size \/ ends = {} \/ Max(ends) = start + Lead + 1 THEN end
                               ELSE IF page[Max(ends)] = "|" THEN Max(ends) ELSE Max(ends) + 1
  BY <1>2, <1>4 DEF WindowEnd
<1>6. CASE end = size \/ ends = {} \/ Max(ends) = start + Lead + 1
  BY <1>3, <1>5, <1>6
<1>7. CASE ~(end = size \/ ends = {} \/ Max(ends) = start + Lead + 1)
  <2>1. ends \in SUBSET (0..end)
    <3>1. \A i \in start + Lead + 1..end : i \in 0..end
      BY <1>1, <1>3
    <3>2. \A i \in ends : i \in start + Lead + 1..end
      BY <1>4
    <3> QED BY <3>1, <3>2
  <2>2. PICK last : last = Max(ends) /\ last \in ends
    BY <1>3, <1>7, <2>1, MaxIs
  <2>3. last \in start + Lead + 1..end /\ (page[last] = "|" \/ last < end)
    BY <1>4, <2>2
  <2>4. WindowEnd(page, start) = last \/ (WindowEnd(page, start) = last + 1 /\ last < end)
    BY <1>5, <1>7, <2>2, <2>3
  <2> QED BY <1>1, <1>3, <2>3, <2>4
<1> QED BY <1>6, <1>7

\* The windows of what is left of a page, from those of what is left at the next of them
WindowsOf(page, size, left, rest) ==
  IF left = 0 THEN <<>>
  ELSE LET start == size - left
           end == WindowEnd(page, start)
       IN <<<<start + 1, end>>>> \o (IF end = size THEN <<>> ELSE rest)
\* How much is left there
LeftNext(page, size, left) ==
  LET start == size - left
      end == WindowEnd(page, start)
  IN size - (IF end - Overlap > start + 1 THEN end - Overlap ELSE start + 1)

\* Every position from first on is in one of the ranges.
CoveredFrom(first, size, ranges) == \A i \in first..size : \E k \in DOMAIN ranges : i \in ranges[k][1]..ranges[k][2]
\* Windows of the last left positions: in the page, none too long, and nothing between them
RightWindows(size, left, ranges) ==
  /\ ranges \in Seq(Ranges)
  /\ \A k \in DOMAIN ranges : InPage(ranges[k], size) /\ ranges[k][2] - ranges[k][1] < MaxChars
  /\ CoveredFrom(size - left + 1, size, ranges)

\* Unless the page ends with a window, the next one starts in it or right behind it.
LEMMA LeftNextIs ==
  ASSUME TextAssumption, NEW page, NEW size \in Nat, Len(page) = size, NEW left \in 1..size, WindowEnd(page, size - left) # size
  PROVE  LeftNext(page, size, left) \in 0..(left - 1) /\ LeftNext(page, size, left) >= size - WindowEnd(page, size - left)
<1>1. PICK start : start = size - left /\ start \in 0..(size - 1)
  OBVIOUS
<1>2. PICK end : end = WindowEnd(page, start) /\ end \in (start + 1)..size
  <2>1. WindowEnd(page, start) \in (start + 1)..size
    BY <1>1, WindowEndIs
  <2> QED BY <2>1
<1>3. end \in Nat /\ end < size /\ end >= start + 1 /\ Overlap \in Nat
  BY <1>1, <1>2 DEF TextAssumption
<1>4. LeftNext(page, size, left) = size - (IF end - Overlap > start + 1 THEN end - Overlap ELSE start + 1)
  BY <1>1, <1>2 DEF LeftNext
<1>5. PICK next : next = (IF end - Overlap > start + 1 THEN end - Overlap ELSE start + 1) /\ next \in Nat /\ next > start /\ next <= end
  <2>1. end - Overlap \in Int
    BY <1>3
  <2> QED BY <1>1, <1>3, <2>1
<1>6. LeftNext(page, size, left) = size - next
  BY <1>4, <1>5
<1>7. size - next \in 0..(left - 1) /\ size - next >= size - end
  BY <1>1, <1>3, <1>5
<1> QED BY <1>1, <1>2, <1>6, <1>7

\* A window before right windows gives right windows: the step of the induction.
LEMMA WindowsKept ==
  ASSUME TextAssumption, NEW page, NEW size \in Nat, Len(page) = size, NEW left \in 0..size, NEW rest \in Seq(Ranges),
         left # 0 /\ WindowEnd(page, size - left) # size => RightWindows(size, LeftNext(page, size, left), rest)
  PROVE  RightWindows(size, left, WindowsOf(page, size, left, rest))
<1>1. CASE left = 0
  <2>1. WindowsOf(page, size, left, rest) = <<>> /\ <<>> \in Seq(Ranges) /\ DOMAIN <<>> = {}
    BY <1>1 DEF WindowsOf
  <2>2. \A i \in (size - left + 1)..size : FALSE
    BY <1>1
  <2> QED BY <2>1, <2>2 DEF RightWindows, CoveredFrom
<1>2. CASE left # 0
  <2>1. PICK start : start = size - left /\ start \in 0..(size - 1) /\ left = size - start
    BY <1>2
  <2>2. PICK end : end = WindowEnd(page, start) /\ end \in (start + 1)..size /\ end <= start + MaxChars
    <3>1. WindowEnd(page, start) \in (start + 1)..size /\ WindowEnd(page, start) <= start + MaxChars
      BY <2>1, WindowEndIs
    <3> QED BY <3>1
  <2>3. PICK first : first = <<start + 1, end>> /\ first[1] = start + 1 /\ first[2] = end
    <3>1. <<start + 1, end>>[1] = start + 1 /\ <<start + 1, end>>[2] = end
      OBVIOUS
    <3> QED BY <3>1, Zenon
  <2>4. MaxChars \in Nat
    BY DEF TextAssumption
  <2>5. first \in Ranges /\ InPage(first, size) /\ first[2] - first[1] < MaxChars
    <3>1. first \in Ranges
      BY <2>1, <2>2, <2>3 DEF Ranges
    <3>2. 1 <= start + 1 /\ start + 1 <= end /\ end <= size /\ end - (start + 1) < MaxChars
      BY <2>1, <2>2, <2>4
    <3> QED BY <2>3, <3>1, <3>2 DEF InPage
  <2>6. PICK more \in Seq(Ranges) : more = (IF end = size THEN <<>> ELSE rest)
    <3>1. <<>> \in Seq(Ranges)
      OBVIOUS
    <3>2. (IF end = size THEN <<>> ELSE rest) \in Seq(Ranges)
      BY <3>1, Zenon
    <3> QED BY <3>2, Zenon
  <2>7. WindowsOf(page, size, left, rest) = <<first>> \o more
    BY <1>2, <2>1, <2>2, <2>3, <2>6 DEF WindowsOf
  <2>8. end # size => RightWindows(size, LeftNext(page, size, left), more)
    BY <1>2, <2>1, <2>2, <2>6
  <2>9. PICK m \in Nat : m = Len(more) /\ DOMAIN more = 1..m
    OBVIOUS
  <2>10. PICK all : all = <<first>> \o more
    OBVIOUS
  <2>11. /\ all \in Seq(Ranges) /\ DOMAIN all = 1..(m + 1) /\ all[1] = first
         /\ \A k \in 1..m : all[k + 1] = more[k]
    BY <2>5, <2>9, <2>10
  <2>12. \A k \in DOMAIN more : InPage(more[k], size) /\ more[k][2] - more[k][1] < MaxChars
    <3>1. end = size => DOMAIN more = {}
      BY <2>6
    <3> QED BY <2>8, <3>1 DEF RightWindows
  <2>13. ASSUME NEW k \in DOMAIN all PROVE InPage(all[k], size) /\ all[k][2] - all[k][1] < MaxChars
    <3>1. k = 1 \/ (k - 1 \in 1..m /\ all[k] = more[k - 1])
      <4>1. k = 1 \/ k - 1 \in 1..m
        BY <2>11
      <4>2. (k - 1) + 1 = k
        BY <2>11
      <4> QED BY <2>11, <4>1, <4>2
    <3> QED BY <2>5, <2>9, <2>11, <2>12, <3>1
  <2>14. ASSUME NEW i \in (start + 1)..size PROVE \E k \in DOMAIN all : i \in all[k][1]..all[k][2]
    <3>1. CASE i <= end
      <4>1. i \in first[1]..first[2]
        BY <2>1, <2>2, <2>3, <3>1
      <4>2. 1 \in DOMAIN all
        BY <2>11
      <4> QED BY <2>11, <4>1, <4>2
    <3>2. CASE i > end
      <4>1. end # size
        BY <2>1, <2>2, <3>2
      <4>2. PICK less : less = LeftNext(page, size, left)
        OBVIOUS
      <4>3. less \in 0..(left - 1) /\ less >= size - end
        <5>1. left \in 1..size
          BY <1>2
        <5> QED BY <2>1, <2>2, <4>1, <4>2, <5>1, LeftNextIs
      <4>4. i \in (size - less + 1)..size
        BY <2>1, <2>2, <3>2, <4>3
      <4>5. PICK k \in DOMAIN more : i \in more[k][1]..more[k][2]
        BY <2>8, <4>1, <4>2, <4>4 DEF RightWindows, CoveredFrom
      <4>6. k + 1 \in DOMAIN all /\ all[k + 1] = more[k]
        BY <2>9, <2>11
      <4> QED BY <4>5, <4>6
    <3> QED BY <2>1, <2>2, <3>1, <3>2
  <2>15. size - left + 1 = start + 1
    BY <2>1
  <2> QED BY <2>7, <2>10, <2>11, <2>13, <2>14, <2>15 DEF RightWindows, CoveredFrom
<1> QED BY <1>1, <1>2

\* The windows of what is left, where rest is known of less
WindowsFrom(page, size, left, rest) ==
  WindowsOf(page, size, left,
            IF LeftNext(page, size, left) \in 0..(left - 1) THEN rest[LeftNext(page, size, left)] ELSE <<>>)

\* Windows is what its recursion says.
LEMMA WindowsExist ==
  ASSUME TextAssumption, NEW page, NEW size \in Nat, Len(page) = size
  PROVE  \E windows : Windows(page) = windows[size] /\ \A left \in 0..size : windows[left] = WindowsFrom(page, size, left, windows)
<1> DEFINE S == Seq(Ranges)
           next == [left \in 0..size |-> [f \in [0..size -> S] |-> WindowsFrom(page, size, left, f)]]
           Value(left, f) ==
             IF left = 0 THEN <<>>
             ELSE LET start == size - left
                      end == WindowEnd(page, start)
                      following == IF end - Overlap > start + 1 THEN end - Overlap ELSE start + 1
                  IN <<<<start + 1, end>>>> \o (IF end = size THEN <<>> ELSE f[size - following])
           Is(g) == g = [left \in 0..size |-> Value(left, g)]
<1>2. ASSUME NEW left \in 0..size, NEW f PROVE Value(left, f) = WindowsFrom(page, size, left, f)
  <2>1. CASE left = 0
    BY <2>1 DEF WindowsFrom, WindowsOf
  <2>2. CASE left # 0
    <3>1. PICK start : start = size - left /\ left \in 1..size
      BY <2>2
    <3>2. PICK end : end = WindowEnd(page, start)
      OBVIOUS
    <3>3. CASE end = size
      BY <2>2, <3>1, <3>2, <3>3 DEF WindowsFrom, WindowsOf
    <3>4. CASE end # size
      <4>1. LeftNext(page, size, left) \in 0..(left - 1)
        BY <3>1, <3>2, <3>4, LeftNextIs
      <4>2. WindowsFrom(page, size, left, f) = WindowsOf(page, size, left, f[LeftNext(page, size, left)])
        BY <4>1 DEF WindowsFrom
      <4>3. LeftNext(page, size, left) = size - (IF end - Overlap > start + 1 THEN end - Overlap ELSE start + 1)
        BY <3>1, <3>2 DEF LeftNext
      <4> QED BY <2>2, <3>1, <3>2, <3>4, <4>2, <4>3 DEF WindowsOf
    <3> QED BY <3>3, <3>4
  <2> QED BY <2>1, <2>2
<1> HIDE DEF Value
<1>3. ASSUME NEW left \in 0..size, NEW f \in [0..size -> S] PROVE WindowsFrom(page, size, left, f) \in S
  <2>1. PICK rest \in S : rest = IF LeftNext(page, size, left) \in 0..(left - 1) THEN f[LeftNext(page, size, left)] ELSE <<>>
    <3>1. LeftNext(page, size, left) \in 0..(left - 1) => LeftNext(page, size, left) \in 0..size
      OBVIOUS
    <3>2. <<>> \in S
      OBVIOUS
    <3> QED BY <3>1, <3>2
  <2>2. WindowsFrom(page, size, left, f) = WindowsOf(page, size, left, rest)
    BY <2>1 DEF WindowsFrom
  <2>3. CASE left = 0
    BY <2>2, <2>3 DEF WindowsOf
  <2>4. CASE left # 0
    <3>1. PICK start : start = size - left /\ start \in 0..(size - 1)
      BY <2>4
    <3>2. WindowEnd(page, start) \in (start + 1)..size
      BY <3>1, WindowEndIs
    <3>3. PICK first : first = <<start + 1, WindowEnd(page, start)>> /\ first \in Ranges
      <4>1. <<start + 1, WindowEnd(page, start)>> \in Ranges
        BY <3>1, <3>2 DEF Ranges
      <4> QED BY <4>1, Zenon
    <3>4. PICK more \in S : more = (IF WindowEnd(page, start) = size THEN <<>> ELSE rest)
      <4>1. <<>> \in S
        OBVIOUS
      <4>2. (IF WindowEnd(page, start) = size THEN <<>> ELSE rest) \in S
        BY <4>1, Zenon
      <4> QED BY <4>2, Zenon
    <3>5. WindowsFrom(page, size, left, f) = <<first>> \o more
      BY <2>2, <2>4, <3>1, <3>3, <3>4 DEF WindowsOf
    <3> QED BY <3>3, <3>4, <3>5
  <2> QED BY <2>3, <2>4
<1>4. next \in [0..size -> [[0..size -> S] -> S]] /\ \A left \in 0..size : \A f \in [0..size -> S] : next[left][f] = WindowsFrom(page, size, left, f)
  BY <1>3
<1> HIDE DEF next
<1>5. LooksBack(size, S, next)
  <2> SUFFICES ASSUME NEW left \in 0..size, NEW f \in [0..size -> S], NEW g \in [0..size -> S], \A j \in 0..(left - 1) : f[j] = g[j]
               PROVE  next[left][f] = next[left][g]
    BY DEF LooksBack
  <2>1. WindowsFrom(page, size, left, f) = WindowsFrom(page, size, left, g)
    BY DEF WindowsFrom
  <2>2. next[left][f] = WindowsFrom(page, size, left, f) /\ next[left][g] = WindowsFrom(page, size, left, g)
    BY <1>4
  <2> QED BY <2>1, <2>2, Zenon
<1>6. PICK f : IsRecursive(size, S, next, f)
  <2>1. <<>> \in S
    OBVIOUS
  <2> HIDE DEF S
  <2> QED BY <1>4, <1>5, <2>1, RecursionExists
<1>7. f \in [0..size -> S] /\ \A left \in 0..size : f[left] = Value(left, f)
  BY <1>2, <1>4, <1>6 DEF IsRecursive
<1>8. Is(f)
  BY <1>7
<1> DEFINE windows == CHOOSE g : Is(g)
<1>9. Is(windows)
  <2> HIDE DEF Is
  <2> QED BY <1>8
<1>10. Windows(page) = windows[size]
  BY DEF Windows, Value
<1> HIDE DEF windows
<1>11. \A left \in 0..size : windows[left] = WindowsFrom(page, size, left, windows)
  BY <1>2, <1>9
<1> QED BY <1>10, <1>11

\* The windows of a page are ranges of it that fit, and leave nothing out.
LEMMA WindowsAre ==
  ASSUME TextAssumption, NEW page, NEW size \in Nat, Len(page) = size
  PROVE  RightWindows(size, size, Windows(page))
<1>1. PICK windows : Windows(page) = windows[size] /\ \A left \in 0..size : windows[left] = WindowsFrom(page, size, left, windows)
  BY WindowsExist
<1> DEFINE good == {left \in 0..size : RightWindows(size, left, windows[left])}
<1>2. ASSUME NEW left \in 0..size, \A j \in 0..(left - 1) : j \in good PROVE left \in good
  <2>1. PICK less : less = LeftNext(page, size, left)
    OBVIOUS
  <2>2. PICK rest : rest = (IF less \in 0..(left - 1) THEN windows[less] ELSE <<>>)
    OBVIOUS
  <2>3. less \in 0..(left - 1) => RightWindows(size, less, rest)
    BY <1>2, <2>2
  <2>4. rest \in Seq(Ranges)
    <3>1. CASE less \in 0..(left - 1)
      BY <2>3, <3>1 DEF RightWindows
    <3>2. CASE less \notin 0..(left - 1)
      <4>1. rest = <<>>
        BY <2>2, <3>2
      <4> QED BY <4>1
    <3> QED BY <3>1, <3>2
  <2>5. left # 0 /\ WindowEnd(page, size - left) # size => RightWindows(size, LeftNext(page, size, left), rest)
    <3> SUFFICES ASSUME left # 0, WindowEnd(page, size - left) # size PROVE RightWindows(size, LeftNext(page, size, left), rest)
      OBVIOUS
    <3>1. left \in 1..size
      OBVIOUS
    <3>2. LeftNext(page, size, left) \in 0..(left - 1)
      BY <3>1, LeftNextIs
    <3> QED BY <2>1, <2>3, <3>2
  <2>6. windows[left] = WindowsOf(page, size, left, rest)
    BY <1>1, <2>1, <2>2 DEF WindowsFrom
  <2>7. RightWindows(size, left, windows[left])
    BY <2>4, <2>5, <2>6, WindowsKept
  <2> QED BY <2>7
<1>3. good = 0..size
  <2>1. good \in SUBSET (0..size)
    OBVIOUS
  <2> HIDE DEF good
  <2> QED BY <1>2, <2>1, UpFromBelow
<1>4. size \in good
  BY <1>3
<1> QED BY <1>1, <1>4

\* A range with something to read at both its ends
SolidEnds(page, r) == ~Blank(page[r[1]]) /\ ~Blank(page[r[2]])

\* Passages of a page: in it, none too long, with something to read at their ends, and all else
\* blank
RightPassages(page, size, passages) ==
  /\ passages \in Seq(Ranges)
  /\ \A k \in DOMAIN passages : InPage(passages[k], size) /\ passages[k][2] - passages[k][1] < MaxChars /\ SolidEnds(page, passages[k])
  /\ \A i \in 1..size : Blank(page[i]) \/ \E k \in DOMAIN passages : i \in passages[k][1]..passages[k][2]

\* The passages of a page are ranges of it that fit and begin and end with something to read; what they
\* leave out is blank.
LEMMA PassagesAre ==
  ASSUME TextAssumption, NEW page, NEW size \in Nat, Len(page) = size
  PROVE  RightPassages(page, size, Passages(page))
<1>1. PICK windows : windows = Windows(page) /\ RightWindows(size, size, windows)
  <2>1. RightWindows(size, size, Windows(page))
    BY WindowsAre
  <2> QED BY <2>1, Zenon
<1>2. PICK T : T = {i \in DOMAIN windows : Solid(page, windows[i][1], windows[i][2]) # {}}
  OBVIOUS
<1>3. PICK kept : kept = Only(windows, T) /\ KeptFrom(kept, Ranges, windows, T)
  <2>1. windows \in Seq(Ranges)
    BY <1>1 DEF RightWindows
  <2>2. KeptFrom(Only(windows, T), Ranges, windows, T)
    BY <2>1, OnlyItems
  <2> QED BY <2>2, Zenon
<1>4. PICK n \in Nat : DOMAIN kept = 1..n /\ Len(kept) = n
  BY <1>3 DEF KeptFrom
<1>5. PICK m \in Nat : DOMAIN windows = 1..m /\ Len(windows) = m
  BY <1>1 DEF RightWindows
<1>6. PICK passages : passages = [i \in 1..n |-> TrimFrom(page, kept[i][1], kept[i][2])]
  OBVIOUS
<1>7. Passages(page) = passages
  BY <1>1, <1>2, <1>3, <1>4, <1>6 DEF Passages
<1>8. DOMAIN passages = 1..n /\ \A k \in 1..n : passages[k] = TrimFrom(page, kept[k][1], kept[k][2])
  BY <1>6
<1> DEFINE Good(k) == /\ passages[k] \in Ranges /\ InPage(passages[k], size) /\ passages[k][2] - passages[k][1] < MaxChars
                      /\ SolidEnds(page, passages[k])
                      /\ \A i \in kept[k][1]..kept[k][2] : ~Blank(page[i]) => i \in passages[k][1]..passages[k][2]
<1>9. ASSUME NEW k \in 1..n PROVE Good(k)
  <2>1. PICK j \in 1..m : j \in T /\ kept[k] = windows[j]
    BY <1>3, <1>4, <1>5 DEF KeptFrom
  <2>2. PICK a \in Nat, b \in Nat : a = kept[k][1] /\ b = kept[k][2] /\ 1 <= a /\ a <= b /\ b <= size /\ b - a < MaxChars
    BY <1>1, <1>5, <2>1 DEF RightWindows, InPage, Ranges
  <2>3. Solid(page, a, b) # {}
    BY <1>2, <2>1, <2>2
  <2>4. PICK c \in a..b, e \in a..b :
           /\ TrimFrom(page, a, b) = <<c, e>> /\ c <= e /\ ~Blank(page[c]) /\ ~Blank(page[e])
           /\ \A i \in a..b : ~Blank(page[i]) => i \in c..e
    BY <2>3, TrimIs
  <2>5. passages[k] = <<c, e>> /\ passages[k][1] = c /\ passages[k][2] = e
    <3>1. passages[k] = <<c, e>>
      BY <1>8, <2>2, <2>4
    <3> QED BY <3>1
  <2>6. c \in Nat /\ e \in Nat /\ 1 <= c /\ e <= size /\ e - c < MaxChars
    <3>1. MaxChars \in Nat
      BY DEF TextAssumption
    <3> QED BY <2>2, <2>4, <3>1
  <2>7. passages[k] \in Ranges
    BY <2>5, <2>6 DEF Ranges
  <2>8. InPage(passages[k], size)
    BY <2>4, <2>5, <2>6, <2>7 DEF InPage
  <2>9. SolidEnds(page, passages[k])
    BY <2>4, <2>5 DEF SolidEnds
  <2>10. \A i \in kept[k][1]..kept[k][2] : ~Blank(page[i]) => i \in passages[k][1]..passages[k][2]
    BY <2>2, <2>4, <2>5
  <2> QED BY <2>5, <2>6, <2>7, <2>8, <2>9, <2>10
<1> HIDE DEF Good
<1>10. ASSUME NEW i \in 1..size, ~Blank(page[i]) PROVE \E k \in DOMAIN passages : i \in passages[k][1]..passages[k][2]
  <2>1. PICK j \in 1..m : i \in windows[j][1]..windows[j][2]
    <3>1. size - size + 1 = 1
      OBVIOUS
    <3> QED BY <1>1, <1>5, <3>1 DEF RightWindows, CoveredFrom
  <2>2. j \in T
    <3>1. i \in Solid(page, windows[j][1], windows[j][2])
      BY <1>10, <2>1 DEF Solid
    <3> QED BY <1>2, <1>5, <3>1
  <2>3. PICK k \in 1..n : kept[k] = windows[j]
    BY <1>3, <1>4, <1>5, <2>2 DEF KeptFrom
  <2>4. i \in passages[k][1]..passages[k][2]
    BY <1>9, <1>10, <2>1, <2>3 DEF Good
  <2> QED BY <1>8, <2>4
<1>11. passages \in Seq(Ranges)
  <2>1. \A k \in 1..n : passages[k] \in Ranges
    BY <1>9 DEF Good
  <2>2. passages = [k \in 1..n |-> passages[k]]
    BY <1>6, <1>8
  <2>3. passages \in [1..n -> Ranges]
    BY <2>1, <2>2
  <2> QED BY <2>3
<1> QED BY <1>7, <1>8, <1>9, <1>10, <1>11 DEF RightPassages, Good

-----------------------------------------------------------------------------
\* The dossier

\* The ranges of a page that begin and end with something to read
Readable(page, size) == {r \in Ranges : InPage(r, size) /\ SolidEnds(page, r)}

\* What build_dossier may give
Dossiers(page, size, maxPassages, maxChars) ==
  {out \in Seq(Readable(page, size)) : Len(out) <= maxPassages /\ Total(Sizes(out)) <= maxChars}

\* The sizes of a dossier's ranges are numbers, and one passage more adds its size.
LEMMA SizesAre ==
  ASSUME NEW page, NEW size \in Nat, NEW out \in Seq(Readable(page, size))
  PROVE  /\ Sizes(out) \in Seq(Nat)
         /\ \A r \in Readable(page, size) : Sizes(Append(out, r)) = Append(Sizes(out), r[2] - r[1] + 1)
<1>1. PICK n \in Nat : n = Len(out) /\ DOMAIN out = 1..n
  OBVIOUS
<1>2. \A r \in Readable(page, size) : r[2] - r[1] + 1 \in Nat
  BY DEF Readable, InPage, Ranges
<1>3. \A i \in 1..n : out[i] \in Readable(page, size)
  BY <1>1
<1>4. Sizes(out) = [i \in 1..n |-> out[i][2] - out[i][1] + 1]
  BY <1>1 DEF Sizes
<1>5. Sizes(out) \in [1..n -> Nat]
  BY <1>2, <1>3, <1>4
<1>6. Sizes(out) \in Seq(Nat) /\ Len(Sizes(out)) = n
  BY <1>5
<1>7. ASSUME NEW r \in Readable(page, size) PROVE Sizes(Append(out, r)) = Append(Sizes(out), r[2] - r[1] + 1)
  <2>1. PICK more : more = Append(out, r)
    OBVIOUS
  <2>2. DOMAIN more = 1..(n + 1) /\ more[n + 1] = r /\ \A i \in 1..n : more[i] = out[i]
    BY <1>1, <2>1
  <2>3. PICK sizes : sizes = Sizes(out) /\ sizes \in Seq(Nat) /\ Len(sizes) = n
    BY <1>6
  <2>4. PICK x \in Nat : x = r[2] - r[1] + 1
    BY <1>2
  <2>5. PICK t : t = Append(sizes, x) /\ DOMAIN t = 1..(n + 1) /\ t[n + 1] = x /\ \A i \in 1..n : t[i] = sizes[i]
    <3>1. DOMAIN Append(sizes, x) = 1..(n + 1) /\ Append(sizes, x)[n + 1] = x /\ \A i \in 1..n : Append(sizes, x)[i] = sizes[i]
      BY <2>3
    <3> QED BY <3>1, Zenon
  <2>6. t = [i \in 1..(n + 1) |-> t[i]]
    <3>1. t \in Seq(Nat) /\ Len(t) = n + 1
      BY <2>3, <2>5
    <3> QED BY <3>1
  <2>7. \A i \in 1..n : sizes[i] = out[i][2] - out[i][1] + 1
    BY <1>4, <2>3
  <2>8. \A i \in 1..(n + 1) : i = n + 1 \/ i \in 1..n
    OBVIOUS
  <2>9. \A i \in 1..(n + 1) : t[i] = more[i][2] - more[i][1] + 1
    BY <2>2, <2>4, <2>5, <2>7, <2>8
  <2>10. Sizes(more) = [i \in 1..(n + 1) |-> more[i][2] - more[i][1] + 1]
    BY <2>2 DEF Sizes
  <2>11. Sizes(more) = t
    BY <2>6, <2>9, <2>10
  <2> QED BY <2>1, <2>3, <2>4, <2>5, <2>11
<1> QED BY <1>6, <1>7

\* One passage more keeps a dossier within its limits.
LEMMA PassageAdded ==
  ASSUME TextAssumption, NEW page, NEW size \in Nat, NEW maxPassages \in Nat, NEW maxChars \in Nat,
         NEW out \in Dossiers(page, size, maxPassages, maxChars), NEW r \in Readable(page, size)
  PROVE  WithPassage(page, out, r, maxPassages, maxChars) \in Dossiers(page, size, maxPassages, maxChars)
<1>1. out \in Seq(Readable(page, size)) /\ Len(out) <= maxPassages /\ Total(Sizes(out)) <= maxChars
  BY DEF Dossiers
<1>2. PICK used \in Nat : used = Total(Sizes(out)) /\ used <= maxChars
  <2>1. Total(Sizes(out)) \in Nat
    BY <1>1, SizesAre, TotalIsNumber
  <2> QED BY <1>1, <2>1
<1>3. PICK remaining \in Nat : remaining = maxChars - used
  BY <1>2
<1>4. CASE Len(out) >= maxPassages \/ remaining < MinRemaining
  <2>1. WithPassage(page, out, r, maxPassages, maxChars) = out
    BY <1>2, <1>3, <1>4 DEF WithPassage
  <2> QED BY <2>1
<1>5. CASE ~(Len(out) >= maxPassages \/ remaining < MinRemaining)
  <2>1. remaining > 0
    BY <1>3, <1>5 DEF TextAssumption
  <2>2. PICK a \in Nat, b \in Nat : a = r[1] /\ b = r[2] /\ 1 <= a /\ a <= b /\ b <= size /\ ~Blank(page[a]) /\ ~Blank(page[b])
    BY DEF Readable, InPage, Ranges, SolidEnds
  <2>3. PICK end : end = (IF b - a + 1 > remaining THEN a + remaining - 1 ELSE b)
    OBVIOUS
  <2>4. end \in Nat /\ a <= end /\ end <= b /\ end - a + 1 <= remaining
    BY <1>3, <2>1, <2>2, <2>3
  <2>5. PICK ink : ink = Solid(page, a, end) /\ \A i : i \in ink <=> i \in a..end /\ ~Blank(page[i])
    <3>1. \A i : i \in Solid(page, a, end) <=> i \in a..end /\ ~Blank(page[i])
      BY DEF Solid
    <3> QED BY <3>1, Zenon
  <2>6. ink \in SUBSET (0..end) /\ a \in ink
    BY <2>2, <2>4, <2>5
  <2>7. PICK last : last = Max(ink) /\ last \in ink
    BY <2>4, <2>6, MaxIs
  <2>8. last \in Nat /\ a <= last /\ last <= end /\ ~Blank(page[last])
    BY <2>2, <2>4, <2>5, <2>7
  <2>9. PICK cut : cut = <<a, last>> /\ cut[1] = a /\ cut[2] = last
    <3>1. <<a, last>>[1] = a /\ <<a, last>>[2] = last
      OBVIOUS
    <3> QED BY <3>1, Zenon
  <2>10. cut \in Readable(page, size)
    <3>1. cut \in Ranges
      BY <2>8, <2>9 DEF Ranges
    <3>2. 1 <= a /\ a <= last /\ last <= size
      BY <2>2, <2>4, <2>8
    <3> QED BY <2>2, <2>8, <2>9, <3>1, <3>2 DEF Readable, InPage, SolidEnds
  <2>11. WithPassage(page, out, r, maxPassages, maxChars) = Append(out, cut)
    BY <1>2, <1>3, <1>5, <2>2, <2>3, <2>5, <2>7, <2>9 DEF WithPassage
  <2>12. Append(out, cut) \in Seq(Readable(page, size)) /\ Len(Append(out, cut)) <= maxPassages
    BY <1>1, <1>5, <2>10
  <2>13. PICK x \in Nat : x = cut[2] - cut[1] + 1 /\ x <= remaining
    BY <2>2, <2>4, <2>8, <2>9
  <2>14. Total(Sizes(Append(out, cut))) = used + x
    <3>1. Sizes(Append(out, cut)) = Append(Sizes(out), x) /\ Sizes(out) \in Seq(Nat)
      BY <1>1, <2>10, <2>13, SizesAre
    <3>2. Total(Append(Sizes(out), x)) = Total(Sizes(out)) + x
      BY <3>1, TotalOfMore
    <3> QED BY <1>2, <3>1, <3>2
  <2>15. used + x <= maxChars
    BY <1>2, <1>3, <2>13
  <2> QED BY <2>11, <2>12, <2>14, <2>15 DEF Dossiers
<1> QED BY <1>4, <1>5

\* A dossier consists of readable ranges of its page, and keeps its limits.
LEMMA DossierIs ==
  ASSUME TextAssumption, NEW page, NEW size \in Nat, NEW maxPassages \in Nat, NEW maxChars \in Nat,
         NEW ranked \in Seq(Readable(page, size))
  PROVE  Dossier(page, ranked, maxPassages, maxChars) \in Dossiers(page, size, maxPassages, maxChars)
<1> DEFINE n == Len(ranked)
           S == Dossiers(page, size, maxPassages, maxChars)
           With(i, f) == IF i = 0 THEN <<>> ELSE WithPassage(page, f[i - 1], ranked[i], maxPassages, maxChars)
           next == [i \in 0..n |-> [f \in [0..n -> S] |-> With(i, f)]]
           Is(g) == g = [i \in 0..n |-> With(i, g)]
<1>1. n \in Nat /\ (\A i \in 1..n : ranked[i] \in Readable(page, size)) /\ \A i \in 0..n : i # 0 => i \in 1..n /\ i - 1 \in 0..n
  OBVIOUS
<1>2. <<>> \in S
  <2>1. Sizes(<<>>) = <<>>
    BY DEF Sizes
  <2>2. Total(Sizes(<<>>)) = 0
    BY <2>1, TotalOfNone
  <2> QED BY <2>2 DEF Dossiers
<1>3. ASSUME NEW i \in 1..n, NEW out \in S PROVE WithPassage(page, out, ranked[i], maxPassages, maxChars) \in S
  BY <1>1, PassageAdded
<1> HIDE DEF n, S
<1>4. next \in [0..n -> [[0..n -> S] -> S]] /\ \A i \in 0..n : \A f \in [0..n -> S] : next[i][f] = With(i, f)
  <2>1. ASSUME NEW i \in 0..n, NEW f \in [0..n -> S] PROVE With(i, f) \in S
    BY <1>1, <1>2, <1>3
  <2> HIDE DEF With
  <2> QED BY <2>1
<1> HIDE DEF next
<1>5. LooksBack(n, S, next)
  <2> SUFFICES ASSUME NEW i \in 0..n, NEW f \in [0..n -> S], NEW g \in [0..n -> S], \A j \in 0..(i - 1) : f[j] = g[j]
               PROVE  next[i][f] = next[i][g]
    BY DEF LooksBack
  <2>1. i # 0 => i - 1 \in 0..(i - 1)
    BY <1>1
  <2>2. With(i, f) = With(i, g)
    BY <2>1
  <2> HIDE DEF With
  <2> QED BY <1>4, <2>2
<1>6. PICK f : IsRecursive(n, S, next, f)
  BY <1>1, <1>2, <1>4, <1>5, RecursionExists
<1>7. Is(f)
  <2>1. f \in [0..n -> S] /\ \A i \in 0..n : f[i] = With(i, f)
    BY <1>4, <1>6 DEF IsRecursive
  <2> QED BY <2>1
<1> DEFINE dossiers == CHOOSE g : Is(g)
<1>8. Is(dossiers)
  <2> HIDE DEF Is
  <2> QED BY <1>7
<1>9. Dossier(page, ranked, maxPassages, maxChars) = dossiers[n]
  BY DEF Dossier, n
<1> HIDE DEF dossiers
<1>10. \A i \in 0..n : dossiers[i] = With(i, dossiers)
  BY <1>8
<1> DEFINE good == {i \in 0..n : dossiers[i] \in S}
<1>11. 0 \in good
  BY <1>1, <1>2, <1>10
<1>12. ASSUME NEW i \in 0..(n - 1), i \in good PROVE i + 1 \in good
  <2>1. i + 1 \in 1..n /\ (i + 1) - 1 = i /\ i + 1 \in 0..n /\ i + 1 # 0
    BY <1>1
  <2>2. dossiers[i + 1] = WithPassage(page, dossiers[i], ranked[i + 1], maxPassages, maxChars)
    BY <1>10, <2>1
  <2> QED BY <1>3, <1>12, <2>1, <2>2
<1>13. good = 0..n
  <2>1. good \in SUBSET (0..n)
    OBVIOUS
  <2> HIDE DEF good
  <2> QED BY <1>1, <1>11, <1>12, <2>1, UpFromZero
<1> QED BY <1>1, <1>9, <1>13 DEF S

-----------------------------------------------------------------------------
\* The spans of a dossier

\* What lies between two ends is in the page.
LEMMA SpanRangesAre ==
  ASSUME NEW L, NEW page \in Seq(L)
  PROVE  SpanRanges(page) \in Seq(Ranges) /\ \A k \in DOMAIN SpanRanges(page) : InPage(SpanRanges(page)[k], Len(page))
<1>1. PICK size \in Nat : size = Len(page) /\ DOMAIN page = 1..size
  OBVIOUS
<1>2. PICK blockEnds : blockEnds = {i \in DOMAIN page : BlockEnd(page, i)}
  OBVIOUS
<1>3. PICK cuts : cuts = (IF blockEnds = {} THEN {} ELSE {i \in 1..Max(blockEnds) : BlockEnd(page, i) \/ SentenceEnd(page, i)})
  OBVIOUS
<1>4. cuts \in SUBSET (1..size)
  <2>1. CASE blockEnds = {}
    BY <1>3, <2>1
  <2>2. CASE blockEnds # {}
    <3>1. blockEnds \in SUBSET (0..size) /\ blockEnds \in SUBSET (1..size)
      BY <1>1, <1>2
    <3>2. PICK last : last = Max(blockEnds) /\ last \in blockEnds
      BY <2>2, <3>1, MaxIs
    <3>3. last \in 1..size
      BY <3>1, <3>2
    <3>4. \A i \in 1..last : i \in 1..size
      BY <3>3
    <3>5. \A i \in cuts : i \in 1..last
      BY <1>3, <2>2, <3>2
    <3> QED BY <3>4, <3>5
  <2> QED BY <2>1, <2>2
<1> DEFINE Begin(e) == Max({c \in cuts : c < e} \cup {0}) + 1
<1>5. ASSUME NEW e \in 1..size PROVE Begin(e) \in 1..e
  <2>1. PICK before : before = {c \in cuts : c < e} \cup {0}
    OBVIOUS
  <2>2. before \in SUBSET (0..(e - 1)) /\ before # {} /\ e - 1 \in Nat
    <3>1. \A c \in cuts : c < e => c \in 0..(e - 1)
      BY <1>4
    <3>2. 0 \in 0..(e - 1)
      OBVIOUS
    <3> QED BY <2>1, <3>1, <3>2
  <2>3. PICK last : last = Max(before) /\ last \in before
    BY <2>2, MaxIs
  <2>4. last \in 0..(e - 1)
    BY <2>2, <2>3
  <2> QED BY <2>1, <2>3, <2>4
<1>6. PICK places : places = [i \in DOMAIN page |-> i]
  OBVIOUS
<1>7. places \in Seq(Nat) /\ Len(places) = size /\ \A i \in 1..size : places[i] = i
  <2>1. places \in [1..size -> Nat]
    BY <1>1, <1>6
  <2> QED BY <1>1, <1>6, <2>1
<1>8. PICK T : T = {e \in cuts : Solid(page, Begin(e), e) # {}}
  OBVIOUS
<1>9. PICK ends : ends = Only(places, T) /\ KeptFrom(ends, Nat, places, T)
  <2>1. KeptFrom(Only(places, T), Nat, places, T)
    BY <1>7, OnlyItems
  <2> QED BY <2>1, Zenon
<1>10. PICK n \in Nat : DOMAIN ends = 1..n /\ Len(ends) = n
  BY <1>9 DEF KeptFrom
<1>11. PICK ranges : ranges = [k \in 1..n |-> TrimFrom(page, Begin(ends[k]), ends[k])]
  OBVIOUS
<1>12. SpanRanges(page) = ranges
  BY <1>2, <1>3, <1>6, <1>8, <1>9, <1>10, <1>11 DEF SpanRanges
<1>13. ASSUME NEW k \in 1..n PROVE ranges[k] \in Ranges /\ InPage(ranges[k], size)
  <2>1. PICK i \in 1..size : i \in T /\ ends[k] = i
    BY <1>7, <1>9, <1>10 DEF KeptFrom
  <2>2. PICK a \in Nat : a = Begin(i) /\ 1 <= a /\ Solid(page, a, i) # {} /\ ranges[k] = TrimFrom(page, a, i)
    <3>1. Begin(i) \in 1..i
      BY <1>5
    <3>2. Solid(page, Begin(i), i) # {}
      BY <1>8, <2>1
    <3>3. ranges[k] = TrimFrom(page, Begin(i), i)
      BY <1>11, <2>1
    <3> HIDE DEF Begin
    <3> QED BY <3>1, <3>2, <3>3
  <2>3. PICK c \in a..i, e \in a..i : ranges[k] = <<c, e>> /\ c <= e
    <3>1. i \in Nat
      OBVIOUS
    <3>2. \E c \in a..i, e \in a..i : TrimFrom(page, a, i) = <<c, e>> /\ c <= e
      BY <2>2, <3>1, TrimIs
    <3> QED BY <2>2, <3>2
  <2>4. ranges[k][1] = c /\ ranges[k][2] = e /\ c \in Nat /\ e \in Nat /\ 1 <= c /\ e <= size
    BY <2>2, <2>3
  <2>5. ranges[k] \in Ranges
    BY <2>3, <2>4 DEF Ranges
  <2> QED BY <2>3, <2>4, <2>5 DEF InPage
<1>14. ranges \in [1..n -> Ranges]
  BY <1>11, <1>13
<1>15. ranges \in Seq(Ranges) /\ DOMAIN ranges = 1..n
  BY <1>14
<1> QED BY <1>1, <1>12, <1>13, <1>15

\* Behind its repeated title a range still begins in itself.
LEMMA SkipTitleIs ==
  ASSUME NEW page, NEW a \in Nat, NEW b \in Nat, a <= b, NEW title
  PROVE  SkipTitle(page, a, b, title) \in a..b
<1> DEFINE n == b - a
           S == a..b
           Value(left, f) ==
             LET i == b - left
                 follows == Solid(page, i + 2, b)
             IN IF i < b /\ page[i] = title /\ Blank(page[i + 1]) /\ follows # {} THEN f[b - Min(follows)] ELSE i
           next == [left \in 0..n |-> [f \in [0..n -> S] |-> Value(left, f)]]
           Is(g) == g = [left \in 0..n |-> Value(left, g)]
<1>1. n \in Nat /\ a \in S
  OBVIOUS
<1>2. ASSUME NEW left \in 0..n, NEW f PROVE (Value(left, f) = b - left /\ b - left \in S) \/ \E j \in 0..(left - 1) : \A g : Value(left, g) = g[j]
  <2>1. PICK i : i = b - left /\ i \in S
    OBVIOUS
  <2>2. PICK follows : follows = Solid(page, i + 2, b)
    OBVIOUS
  <2>3. CASE i < b /\ page[i] = title /\ Blank(page[i + 1]) /\ follows # {}
    <3>1. follows \in SUBSET Nat /\ follows \in SUBSET (i + 2..b)
      <4>1. \A x \in i + 2..b : x \in Nat
        BY <2>1
      <4> QED BY <2>2, <4>1 DEF Solid
    <3>2. PICK x : x = Min(follows) /\ x \in follows
      BY <2>3, <3>1, MinIs
    <3>3. x \in i + 2..b
      BY <3>1, <3>2
    <3>4. b - x \in 0..(left - 1)
      BY <2>1, <3>3
    <3>5. \A g : Value(left, g) = g[b - x]
      BY <2>1, <2>2, <2>3, <3>2
    <3> QED BY <3>4, <3>5
  <2>4. CASE ~(i < b /\ page[i] = title /\ Blank(page[i + 1]) /\ follows # {})
    BY <2>1, <2>2, <2>4
  <2> QED BY <2>3, <2>4
<1>v. ASSUME NEW left \in 0..n, NEW f, NEW g, \A j \in 0..(left - 1) : f[j] = g[j] PROVE Value(left, f) = Value(left, g)
  <2>1. PICK i : i = b - left /\ i \in S
    OBVIOUS
  <2>2. PICK follows : follows = Solid(page, i + 2, b)
    OBVIOUS
  <2>3. CASE i < b /\ page[i] = title /\ Blank(page[i + 1]) /\ follows # {}
    <3>1. follows \in SUBSET Nat /\ follows \in SUBSET (i + 2..b)
      <4>1. \A x \in i + 2..b : x \in Nat
        BY <2>1
      <4> QED BY <2>2, <4>1 DEF Solid
    <3>2. PICK x : x = Min(follows) /\ x \in follows
      BY <2>3, <3>1, MinIs
    <3>3. x \in i + 2..b
      BY <3>1, <3>2
    <3>4. b - x \in 0..(left - 1)
      BY <2>1, <3>3
    <3>5. Value(left, f) = f[b - x] /\ Value(left, g) = g[b - x]
      BY <2>1, <2>2, <2>3, <3>2
    <3> QED BY <1>v, <3>4, <3>5
  <2>4. CASE ~(i < b /\ page[i] = title /\ Blank(page[i + 1]) /\ follows # {})
    BY <2>1, <2>2, <2>4
  <2> QED BY <2>3, <2>4
<1> HIDE DEF Value
<1>3. \A left \in 0..n : \A j \in 0..(left - 1) : j \in 0..n
  BY <1>1
<1> HIDE DEF n, S
<1>4. next \in [0..n -> [[0..n -> S] -> S]] /\ \A left \in 0..n : \A f \in [0..n -> S] : next[left][f] = Value(left, f)
  <2>1. ASSUME NEW left \in 0..n, NEW f \in [0..n -> S] PROVE Value(left, f) \in S
    BY <1>2, <1>3
  <2> QED BY <2>1
<1> HIDE DEF next
<1>5. LooksBack(n, S, next)
  <2> SUFFICES ASSUME NEW left \in 0..n, NEW f \in [0..n -> S], NEW g \in [0..n -> S], \A j \in 0..(left - 1) : f[j] = g[j]
               PROVE  next[left][f] = next[left][g]
    BY DEF LooksBack
  <2>1. Value(left, f) = Value(left, g)
    BY <1>v
  <2> QED BY <1>4, <2>1
<1>6. PICK f : IsRecursive(n, S, next, f)
  BY <1>1, <1>4, <1>5, RecursionExists
<1>7. Is(f)
  <2>1. f \in [0..n -> S] /\ \A left \in 0..n : f[left] = Value(left, f)
    BY <1>4, <1>6 DEF IsRecursive
  <2> QED BY <2>1
<1> DEFINE from == CHOOSE g : Is(g)
<1>8. Is(from)
  <2> HIDE DEF Is
  <2> QED BY <1>7
<1>9. SkipTitle(page, a, b, title) = from[n]
  BY DEF SkipTitle, n, Value
<1> HIDE DEF from
<1>10. \A left \in 0..n : from[left] = Value(left, from)
  BY <1>8
<1> DEFINE good == {left \in 0..n : from[left] \in S}
<1>11. ASSUME NEW left \in 0..n, \A j \in 0..(left - 1) : j \in good PROVE left \in good
  BY <1>2, <1>10, <1>11
<1>12. good = 0..n
  <2>1. good \in SUBSET (0..n)
    OBVIOUS
  <2> HIDE DEF good
  <2> QED BY <1>1, <1>11, <2>1, UpFromBelow
<1>13. n \in 0..n
  BY <1>1
<1> QED BY <1>9, <1>12, <1>13 DEF S

Spans == [passage : Nat, from : Nat, to : Nat]

\* A span of passage k, which has so many characters
SpanOf(s, k, size) == s \in Spans /\ s.passage = k /\ 1 <= s.from /\ s.from <= s.to /\ s.to <= size
\* How many characters a range has
Length(r) == r[2] - r[1] + 1

\* The spans of one passage lie in it, also where a repeated title was skipped.
LEMMA SpansInAre ==
  ASSUME TextAssumption, NEW L, NEW page \in Seq(L), NEW r \in Ranges, InPage(r, Len(page)), NEW k \in Nat, NEW title
  PROVE  SpansIn(page, r, k, title) \in Seq(Spans) /\ \A i \in DOMAIN SpansIn(page, r, k, title) : SpanOf(SpansIn(page, r, k, title)[i], k, Length(r))
<1>1. PICK a, b : a = r[1] /\ b = r[2] /\ a \in 1..Len(page) /\ b \in a..Len(page)
  <2>1. Len(page) \in Nat
    OBVIOUS
  <2>2. r[1] \in Nat /\ r[2] \in Nat /\ 1 <= r[1] /\ r[1] <= r[2] /\ r[2] <= Len(page)
    BY DEF InPage, Ranges
  <2> QED BY <2>1, <2>2
<1>2. PICK m \in Nat : m = b - a + 1 /\ m = Length(r)
  <2>1. b - a + 1 \in Nat
    BY <1>1
  <2> QED BY <1>1, <2>1 DEF Length
<1>3. PICK passage : passage = SubSeq(page, a, b) /\ passage \in Seq(L) /\ Len(passage) = m
  <2>1. SubSeq(page, a, b) \in Seq(L) /\ Len(SubSeq(page, a, b)) = b - a + 1
    BY <1>1, PartIs
  <2> QED BY <1>2, <2>1, Zenon
<1>4. PICK ranges : ranges = SpanRanges(passage) /\ ranges \in Seq(Ranges) /\ \A i \in DOMAIN ranges : InPage(ranges[i], m)
  <2>1. SpanRanges(passage) \in Seq(Ranges) /\ \A i \in DOMAIN SpanRanges(passage) : InPage(SpanRanges(passage)[i], Len(passage))
    BY <1>3, SpanRangesAre
  <2> QED BY <1>3, <2>1, Zenon
<1>5. PICK n \in Nat : n = Min({MaxSpans, Len(ranges)}) /\ n <= Len(ranges)
  <2>1. PICK l \in Nat : l = Len(ranges)
    BY <1>4
  <2>2. MaxSpans \in Nat
    BY DEF TextAssumption
  <2>3. MaxSpans \in Int /\ l \in Int
    BY <2>2
  <2>4. Min({MaxSpans, l}) \in {MaxSpans, l} /\ Min({MaxSpans, l}) <= l
    BY <2>3, MinOfTwo, Zenon
  <2> QED BY <2>1, <2>2, <2>4
<1>6. \A i \in 1..n : ranges[i][1] \in Nat /\ ranges[i][2] \in Nat /\ 1 <= ranges[i][1] /\ ranges[i][1] <= ranges[i][2] /\ ranges[i][2] <= m
  <2>1. \A i \in 1..n : i \in DOMAIN ranges
    BY <1>4, <1>5
  <2> QED BY <1>4, <2>1 DEF InPage, Ranges
<1> DEFINE From(i) == IF i = 1 THEN SkipTitle(passage, ranges[1][1], ranges[1][2], title) ELSE ranges[i][1]
           Span(i) == [passage |-> k, from |-> From(i), to |-> ranges[i][2]]
<1>7. ASSUME NEW i \in 1..n PROVE From(i) \in Nat /\ 1 <= From(i) /\ From(i) <= ranges[i][2]
  <2>1. PICK c \in Nat, e \in Nat : c = ranges[i][1] /\ e = ranges[i][2] /\ 1 <= c /\ c <= e
    BY <1>6
  <2>2. CASE i = 1
    <3>1. SkipTitle(passage, c, e, title) \in c..e
      BY <2>1, SkipTitleIs
    <3>2. From(i) \in c..e
      BY <2>1, <2>2, <3>1
    <3> QED BY <2>1, <3>2
  <2>3. CASE i # 1
    BY <2>1, <2>3
  <2> QED BY <2>2, <2>3
<1>8. SpansIn(page, r, k, title) = [i \in 1..n |-> Span(i)]
  BY <1>1, <1>3, <1>4, <1>5 DEF SpansIn
<1> HIDE DEF From
<1>9. ASSUME NEW i \in 1..n PROVE Span(i) \in Spans /\ SpanOf(Span(i), k, m)
  BY <1>6, <1>7 DEF Spans, SpanOf
<1> HIDE DEF Span
<1>10. PICK all : all = [i \in 1..n |-> Span(i)]
  OBVIOUS
<1>11. all \in [1..n -> Spans]
  BY <1>9, <1>10
<1>12. all \in Seq(Spans) /\ DOMAIN all = 1..n /\ \A i \in 1..n : all[i] = Span(i)
  BY <1>10, <1>11
<1> QED BY <1>2, <1>8, <1>9, <1>10, <1>12

\* A span of a dossier
SpanIn(s, ranges) == s.passage \in DOMAIN ranges /\ SpanOf(s, s.passage, Length(ranges[s.passage]))
\* The passages of spans follow one another.
InTurn(all) == \A i, j \in DOMAIN all : i < j => all[i].passage <= all[j].passage
\* Spans of the first n ranges, each in its own and in their order
SpansUpTo(all, ranges, n) == all \in Seq(Spans) /\ InTurn(all) /\ \A i \in DOMAIN all : all[i].passage <= n /\ SpanIn(all[i], ranges)

\* The spans of a dossier lie in its passages, and follow them.
LEMMA SpansAre ==
  ASSUME TextAssumption, NEW L, NEW page \in Seq(L), NEW ranges \in Seq(Ranges), \A k \in DOMAIN ranges : InPage(ranges[k], Len(page)), NEW title
  PROVE  SpansUpTo(SpansOf(page, ranges, title), ranges, Len(ranges))
<1> DEFINE n == Len(ranges)
           S == Seq(Spans)
           More(i, f) == IF i = 0 THEN <<>> ELSE f[i - 1] \o SpansIn(page, ranges[i], i, title)
           next == [i \in 0..n |-> [f \in [0..n -> S] |-> More(i, f)]]
           Is(g) == g = [i \in 0..n |-> More(i, g)]
<1>1. n \in Nat /\ DOMAIN ranges = 1..n /\ (\A i \in 1..n : ranges[i] \in Ranges /\ i \in Nat) /\ \A i \in 0..n : i # 0 => i \in 1..n /\ i - 1 \in 0..n
  OBVIOUS
<1>2. <<>> \in S
  OBVIOUS
<1> DEFINE spansIn(i) == SpansIn(page, ranges[i], i, title)
<1>3. ASSUME NEW i \in 1..n PROVE spansIn(i) \in Seq(Spans) /\ \A j \in DOMAIN spansIn(i) : SpanOf(spansIn(i)[j], i, Length(ranges[i]))
  BY <1>1, SpansInAre
<1> HIDE DEF n, spansIn
<1>4. next \in [0..n -> [[0..n -> S] -> S]] /\ \A i \in 0..n : \A f \in [0..n -> S] : next[i][f] = More(i, f)
  <2>1. ASSUME NEW i \in 0..n, NEW f \in [0..n -> S] PROVE More(i, f) \in S
    <3>1. CASE i = 0
      BY <1>2, <3>1
    <3>2. CASE i # 0
      <4>1. f[i - 1] \in Seq(Spans) /\ spansIn(i) \in Seq(Spans)
        BY <1>1, <1>3, <3>2
      <4>2. More(i, f) = f[i - 1] \o spansIn(i)
        BY <3>2 DEF spansIn
      <4>3. \A s, t \in Seq(Spans) : s \o t \in Seq(Spans)
        OBVIOUS
      <4> HIDE DEF More
      <4> QED BY <4>1, <4>2, <4>3
    <3> QED BY <3>1, <3>2
  <2> HIDE DEF More, S
  <2> QED BY <2>1
<1> HIDE DEF next
<1>5. LooksBack(n, S, next)
  <2> SUFFICES ASSUME NEW i \in 0..n, NEW f \in [0..n -> S], NEW g \in [0..n -> S], \A j \in 0..(i - 1) : f[j] = g[j]
               PROVE  next[i][f] = next[i][g]
    BY DEF LooksBack
  <2>1. i # 0 => i - 1 \in 0..(i - 1)
    BY <1>1
  <2>2. More(i, f) = More(i, g)
    BY <2>1
  <2> HIDE DEF More, S
  <2> QED BY <1>4, <2>2
<1>6. PICK f : IsRecursive(n, S, next, f)
  <2> HIDE DEF S
  <2> QED BY <1>1, <1>2, <1>4, <1>5, RecursionExists
<1>7. Is(f)
  <2>1. f \in [0..n -> S] /\ \A i \in 0..n : f[i] = More(i, f)
    BY <1>4, <1>6 DEF IsRecursive
  <2> HIDE DEF More, S
  <2> QED BY <2>1
<1> DEFINE all == CHOOSE g : Is(g)
<1>8. Is(all)
  <2> HIDE DEF Is
  <2> QED BY <1>7
<1>9. SpansOf(page, ranges, title) = all[n]
  BY DEF SpansOf, n
<1> HIDE DEF all
<1>10. \A i \in 0..n : all[i] = More(i, all)
  BY <1>8
<1> DEFINE good == {i \in 0..n : SpansUpTo(all[i], ranges, i)}
<1>11. 0 \in good
  <2>1. all[0] = <<>>
    BY <1>1, <1>10
  <2>2. SpansUpTo(<<>>, ranges, 0)
    BY DEF SpansUpTo, InTurn
  <2> QED BY <1>1, <2>1, <2>2
<1>12. ASSUME NEW i \in 0..(n - 1), i \in good PROVE i + 1 \in good
  <2>1. i + 1 \in 1..n /\ (i + 1) - 1 = i /\ i + 1 \in 0..n /\ i + 1 # 0 /\ i \in Nat
    BY <1>1
  <2>2. PICK before : before = all[i] /\ SpansUpTo(before, ranges, i)
    BY <1>12
  <2>3. PICK new : new = spansIn(i + 1) /\ new \in Seq(Spans) /\ \A j \in DOMAIN new : SpanOf(new[j], i + 1, Length(ranges[i + 1]))
    BY <1>3, <2>1
  <2>4. all[i + 1] = before \o new
    <3>1. all[i + 1] = More(i + 1, all)
      BY <1>10, <2>1
    <3>2. More(i + 1, all) = all[i] \o spansIn(i + 1)
      BY <2>1 DEF spansIn
    <3> QED BY <2>2, <2>3, <3>1, <3>2
  <2>5. PICK p \in Nat, q \in Nat : p = Len(before) /\ q = Len(new) /\ DOMAIN before = 1..p /\ DOMAIN new = 1..q
    BY <2>2, <2>3 DEF SpansUpTo
  <2>6. PICK joined : joined = before \o new /\ joined \in Seq(Spans) /\ DOMAIN joined = 1..(p + q)
                      /\ \A j \in 1..(p + q) : joined[j] = IF j <= p THEN before[j] ELSE new[j - p]
    <3>1. before \in Seq(Spans)
      BY <2>2 DEF SpansUpTo
    <3>2. before \o new \in Seq(Spans) /\ DOMAIN (before \o new) = 1..(p + q) /\ \A j \in 1..(p + q) : (before \o new)[j] = IF j <= p THEN before[j] ELSE new[j - p]
      BY <2>3, <2>5, <3>1
    <3> QED BY <3>2, Zenon
  <2>7. \A j \in 1..(p + q) : (j \in 1..p /\ joined[j] = before[j]) \/ (j > p /\ j - p \in 1..q /\ joined[j] = new[j - p])
    BY <2>5, <2>6
  <2>8. \A j \in 1..p : before[j].passage \in Nat /\ before[j].passage <= i /\ SpanIn(before[j], ranges)
    BY <2>2, <2>5 DEF SpansUpTo, SpanIn, SpanOf, Spans
  <2>9. \A j \in 1..q : new[j].passage = i + 1 /\ SpanIn(new[j], ranges)
    BY <1>1, <2>1, <2>3, <2>5 DEF SpanIn, SpanOf
  <2>10. ASSUME NEW j \in 1..(p + q) PROVE joined[j].passage <= i + 1 /\ SpanIn(joined[j], ranges)
    <3>1. CASE j \in 1..p /\ joined[j] = before[j]
      BY <2>1, <2>8, <3>1
    <3>2. CASE j - p \in 1..q /\ joined[j] = new[j - p]
      BY <2>1, <2>9, <3>2
    <3> QED BY <2>7, <3>1, <3>2
  <2>11. ASSUME NEW j \in 1..(p + q), NEW k \in 1..(p + q), j < k PROVE joined[j].passage <= joined[k].passage
    <3>1. CASE k \in 1..p /\ joined[k] = before[k]
      <4>1. j \in 1..p /\ joined[j] = before[j]
        BY <2>5, <2>7, <2>11, <3>1
      <4> QED BY <2>2, <2>5, <2>11, <3>1, <4>1 DEF SpansUpTo, InTurn
    <3>2. CASE k - p \in 1..q /\ joined[k] = new[k - p]
      <4>1. joined[k].passage = i + 1
        BY <2>9, <3>2
      <4> QED BY <2>10, <4>1
    <3> QED BY <2>7, <3>1, <3>2
  <2>12. SpansUpTo(joined, ranges, i + 1)
    BY <2>6, <2>10, <2>11 DEF SpansUpTo, InTurn
  <2> QED BY <2>1, <2>4, <2>6, <2>12
<1>13. good = 0..n
  <2>1. good \in SUBSET (0..n)
    OBVIOUS
  <2> HIDE DEF good
  <2> QED BY <1>1, <1>11, <1>12, <2>1, UpFromZero
<1>14. n \in good
  BY <1>1, <1>13
<1> QED BY <1>9, <1>14 DEF n

-----------------------------------------------------------------------------
\* The groups of spans

\* f counts through the m numbers of T in order.
Counts(f, m, T) ==
  /\ f \in [1..m -> T]
  /\ \A j, k \in 1..m : j < k => f[j] < f[k]
  /\ \A x \in T : \E k \in 1..m : f[k] = x

\* Two ways to count through the same numbers begin alike.
LEMMA ListsBegin ==
  ASSUME NEW m \in Nat, NEW n \in Nat, NEW T \in SUBSET Nat, NEW f, NEW g, Counts(f, m, T), Counts(g, n, T)
  PROVE  \A k \in 1..m : k \in 1..n /\ f[k] = g[k]
<1> DEFINE good == {k \in 0..m : k = 0 \/ (k \in 1..n /\ f[k] = g[k])}
<1>1. ASSUME NEW k \in 0..m, \A j \in 0..(k - 1) : j \in good PROVE k \in good
  <2>1. CASE k = 0
    BY <2>1
  <2>2. CASE k # 0
    <3>1. k \in 1..m /\ k \in Nat
      BY <2>2
    <3>2. \A j \in 1..(k - 1) : j \in 1..m /\ j \in 1..n /\ f[j] = g[j] /\ j < k
      <4>1. \A j \in 1..(k - 1) : j \in 0..(k - 1) /\ j # 0 /\ j \in 1..m /\ j < k
        BY <3>1
      <4> QED BY <1>1, <4>1
    <3>3. PICK j \in 1..n : g[j] = f[k]
      BY <3>1 DEF Counts
    <3>4. f[k] \in Nat /\ \A i \in 1..(k - 1) : f[i] < f[k] /\ f[i] \in Nat
      BY <3>1, <3>2 DEF Counts
    <3>5. j >= k
      <4> SUFFICES ASSUME j < k PROVE FALSE
        BY <3>1
      <4>1. j \in 1..(k - 1)
        BY <3>1
      <4> QED BY <3>2, <3>3, <3>4, <4>1
    <3>6. k \in 1..n
      BY <3>1, <3>5
    <3>7. PICK i \in 1..m : f[i] = g[k]
      BY <3>6 DEF Counts
    <3>8. g[k] \in Nat /\ \A x \in 1..(k - 1) : g[x] < g[k] /\ g[x] \in Nat
      BY <3>2, <3>6 DEF Counts
    <3>9. i >= k
      <4> SUFFICES ASSUME i < k PROVE FALSE
        BY <3>1
      <4>1. i \in 1..(k - 1)
        BY <3>1
      <4> QED BY <3>2, <3>7, <3>8, <4>1
    <3>10. f[i] >= f[k]
      <4>1. i = k \/ i > k
        BY <3>1, <3>9
      <4>2. i > k => f[i] > f[k]
        BY <3>1 DEF Counts
      <4> QED BY <3>4, <3>7, <3>8, <4>1, <4>2
    <3>11. g[j] >= g[k]
      <4>1. j = k \/ j > k
        BY <3>1, <3>5
      <4>2. j > k => g[j] > g[k]
        BY <3>6 DEF Counts
      <4> QED BY <3>3, <3>4, <3>8, <4>1, <4>2
    <3>12. f[k] = g[k]
      BY <3>3, <3>4, <3>7, <3>8, <3>10, <3>11
    <3> QED BY <3>6, <3>12
  <2> QED BY <2>1, <2>2
<1>2. good = 0..m
  <2>1. good \in SUBSET (0..m)
    OBVIOUS
  <2> HIDE DEF good
  <2> QED BY <1>1, <2>1, UpFromBelow
<1> QED BY <1>2

\* There is one list of a set in order.
LEMMA ListsAgree ==
  ASSUME NEW m \in Nat, NEW n \in Nat, NEW T \in SUBSET Nat, NEW f, NEW g, Counts(f, m, T), Counts(g, n, T)
  PROVE  m = n /\ f = g
<1>1. (\A k \in 1..m : k \in 1..n /\ f[k] = g[k]) /\ \A k \in 1..n : k \in 1..m
  BY ListsBegin
<1>2. m = n
  <2>1. m # 0 => m \in 1..m
    OBVIOUS
  <2>2. n # 0 => n \in 1..n
    OBVIOUS
  <2> QED BY <1>1, <2>1, <2>2
<1> QED BY <1>1, <1>2 DEF Counts

\* Only is known by the list of the places it keeps.
LEMMA OnlyListed ==
  ASSUME NEW S, NEW s \in Seq(S), NEW T \in SUBSET (1..Len(s)), NEW m \in Nat, NEW f, Counts(f, m, T)
  PROVE  Only(s, T) = [k \in 1..m |-> s[f[k]]]
<1>1. PICK r : r = Only(s, T) /\ r \in Seq(S) /\ \E places : PicksOut(places, r, s, T, Len(s))
  <2>1. Only(s, T) \in Seq(S) /\ \E places : PicksOut(places, Only(s, T), s, T, Len(s))
    BY OnlyIs
  <2> QED BY <2>1, Zenon
<1>2. PICK places : PicksOut(places, r, s, T, Len(s))
  BY <1>1
<1>3. (1..Len(s)) \cap T = T
  OBVIOUS
<1>4. PICK n \in Nat : n = Len(r) /\ r = [k \in 1..n |-> r[k]]
  BY <1>1
<1>5. Counts(places, n, T)
  BY <1>2, <1>3, <1>4 DEF PicksOut, Counts
<1>6. m = n /\ f = places
  <2>1. T \in SUBSET Nat
    OBVIOUS
  <2> QED BY <1>5, <2>1, ListsAgree
<1>7. \A k \in 1..n : r[k] = s[places[k]]
  BY <1>2, <1>4 DEF PicksOut
<1> QED BY <1>1, <1>4, <1>6, <1>7

\* Where the spans of each passage begin
Firsts(all) == {i \in DOMAIN all : \A j \in 1..(i - 1) : all[j].passage # all[i].passage}
\* Where the spans of the g-th passage end, in n spans of m passages
LastOf(starts, m, n, g) == IF g = m THEN n ELSE starts[g + 1] - 1

\* The places at which a passage has its first span can be counted through.
LEMMA StartsExist ==
  ASSUME NEW all \in Seq(Spans)
  PROVE  \E m \in Nat : \E starts : Counts(starts, m, Firsts(all))
<1>1. PICK r : r \in Seq(Spans) /\ \E places : PicksOut(places, r, all, Firsts(all), Len(all))
  <2>1. Only(all, Firsts(all)) \in Seq(Spans) /\ \E places : PicksOut(places, Only(all, Firsts(all)), all, Firsts(all), Len(all))
    BY OnlyIs
  <2> QED BY <2>1, Zenon
<1>2. PICK places : PicksOut(places, r, all, Firsts(all), Len(all))
  BY <1>1
<1>3. (1..Len(all)) \cap Firsts(all) = Firsts(all)
  BY DEF Firsts
<1>4. Len(r) \in Nat
  BY <1>1
<1>5. Counts(places, Len(r), Firsts(all))
  BY <1>2, <1>3 DEF PicksOut, Counts
<1> QED BY <1>4, <1>5

\* The spans of a passage stand together.
LEMMA RunIs ==
  ASSUME NEW all \in Seq(Spans), InTurn(all), NEW m \in Nat, NEW starts, Counts(starts, m, Firsts(all)), NEW g \in 1..m
  PROVE  /\ starts[g] \in 1..Len(all) /\ LastOf(starts, m, Len(all), g) \in starts[g]..Len(all)
         /\ {i \in DOMAIN all : all[i].passage = all[starts[g]].passage} = starts[g]..LastOf(starts, m, Len(all), g)
<1>1. PICK n \in Nat : n = Len(all) /\ DOMAIN all = 1..n
  OBVIOUS
<1>2. \A i \in 1..n : all[i].passage \in Nat
  <2>1. \A i \in 1..n : all[i] \in Spans
    BY <1>1
  <2> QED BY <2>1 DEF Spans
<1>3. \A h \in 1..m : starts[h] \in 1..n /\ starts[h] \in Firsts(all)
  BY <1>1 DEF Counts, Firsts
<1>4. PICK last : last = LastOf(starts, m, n, g)
  OBVIOUS
<1>5. last \in starts[g]..n
  <2>1. CASE g = m
    BY <1>3, <1>4, <2>1 DEF LastOf
  <2>2. CASE g # m
    <3>1. g + 1 \in 1..m /\ g < g + 1
      BY <2>2
    <3>2. starts[g] < starts[g + 1] /\ starts[g + 1] \in 1..n /\ starts[g] \in 1..n
      BY <1>3, <3>1 DEF Counts
    <3>3. last = starts[g + 1] - 1
      BY <1>4, <2>2 DEF LastOf
    <3> QED BY <3>2, <3>3
  <2> QED BY <2>1, <2>2
<1>6. PICK a \in 1..n : a = starts[g] /\ a \in Firsts(all)
  BY <1>3
<1>7. ASSUME NEW i \in 1..n, all[i].passage = all[a].passage PROVE i \in a..last
  <2>1. i >= a
    <3> SUFFICES ASSUME i < a PROVE FALSE
      OBVIOUS
    <3>1. i \in 1..(a - 1)
      OBVIOUS
    <3> QED BY <1>6, <1>7, <3>1 DEF Firsts
  <2>2. i <= last
    <3> SUFFICES ASSUME i > last PROVE FALSE
      BY <1>5, <1>6
    <3>1. g # m
      BY <1>1, <1>4 DEF LastOf
    <3>2. PICK b \in 1..n : b = starts[g + 1] /\ b \in Firsts(all) /\ a < b /\ last = b - 1
      <4>1. g + 1 \in 1..m /\ g < g + 1
        BY <3>1
      <4>2. starts[g] < starts[g + 1]
        BY <4>1 DEF Counts
      <4> QED BY <1>3, <1>4, <1>6, <3>1, <4>1, <4>2 DEF LastOf
    <3>3. b <= i
      BY <3>2
    <3>4. all[a].passage <= all[b].passage /\ all[b].passage <= all[i].passage
      <4>1. all[a].passage <= all[b].passage
        BY <1>1, <3>2 DEF InTurn
      <4>2. b = i \/ b < i
        BY <3>3
      <4>3. b < i => all[b].passage <= all[i].passage
        BY <1>1 DEF InTurn
      <4> QED BY <1>2, <4>1, <4>2, <4>3
    <3>5. all[a].passage = all[b].passage
      BY <1>2, <1>7, <3>4
    <3>6. a \in 1..(b - 1)
      BY <3>2
    <3> QED BY <3>2, <3>5, <3>6 DEF Firsts
  <2> QED BY <2>1, <2>2, <1>5, <1>6
<1>8. ASSUME NEW i \in a..last PROVE i \in 1..n /\ all[i].passage = all[a].passage
  <2>1. i \in 1..n
    BY <1>5, <1>6
  <2>2. PICK same : same = {j \in 1..n : all[j].passage = all[i].passage}
    OBVIOUS
  <2>3. same \in SUBSET Nat /\ i \in same
    BY <2>1, <2>2
  <2>4. PICK f \in same : \A j \in same : f <= j
    BY <2>3, LeastElement
  <2>5. f \in 1..n /\ all[f].passage = all[i].passage /\ f <= i
    BY <2>2, <2>3, <2>4
  <2>6. f \in Firsts(all)
    <3> SUFFICES ASSUME NEW j \in 1..(f - 1), all[j].passage = all[f].passage PROVE FALSE
      BY <1>1, <2>5 DEF Firsts
    <3>1. j \in same
      BY <2>2, <2>5
    <3> QED BY <2>4, <2>5, <3>1
  <2>7. PICK h \in 1..m : starts[h] = f
    BY <2>6 DEF Counts
  <2>8. h <= g
    <3> SUFFICES ASSUME h > g PROVE FALSE
      OBVIOUS
    <3>1. g + 1 \in 1..m /\ g # m
      OBVIOUS
    <3>2. starts[g + 1] <= starts[h]
      <4>1. h = g + 1 \/ g + 1 < h
        OBVIOUS
      <4>2. g + 1 < h => starts[g + 1] < starts[h]
        BY <3>1 DEF Counts
      <4> QED BY <1>3, <3>1, <4>1, <4>2
    <3>3. last = starts[g + 1] - 1 /\ starts[g + 1] \in 1..n
      BY <1>3, <1>4, <3>1 DEF LastOf
    <3> QED BY <2>1, <2>5, <2>7, <3>2, <3>3
  <2>9. h = g
    <3> SUFFICES ASSUME h < g PROVE FALSE
      BY <2>8
    <3>1. f < a
      BY <1>6, <2>7 DEF Counts
    <3>2. all[f].passage <= all[a].passage
      BY <1>1, <1>6, <2>5, <3>1 DEF InTurn
    <3>3. all[a].passage <= all[i].passage
      <4>1. a = i \/ a < i
        BY <1>6
      <4>2. a < i => all[a].passage <= all[i].passage
        BY <1>1, <1>6, <2>1 DEF InTurn
      <4> QED BY <1>2, <1>6, <4>1, <4>2
    <3>4. all[f].passage = all[a].passage
      BY <1>2, <1>6, <2>1, <2>5, <3>2, <3>3
    <3>5. f \in 1..(a - 1)
      BY <1>6, <2>5, <3>1
    <3> QED BY <1>6, <3>4, <3>5 DEF Firsts
  <2>10. f = a
    BY <1>6, <2>7, <2>9
  <2> QED BY <2>1, <2>5, <2>10
<1>9. {i \in DOMAIN all : all[i].passage = all[a].passage} = a..last
  BY <1>1, <1>7, <1>8
<1> QED BY <1>1, <1>3, <1>4, <1>5, <1>6, <1>9

\* The sizes of the spans from one place to another
RunSizes(all, a, b) == [i \in 1..(b - a + 1) |-> Unit * (all[a + i - 1].to - all[a + i - 1].from + 1)]
\* What Groups gives, by the places the passages' spans start at
GroupsOf(all, starts, m) == [g \in 1..m |-> RunSizes(all, starts[g], LastOf(starts, m, Len(all), g))]

\* The spans of one passage, in order
LEMMA OnlyRun ==
  ASSUME NEW all \in Seq(Spans), NEW a \in 1..Len(all), NEW b \in a..Len(all)
  PROVE  Only(all, a..b) = [i \in 1..(b - a + 1) |-> all[a + i - 1]]
<1>1. PICK T : T = a..b /\ T \in SUBSET (1..Len(all))
  <2>1. a..b \in SUBSET (1..Len(all))
    OBVIOUS
  <2> QED BY <2>1, Zenon
<1>2. PICK m \in Nat : m = b - a + 1
  <2>1. b - a + 1 \in Nat
    OBVIOUS
  <2> QED BY <2>1, Zenon
<1>3. PICK f : f = [i \in 1..m |-> a + i - 1]
  OBVIOUS
<1>4. Counts(f, m, T)
  <2>1. \A i \in 1..m : f[i] = a + i - 1 /\ f[i] \in T
    BY <1>1, <1>2, <1>3
  <2>2. f \in [1..m -> T]
    BY <1>3, <2>1
  <2>3. \A j, k \in 1..m : j < k => f[j] < f[k]
    BY <2>1
  <2>4. ASSUME NEW x \in T PROVE \E k \in 1..m : f[k] = x
    <3>1. x - a + 1 \in 1..m /\ a + (x - a + 1) - 1 = x
      BY <1>1, <1>2
    <3> QED BY <2>1, <3>1
  <2> QED BY <2>2, <2>3, <2>4 DEF Counts
<1>5. Only(all, T) = [k \in 1..m |-> all[f[k]]]
  BY <1>1, <1>4, OnlyListed
<1>6. \A k \in 1..m : f[k] = a + k - 1
  BY <1>3
<1>7. [k \in 1..m |-> all[f[k]]] = [i \in 1..m |-> all[a + i - 1]]
  BY <1>6
<1> QED BY <1>1, <1>2, <1>5, <1>7

\* There is a group for each passage, with the sizes of its spans.
LEMMA GroupsAre ==
  ASSUME NEW all \in Seq(Spans), InTurn(all), NEW m \in Nat, NEW starts, Counts(starts, m, Firsts(all))
  PROVE  Groups(all) = GroupsOf(all, starts, m)
<1>1. PICK n \in Nat : n = Len(all) /\ DOMAIN all = 1..n
  OBVIOUS
<1>2. PICK ps : ps = [i \in DOMAIN all |-> all[i].passage]
  OBVIOUS
<1>3. ps \in Seq(Nat) /\ Len(ps) = n /\ DOMAIN ps = 1..n /\ \A i \in 1..n : ps[i] = all[i].passage
  <2>1. \A i \in 1..n : all[i].passage \in Nat
    <3>1. \A i \in 1..n : all[i] \in Spans
      BY <1>1
    <3> QED BY <3>1 DEF Spans
  <2>2. ps \in [1..n -> Nat]
    BY <1>1, <1>2, <2>1
  <2> QED BY <1>1, <1>2, <2>2
<1>4. PICK T : T = {i \in DOMAIN ps : \A j \in 1..(i - 1) : ps[j] # ps[i]}
  OBVIOUS
<1>5. T = Firsts(all) /\ T \in SUBSET (1..Len(ps))
  <2>1. \A i \in 1..n : \A j \in 1..(i - 1) : j \in 1..n
    OBVIOUS
  <2>2. T = Firsts(all)
    BY <1>1, <1>3, <1>4, <2>1 DEF Firsts
  <2> QED BY <1>3, <1>4, <2>2
<1>6. PICK passages : passages = [g \in 1..m |-> ps[starts[g]]]
  OBVIOUS
<1>7. Only(ps, T) = passages
  BY <1>3, <1>5, <1>6, OnlyListed
<1>8. FirstOf([i \in DOMAIN all |-> all[i].passage], LAMBDA k : k) = passages
  BY <1>2, <1>4, <1>7 DEF FirstOf
<1> DEFINE Of(k) == Only(all, {i \in DOMAIN all : all[i].passage = k})
           last(g) == LastOf(starts, m, n, g)
<1>9. ASSUME NEW g \in 1..m PROVE Of(passages[g]) = [i \in 1..(last(g) - starts[g] + 1) |-> all[starts[g] + i - 1]]
  <2>1. PICK a, b : a = starts[g] /\ b = last(g) /\ a \in 1..n /\ b \in a..n /\ {i \in DOMAIN all : all[i].passage = all[a].passage} = a..b
    <3>1. /\ starts[g] \in 1..n /\ last(g) \in starts[g]..n
          /\ {i \in DOMAIN all : all[i].passage = all[starts[g]].passage} = starts[g]..last(g)
      BY <1>1, RunIs
    <3> QED BY <3>1, Zenon
  <2>2. passages[g] = all[a].passage
    BY <1>3, <1>6, <2>1
  <2>3. Of(passages[g]) = Only(all, a..b)
    BY <2>1, <2>2
  <2>4. Only(all, a..b) = [i \in 1..(b - a + 1) |-> all[a + i - 1]]
    <3>1. a \in 1..Len(all) /\ b \in a..Len(all)
      BY <1>1, <2>1
    <3> QED BY <3>1, OnlyRun
  <2> QED BY <2>1, <2>3, <2>4
<1>10. Groups(all) = [g \in DOMAIN passages |-> [i \in DOMAIN Of(passages[g]) |-> Unit * (Of(passages[g])[i].to - Of(passages[g])[i].from + 1)]]
  BY <1>8 DEF Groups
<1>11. DOMAIN passages = 1..m
  BY <1>6
<1> HIDE DEF Of, last
<1>12. ASSUME NEW g \in 1..m
       PROVE  [i \in DOMAIN Of(passages[g]) |-> Unit * (Of(passages[g])[i].to - Of(passages[g])[i].from + 1)] = RunSizes(all, starts[g], last(g))
  <2>1. PICK o : o = Of(passages[g]) /\ o = [i \in 1..(last(g) - starts[g] + 1) |-> all[starts[g] + i - 1]]
    BY <1>9
  <2>2. DOMAIN o = 1..(last(g) - starts[g] + 1) /\ \A i \in 1..(last(g) - starts[g] + 1) : o[i] = all[starts[g] + i - 1]
    BY <2>1
  <2>3. [i \in DOMAIN o |-> Unit * (o[i].to - o[i].from + 1)] = RunSizes(all, starts[g], last(g))
    BY <2>2 DEF RunSizes
  <2> QED BY <2>1, <2>3
<1>13. Groups(all) = [g \in 1..m |-> RunSizes(all, starts[g], last(g))]
  BY <1>10, <1>11, <1>12
<1> QED BY <1>1, <1>13 DEF GroupsOf, last

\* There are as many sizes as spans, and they are numbers.
LEMMA RunSizesAre ==
  ASSUME PathAssumption, NEW ranges, NEW all \in Seq(Spans), \A i \in DOMAIN all : SpanIn(all[i], ranges), NEW a \in 1..Len(all), NEW b \in a..Len(all)
  PROVE  RunSizes(all, a, b) \in Seq(Nat) /\ Len(RunSizes(all, a, b)) = b - a + 1
<1>1. Unit \in Nat
  BY DEF PathAssumption
<1>2. ASSUME NEW i \in 1..(b - a + 1) PROVE Unit * (all[a + i - 1].to - all[a + i - 1].from + 1) \in Nat
  <2>1. PICK j : j = a + i - 1 /\ j \in DOMAIN all
    OBVIOUS
  <2>2. all[j].to \in Nat /\ all[j].from \in Nat /\ all[j].from <= all[j].to
    BY <2>1 DEF SpanIn, SpanOf, Spans
  <2>3. PICK x \in Nat : x = all[j].to - all[j].from + 1
    BY <2>2
  <2>4. Unit * x \in Nat
    BY <1>1
  <2> QED BY <2>1, <2>3, <2>4
<1>3. PICK m \in Nat : m = b - a + 1
  <2>1. b - a + 1 \in Nat
    OBVIOUS
  <2> QED BY <2>1, Zenon
<1>4. RunSizes(all, a, b) \in [1..m -> Nat]
  BY <1>2, <1>3 DEF RunSizes
<1> QED BY <1>3, <1>4

\* The first v spans, which end in the w-th passage, have its first w groups, the last of them cut.
LEMMA GroupsOfFirst ==
  ASSUME NEW all \in Seq(Spans), InTurn(all), NEW m \in Nat, NEW starts, Counts(starts, m, Firsts(all)),
         NEW w \in 1..m, NEW v \in 1..Len(all), starts[w] <= v, v <= LastOf(starts, m, Len(all), w)
  PROVE  Groups(SubSeq(all, 1, v)) = [g \in 1..w |-> RunSizes(all, starts[g], IF g = w THEN v ELSE LastOf(starts, m, Len(all), g))]
<1>1. PICK n \in Nat : n = Len(all) /\ DOMAIN all = 1..n
  OBVIOUS
<1>2. PICK some : some = SubSeq(all, 1, v) /\ some \in Seq(Spans) /\ Len(some) = v /\ DOMAIN some = 1..v /\ \A i \in 1..v : some[i] = all[i]
  <2>1. SubSeq(all, 1, v) \in Seq(Spans) /\ Len(SubSeq(all, 1, v)) = v /\ \A i \in 1..v : SubSeq(all, 1, v)[i] = all[i]
    <3>1. \A i \in 1..v : all[i] \in Spans
      BY <1>1
    <3>2. SubSeq(all, 1, v) = [i \in 1..v |-> all[i]]
      BY <1>1
    <3> QED BY <3>1, <3>2
  <2>2. DOMAIN SubSeq(all, 1, v) = 1..v
    BY <2>1
  <2> QED BY <2>1, <2>2, Zenon
<1>3. \A i \in 1..v : i \in 1..n
  BY <1>1
<1>4. InTurn(some)
  BY <1>1, <1>2, <1>3 DEF InTurn
<1>5. ASSUME NEW i \in 1..v PROVE i \in Firsts(some) <=> i \in Firsts(all)
  <2>1. \A j \in 1..(i - 1) : j \in 1..v
    OBVIOUS
  <2> QED BY <1>1, <1>2, <1>3, <2>1 DEF Firsts
<1>6. PICK f : f = [g \in 1..w |-> starts[g]]
  OBVIOUS
<1>7. \A g \in 1..w : g \in 1..m /\ f[g] = starts[g]
  BY <1>6
<1>8. \A g \in 1..m : starts[g] \in 1..n /\ starts[g] \in Firsts(all)
  BY <1>1 DEF Counts, Firsts
<1>9. ASSUME NEW g \in 1..w PROVE starts[g] \in 1..v
  <2>1. starts[g] <= starts[w]
    <3>1. g = w \/ g < w
      OBVIOUS
    <3>2. g < w => starts[g] < starts[w]
      BY <1>7 DEF Counts
    <3> QED BY <1>7, <1>8, <3>1, <3>2
  <2>2. starts[g] \in 1..n /\ starts[w] \in 1..n
    BY <1>7, <1>8
  <2> QED BY <2>1, <2>2
<1>10. Counts(f, w, Firsts(some))
  <2>1. f \in [1..w -> Firsts(some)]
    <3>1. \A g \in 1..w : starts[g] \in Firsts(some)
      BY <1>5, <1>7, <1>8, <1>9
    <3> QED BY <1>6, <3>1
  <2>2. \A j, k \in 1..w : j < k => f[j] < f[k]
    BY <1>7 DEF Counts
  <2>3. ASSUME NEW x \in Firsts(some) PROVE \E k \in 1..w : f[k] = x
    <3>1. x \in 1..v
      BY <1>2 DEF Firsts
    <3>2. x \in Firsts(all)
      BY <1>5, <3>1
    <3>3. PICK k \in 1..m : starts[k] = x
      BY <3>2 DEF Counts
    <3>4. k <= w
      <4> SUFFICES ASSUME k > w PROVE FALSE
        OBVIOUS
      <4>1. w # m /\ w + 1 \in 1..m
        OBVIOUS
      <4>2. v < starts[w + 1]
        BY <1>1, <1>8, <4>1 DEF LastOf
      <4>3. starts[w + 1] <= starts[k]
        <5>1. k = w + 1 \/ w + 1 < k
          OBVIOUS
        <5>2. w + 1 < k => starts[w + 1] < starts[k]
          BY <4>1 DEF Counts
        <5> QED BY <1>8, <4>1, <5>1, <5>2
      <4> QED BY <1>8, <3>1, <3>3, <4>1, <4>2, <4>3
    <3>5. k \in 1..w
      BY <3>4
    <3> QED BY <1>7, <3>3, <3>5
  <2> QED BY <2>1, <2>2, <2>3 DEF Counts
<1>11. Groups(some) = GroupsOf(some, f, w)
  <2>1. w \in Nat
    OBVIOUS
  <2> QED BY <1>2, <1>4, <1>10, <2>1, GroupsAre
<1>12. ASSUME NEW g \in 1..w
       PROVE  RunSizes(some, f[g], LastOf(f, w, v, g)) = RunSizes(all, starts[g], IF g = w THEN v ELSE LastOf(starts, m, n, g))
  <2>1. LastOf(f, w, v, g) = IF g = w THEN v ELSE LastOf(starts, m, n, g)
    <3>1. CASE g = w
      BY <3>1 DEF LastOf
    <3>2. CASE g # w
      <4>1. g + 1 \in 1..w /\ g # m
        BY <3>2
      <4> QED BY <1>7, <3>2, <4>1 DEF LastOf
    <3> QED BY <3>1, <3>2
  <2>2. PICK a, b : a = starts[g] /\ b = LastOf(f, w, v, g) /\ a = f[g]
    BY <1>7
  <2>3. a \in 1..v /\ b \in a..v
    <3>0. a \in 1..v
      BY <1>9, <2>2
    <3>1. CASE g = w
      <4>1. b = v
        BY <2>2, <3>1 DEF LastOf
      <4> QED BY <3>0, <4>1
    <3>2. CASE g # w
      <4>1. g + 1 \in 1..w /\ g < g + 1
        BY <3>2
      <4>2. f[g] < f[g + 1] /\ f[g + 1] \in 1..v
        BY <1>7, <1>9, <1>10, <4>1 DEF Counts
      <4>3. b = f[g + 1] - 1
        BY <2>2, <3>2 DEF LastOf
      <4>4. PICK c : c = f[g + 1] /\ c \in 1..v /\ a < c /\ b = c - 1
        BY <2>2, <4>2, <4>3
      <4> QED BY <3>0, <4>4
    <3> QED BY <3>1, <3>2
  <2>4. \A i \in 1..(b - a + 1) : some[a + i - 1] = all[a + i - 1]
    <3>1. \A i \in 1..(b - a + 1) : a + i - 1 \in 1..v
      BY <2>3
    <3> QED BY <1>2, <3>1
  <2>5. RunSizes(some, a, b) = RunSizes(all, a, b)
    BY <2>4 DEF RunSizes
  <2> QED BY <2>1, <2>2, <2>5
<1>13. GroupsOf(some, f, w) = [g \in 1..w |-> RunSizes(some, f[g], LastOf(f, w, v, g))]
  BY <1>2 DEF GroupsOf
<1> QED BY <1>1, <1>2, <1>11, <1>12, <1>13

\* Each passage begins where the one before it ends, the first one at the beginning.
LEMMA StartsAre ==
  ASSUME NEW all \in Seq(Spans), NEW m \in Nat, NEW starts, Counts(starts, m, Firsts(all))
  PROVE  /\ m = 0 <=> Len(all) = 0
         /\ m # 0 => starts[1] = 1
<1>1. PICK n \in Nat : n = Len(all) /\ DOMAIN all = 1..n
  OBVIOUS
<1>2. \A g \in 1..m : starts[g] \in 1..n
  BY <1>1 DEF Counts, Firsts
<1>3. n # 0 => 1 \in Firsts(all)
  BY <1>1 DEF Firsts
<1>4. n # 0 => \E g \in 1..m : starts[g] = 1
  BY <1>3 DEF Counts
<1>5. ASSUME m # 0 PROVE starts[1] = 1
  <2>1. 1 \in 1..m /\ starts[1] \in 1..n
    BY <1>2, <1>5
  <2>2. n # 0
    BY <2>1
  <2>3. PICK g \in 1..m : starts[g] = 1
    BY <1>4, <2>2
  <2>4. g = 1 \/ 1 < g
    OBVIOUS
  <2>5. 1 < g => starts[1] < starts[g]
    BY <2>1 DEF Counts
  <2> QED BY <2>1, <2>3, <2>4, <2>5
<1>6. m = 0 => n = 0
  BY <1>4
<1>7. n = 0 => m = 0
  <2>1. m # 0 => starts[1] \in 1..n
    BY <1>2
  <2> QED BY <2>1
<1> QED BY <1>1, <1>5, <1>6, <1>7

\* What the model is shown of the spans has room.
HasRoom(all, v, budget) == LET packed == Groups(SubSeq(all, 1, v)) IN Cost(packed, Len(packed)) <= budget

\* Whole passages have as many spans as there are up to the last of them.
LEMMA WholePassages ==
  ASSUME NEW all \in Seq(Spans), InTurn(all), NEW m \in Nat, NEW starts, Counts(starts, m, Firsts(all)), NEW w \in 1..m,
         NEW lens \in Seq(Nat), Len(lens) = w, \A g \in 1..w : lens[g] = LastOf(starts, m, Len(all), g) - starts[g] + 1
  PROVE  Total(lens) = LastOf(starts, m, Len(all), w)
<1> DEFINE last(g) == LastOf(starts, m, Len(all), g)
<1>1. \A g \in 1..w : starts[g] \in Nat /\ last(g) \in Nat
  <2>1. \A g \in 1..w : g \in 1..m
    OBVIOUS
  <2>2. \A g \in 1..m : starts[g] \in 1..Len(all) /\ last(g) \in starts[g]..Len(all)
    BY RunIs
  <2> HIDE DEF last
  <2> QED BY <2>1, <2>2
<1>2. starts[1] = 1
  BY StartsAre
<1>3. \A g \in 1..w : g # 1 => last(g - 1) = starts[g] - 1
  <2> SUFFICES ASSUME NEW g \in 1..w, g # 1 PROVE last(g - 1) = starts[g] - 1
    OBVIOUS
  <2>1. g - 1 # m /\ (g - 1) + 1 = g
    OBVIOUS
  <2> QED BY <2>1 DEF LastOf
<1> HIDE DEF last
<1>4. PICK sums : sums = [i \in 0..w |-> IF i = 0 THEN 0 ELSE last(i)]
  OBVIOUS
<1>5. sums[0] = 0 /\ \A i \in 1..w : sums[i] = last(i)
  BY <1>4
<1>6. ASSUME NEW i \in 1..w PROVE sums[i] = sums[i - 1] + lens[i]
  <2>1. lens[i] = last(i) - starts[i] + 1
    BY DEF last
  <2>2. CASE i = 1
    BY <1>1, <1>2, <1>5, <2>1, <2>2
  <2>3. CASE i # 1
    <3>1. i - 1 \in 1..w
      BY <2>3
    <3>2. sums[i - 1] = starts[i] - 1
      BY <1>3, <1>5, <2>3, <3>1
    <3> QED BY <1>1, <1>5, <2>1, <3>2
  <2> QED BY <2>2, <2>3
<1>7. SumsOf(sums, lens)
  BY <1>5, <1>6 DEF SumsOf
<1>8. Total(lens) = sums[w]
  BY <1>7, TotalIs
<1>9. w \in 1..w
  OBVIOUS
<1> QED BY <1>5, <1>8, <1>9 DEF last

\* pack_evidence_window never shows more than there is room for.
LEMMA WindowFits ==
  ASSUME TextAssumption, PathAssumption, NEW ranges, NEW all \in Seq(Spans), InTurn(all), \A i \in DOMAIN all : SpanIn(all[i], ranges),
         NEW budget \in Int
  PROVE  /\ PackWindow(Groups(all), budget) \in 0..Len(all)
         /\ PackWindow(Groups(all), budget) > 0 => HasRoom(all, PackWindow(Groups(all), budget), budget)
<1>1. PICK n \in Nat : n = Len(all) /\ DOMAIN all = 1..n
  OBVIOUS
<1>2. PICK m \in Nat : \E starts : Counts(starts, m, Firsts(all))
  BY StartsExist
<1>3. PICK starts : Counts(starts, m, Firsts(all))
  BY <1>2
<1> DEFINE last(g) == LastOf(starts, m, n, g)
<1>4. \A g \in 1..m : starts[g] \in 1..n /\ last(g) \in starts[g]..n
  BY <1>1, <1>3, RunIs
<1>5. PICK gs : gs = Groups(all) /\ gs = [g \in 1..m |-> RunSizes(all, starts[g], last(g))]
  <2>1. Groups(all) = [g \in 1..m |-> RunSizes(all, starts[g], last(g))]
    BY <1>1, <1>3, GroupsAre DEF GroupsOf
  <2> QED BY <2>1, Zenon
<1>6. ASSUME NEW g \in 1..m PROVE gs[g] = RunSizes(all, starts[g], last(g)) /\ gs[g] \in Seq(Nat) /\ Len(gs[g]) = last(g) - starts[g] + 1
  <2>1. PICK a, b : a = starts[g] /\ b = last(g)
    OBVIOUS
  <2>2. a \in 1..Len(all) /\ b \in a..Len(all)
    BY <1>1, <1>4, <2>1
  <2>3. RunSizes(all, a, b) \in Seq(Nat) /\ Len(RunSizes(all, a, b)) = b - a + 1
    BY <2>2, RunSizesAre
  <2>4. gs[g] = RunSizes(all, a, b)
    BY <1>5, <2>1
  <2> QED BY <2>1, <2>3, <2>4
<1> HIDE DEF last
<1>7. gs \in Seq(Seq(Nat)) /\ Len(gs) = m
  <2>1. gs \in [1..m -> Seq(Nat)]
    BY <1>5, <1>6
  <2> QED BY <2>1
<1>8. PICK wholes : wholes = {k \in 0..Len(gs) : k = 0 \/ Cost(gs, k) <= budget}
  OBVIOUS
<1>9. PICK whole : whole = Max(wholes) /\ whole \in wholes
  <2>1. wholes \in SUBSET (0..m) /\ wholes # {}
    <3>1. wholes \in SUBSET (0..m) /\ 0 \in 0..m
      BY <1>7, <1>8
    <3>2. 0 \in wholes
      BY <1>7, <1>8, <3>1
    <3> QED BY <3>1, <3>2
  <2> QED BY <2>1, MaxIs
<1>10. whole \in 0..m /\ (whole = 0 \/ Cost(gs, whole) <= budget)
  BY <1>7, <1>8, <1>9
<1> DEFINE Leading == {k \in 0..Len(gs[1]) : k = 0 \/ Header + Total(SubSeq(gs[1], 1, k)) <= budget}
<1>11. PICK v : v = PackWindow(gs, budget) /\ v = IF whole = 0 /\ gs # <<>> THEN Max(Leading) ELSE Total([i \in 1..whole |-> Len(gs[i])])
  BY <1>8, <1>9 DEF PackWindow
<1>a. (m = 0 <=> n = 0) /\ (m # 0 => starts[1] = 1)
  BY <1>1, <1>3, StartsAre
<1>12. CASE m = 0
  <2>1. whole = 0 /\ gs = <<>>
    BY <1>7, <1>10, <1>12
  <2>2. [i \in 1..whole |-> Len(gs[i])] = <<>>
    BY <2>1
  <2>3. v = 0
    BY <1>11, <2>1, <2>2, TotalOfNone
  <2> QED BY <1>1, <1>5, <1>11, <2>3
<1>13. CASE whole # 0
  <2>1. whole \in 1..m
    BY <1>10, <1>13
  <2>2. PICK lens : lens = [i \in 1..whole |-> Len(gs[i])]
    OBVIOUS
  <2>3. lens \in Seq(Nat) /\ Len(lens) = whole /\ \A g \in 1..whole : lens[g] = last(g) - starts[g] + 1
    <3>1. \A i \in 1..whole : i \in 1..m
      BY <2>1
    <3>2. \A i \in 1..whole : Len(gs[i]) \in Nat
      BY <1>6, <3>1
    <3>3. lens \in [1..whole -> Nat]
      BY <2>2, <3>2
    <3> QED BY <1>6, <2>1, <2>2, <3>1, <3>3
  <2>4. v = last(whole)
    <3>1. Total(lens) = last(whole)
      BY <1>1, <1>3, <2>1, <2>3, WholePassages DEF last
    <3> QED BY <1>11, <1>13, <2>2, <3>1
  <2>5. v \in 1..n /\ starts[whole] <= v
    BY <1>4, <2>1, <2>4
  <2>6. Groups(SubSeq(all, 1, v)) = [g \in 1..whole |-> RunSizes(all, starts[g], IF g = whole THEN v ELSE last(g))]
    <3>1. v \in 1..Len(all) /\ v <= LastOf(starts, m, Len(all), whole)
      BY <1>1, <2>4, <2>5 DEF last
    <3> QED BY <1>1, <1>3, <2>1, <2>5, <3>1, GroupsOfFirst DEF last
  <2>7. PICK packed : packed = Groups(SubSeq(all, 1, v))
    OBVIOUS
  <2>8. \A g \in 1..whole : packed[g] = gs[g]
    <3>1. \A g \in 1..whole : g \in 1..m
      BY <2>1
    <3> QED BY <1>6, <2>4, <2>6, <2>7, <3>1
  <2>9. Len(packed) = whole
    <3>1. whole \in Nat /\ \A g \in 1..whole : gs[g] \in Seq(Nat)
      BY <1>6, <2>1
    <3>2. packed = [g \in 1..whole |-> gs[g]]
      BY <2>6, <2>7, <2>8
    <3>3. packed \in [1..whole -> Seq(Nat)]
      BY <3>1, <3>2
    <3> QED BY <3>1, <3>3
  <2>10. Cost(packed, whole) = Cost(gs, whole)
    <3>1. [i \in 1..whole |-> Header + Total(packed[i])] = [i \in 1..whole |-> Header + Total(gs[i])]
      BY <2>8
    <3> QED BY <3>1 DEF Cost
  <2>11. HasRoom(all, v, budget)
    BY <1>10, <1>13, <2>7, <2>9, <2>10 DEF HasRoom
  <2> QED BY <1>1, <1>5, <1>11, <2>5, <2>11
<1>14. CASE whole = 0 /\ m # 0
  <2>0. 1 \in 1..m
    BY <1>14
  <2>1. gs # <<>>
    BY <1>7, <1>14
  <2>2. PICK l \in Nat : l = Len(gs[1]) /\ l = last(1) /\ gs[1] \in Seq(Nat) /\ gs[1] = RunSizes(all, 1, l) /\ l \in 1..n
    <3>1. last(1) \in 1..n /\ starts[1] = 1
      BY <1>4, <1>14, <1>a, <2>0
    <3> QED BY <1>6, <2>0, <3>1
  <2>3. v \in Leading
    <3>1. Leading \in SUBSET (0..l) /\ Leading # {}
      BY <2>2
    <3>2. Max(Leading) \in Leading
      <4> HIDE DEF Leading
      <4> QED BY <3>1, MaxIs
    <3> QED BY <1>11, <1>14, <2>1, <3>2
  <2>4. v \in 0..l /\ (v = 0 \/ Header + Total(SubSeq(gs[1], 1, v)) <= budget)
    BY <2>2, <2>3
  <2>5. v \in 0..n
    BY <2>2, <2>4
  <2>6. ASSUME v > 0 PROVE HasRoom(all, v, budget)
    <3>1. v \in 1..Len(all) /\ starts[1] <= v /\ v <= LastOf(starts, m, Len(all), 1)
      BY <1>1, <1>14, <1>a, <2>2, <2>4, <2>5, <2>6 DEF last
    <3>2. Groups(SubSeq(all, 1, v)) = [g \in 1..1 |-> RunSizes(all, starts[g], IF g = 1 THEN v ELSE LastOf(starts, m, Len(all), g))]
      <4>1. PICK w : w = 1
        OBVIOUS
      <4>2. w \in 1..m /\ starts[w] <= v /\ v <= LastOf(starts, m, Len(all), w)
        BY <2>0, <3>1, <4>1
      <4>3. Groups(SubSeq(all, 1, v)) = [g \in 1..w |-> RunSizes(all, starts[g], IF g = w THEN v ELSE LastOf(starts, m, Len(all), g))]
        BY <1>3, <3>1, <4>2, GroupsOfFirst
      <4> QED BY <4>1, <4>3
    <3>3. PICK run : run = RunSizes(all, 1, v)
      OBVIOUS
    <3>4. PICK packed : packed = Groups(SubSeq(all, 1, v)) /\ packed = [g \in 1..1 |-> run]
      <4>1. \A g \in 1..1 : g = 1
        OBVIOUS
      <4>2. [g \in 1..1 |-> RunSizes(all, starts[g], IF g = 1 THEN v ELSE LastOf(starts, m, Len(all), g))] = [g \in 1..1 |-> run]
        BY <1>14, <1>a, <3>3, <4>1
      <4> QED BY <3>2, <4>2
    <3>5. run = SubSeq(gs[1], 1, v)
      <4>1. PICK first \in Seq(Nat) : first = gs[1] /\ Len(first) = l
        BY <2>2
      <4>2. SubSeq(first, 1, v) = [i \in 1..v |-> first[i]]
        BY <2>4, <4>1
      <4>3. v - 1 + 1 = v /\ l - 1 + 1 = l /\ \A i \in 1..v : i \in 1..l
        BY <2>2, <2>4
      <4>4. first = [i \in 1..l |-> Unit * (all[1 + i - 1].to - all[1 + i - 1].from + 1)]
        BY <2>2, <4>1, <4>3 DEF RunSizes
      <4>5. run = [i \in 1..v |-> Unit * (all[1 + i - 1].to - all[1 + i - 1].from + 1)]
        BY <3>3, <4>3 DEF RunSizes
      <4>6. \A i \in 1..v : first[i] = Unit * (all[1 + i - 1].to - all[1 + i - 1].from + 1)
        BY <4>3, <4>4
      <4> QED BY <4>1, <4>2, <4>5, <4>6
    <3>6. run \in Seq(Nat)
      <4>1. 1 \in 1..Len(all) /\ v \in 1..Len(all)
        BY <1>1, <2>5, <2>6
      <4> QED BY <3>3, <4>1, RunSizesAre
    <3>7. Len(packed) = 1 /\ packed[1] = run
      <4>1. packed \in [1..1 -> Seq(Nat)]
        BY <3>4, <3>6
      <4> QED BY <3>4, <4>1
    <3>8. PICK x \in Nat : x = Header + Total(run)
      <4>1. Header \in Nat /\ Total(run) \in Nat
        BY <3>6, TotalIsNumber DEF TextAssumption
      <4> QED BY <4>1
    <3>9. Cost(packed, 1) = x
      <4>1. \A i \in 1..1 : packed[i] = run
        BY <3>4
      <4>2. [i \in 1..1 |-> Header + Total(packed[i])] = [i \in 1..1 |-> x]
        BY <3>8, <4>1
      <4>3. PICK one : one = Append(<<>>, x) /\ one = [i \in 1..1 |-> x]
        <5>1. Append(<<>>, x) = [i \in 1..1 |-> x]
          OBVIOUS
        <5> QED BY <5>1, Zenon
      <4>4. <<>> \in Seq(Nat)
        OBVIOUS
      <4>5. Total(one) = Total(<<>>) + x
        BY <4>3, <4>4, TotalOfMore
      <4> QED BY <4>2, <4>3, <4>5, TotalOfNone DEF Cost
    <3>10. x <= budget
      BY <2>4, <2>6, <3>5, <3>8
    <3> QED BY <3>4, <3>7, <3>9, <3>10 DEF HasRoom
  <2> QED BY <1>1, <1>5, <1>11, <2>5, <2>6
<1> QED BY <1>12, <1>13, <1>14

-----------------------------------------------------------------------------
\* Verified evidence

Items == [id : Nat, quote : Seq(Letters), start : Nat]

\* What an item quotes stands in the page where it says, at a place that was shown.
LastChar(e) == e.start + Len(e.quote) - 1
CitedAt(e) == <<e.start, LastChar(e)>>
Quotes(e, page, seen) == SubSeq(page, e.start, LastChar(e)) = e.quote /\ <<e.start, LastChar(e)>> \in seen

\* The place of a span in the page
PlaceOf(s, ranges) == <<ranges[s.passage][1] + s.from - 1, ranges[s.passage][1] + s.to - 1>>

\* Items made of different spans
Apart(items, all, v, ranges) ==
  \A m, n \in DOMAIN items : m # n =>
    \E j, k \in 1..v : j # k /\ PlaceOf(all[j], ranges) = CitedAt(items[m]) /\ PlaceOf(all[k], ranges) = CitedAt(items[n])

\* The item made of a span that was shown quotes the page at the span's place.
LEMMA ItemIs ==
  ASSUME NEW page \in Seq(Letters), NEW ranges \in Seq(Ranges), \A k \in DOMAIN ranges : InPage(ranges[k], Len(page)),
         NEW s, SpanIn(s, ranges), NEW seen, PlaceOf(s, ranges) \in seen, NEW n \in Nat
  PROVE  /\ ItemOf(page, ranges, s, n) \in Items /\ Quotes(ItemOf(page, ranges, s, n), page, seen)
         /\ ItemOf(page, ranges, s, n).id = n /\ CitedAt(ItemOf(page, ranges, s, n)) = PlaceOf(s, ranges)
<1>1. PICK size \in Nat : size = Len(page)
  OBVIOUS
<1>2. PICK k : k = s.passage /\ k \in DOMAIN ranges /\ SpanOf(s, k, Length(ranges[k]))
  BY DEF SpanIn
<1>3. PICK a \in Nat, b \in Nat : a = ranges[k][1] /\ b = ranges[k][2] /\ 1 <= a /\ a <= b /\ b <= size
  BY <1>1, <1>2 DEF InPage, Ranges
<1>4. PICK f \in Nat, t \in Nat : f = s.from /\ t = s.to /\ 1 <= f /\ f <= t /\ t <= b - a + 1
  BY <1>2, <1>3 DEF SpanOf, Spans, Length
<1>p. PICK c, e : c = a + f - 1 /\ e = a + t - 1
  OBVIOUS
<1>5. /\ a \in 1..size /\ b \in a..size /\ f \in 1..(b - a + 1) /\ t \in f..(b - a + 1)
      /\ c \in Nat /\ e \in Nat /\ c \in 1..size /\ e \in c..size /\ e - c + 1 = t - f + 1
  <2>1. a \in Nat /\ b \in Nat /\ 1 <= a /\ a <= b /\ b <= size
    BY <1>3
  <2>2. f \in Nat /\ t \in Nat /\ 1 <= f /\ f <= t /\ t <= b - a + 1
    BY <1>4
  <2>3. c = a + f - 1
    BY <1>p
  <2>4. e = a + t - 1
    BY <1>p
  <2>5. a \in 1..size /\ b \in a..size /\ f \in 1..(b - a + 1) /\ t \in f..(b - a + 1)
    BY <1>1, <2>1, <2>2
  <2>6. c \in Nat /\ e \in Nat /\ 1 <= c /\ c <= e /\ e <= size /\ e - c + 1 = t - f + 1
    BY <1>1, <2>1, <2>2, <2>3, <2>4
  <2>7. c \in 1..size /\ e \in c..size
    BY <1>1, <2>6
  <2> QED BY <2>5, <2>6, <2>7
<1>6. PICK quote : quote = SubSeq(page, c, e) /\ quote \in Seq(Letters) /\ Len(quote) = e - c + 1
  <2>1. SubSeq(page, c, e) \in Seq(Letters) /\ Len(SubSeq(page, c, e)) = e - c + 1
    BY <1>1, <1>5, PartIs
  <2> QED BY <2>1, Zenon
<1>7. QuoteOf(page, ranges, s) = quote
  <2>1. a \in 1..Len(page) /\ b \in a..Len(page) /\ f \in 1..(b - a + 1) /\ t \in f..(b - a + 1)
    BY <1>1, <1>5
  <2>2. SubSeq(SubSeq(page, a, b), f, t) = SubSeq(page, a + f - 1, a + t - 1)
    BY <2>1, PartOfPart
  <2>3. QuoteOf(page, ranges, s) = SubSeq(SubSeq(page, a, b), f, t)
    BY <1>2, <1>3, <1>4 DEF QuoteOf
  <2> QED BY <1>p, <1>6, <2>2, <2>3
<1>8. ItemOf(page, ranges, s, n) = [id |-> n, quote |-> quote, start |-> c]
  BY <1>2, <1>3, <1>4, <1>p, <1>5, <1>7 DEF ItemOf
<1>9. PICK item : item = [id |-> n, quote |-> quote, start |-> c]
  OBVIOUS
<1>10. item \in Items /\ item.start = c /\ item.quote = quote
  BY <1>5, <1>6, <1>9 DEF Items
<1>11. LastChar(item) = e
  BY <1>5, <1>6, <1>10 DEF LastChar
<1>12. PlaceOf(s, ranges) = <<c, e>>
  BY <1>2, <1>3, <1>4, <1>p DEF PlaceOf
<1>13. Quotes(item, page, seen)
  BY <1>6, <1>10, <1>11, <1>12 DEF Quotes
<1>14. item.id = n /\ CitedAt(item) = PlaceOf(s, ranges)
  BY <1>9, <1>10, <1>11, <1>12 DEF CitedAt
<1> QED BY <1>8, <1>9, <1>10, <1>13, <1>14

\* Items with their numbers
Numbered(items) == items \in Seq(Items) /\ \A n \in DOMAIN items : items[n].id = n

\* No place is cited twice.
Single(items) == \A m, n \in DOMAIN items : CitedAt(items[m]) = CitedAt(items[n]) => m = n

\* What verifies is a quote of a span the model was shown, and of another span each, when no span
\* is chosen twice.
LEMMA VerifyIs ==
  ASSUME NEW page \in Seq(Letters), NEW ranges \in Seq(Ranges), \A k \in DOMAIN ranges : InPage(ranges[k], Len(page)),
         NEW all \in Seq(Spans), \A i \in DOMAIN all : SpanIn(all[i], ranges), NEW v \in 0..Len(all), NEW chosen \in Seq(Nat),
         IsInjective(chosen), NEW seen, \A k \in 1..v : PlaceOf(all[k], ranges) \in seen
  PROVE  /\ Numbered(Verify(page, ranges, all, v, chosen)) /\ Apart(Verify(page, ranges, all, v, chosen), all, v, ranges)
         /\ \A n \in DOMAIN Verify(page, ranges, all, v, chosen) : Quotes(Verify(page, ranges, all, v, chosen)[n], page, seen)
<1> DEFINE Good(k) == /\ k \in 1..v
                      /\ LET quote == QuoteOf(page, ranges, all[k])
                             passage == SubSeq(page, ranges[all[k].passage][1], ranges[all[k].passage][2])
                         IN WordsIn(quote, 1, Len(quote)) >= MinQuote /\ IndexFirstSubSeq(quote, passage) = all[k].from
           T == {i \in DOMAIN chosen : Good(chosen[i])}
<1>1. PICK good : good = Only(chosen, T) /\ KeptFrom(good, Nat, chosen, T)
  <2>1. KeptFrom(Only(chosen, T), Nat, chosen, T)
    <3> HIDE DEF T
    <3> QED BY OnlyItems
  <2> HIDE DEF T
  <2> QED BY <2>1, Zenon
<1>2. PICK n \in Nat : DOMAIN good = 1..n /\ Len(good) = n
  <2> HIDE DEF T
  <2>1. good \in Seq(Nat)
    BY <1>1 DEF KeptFrom
  <2> QED BY <2>1
<1>3. Verify(page, ranges, all, v, chosen) = [k \in 1..n |-> ItemOf(page, ranges, all[good[k]], k)]
  BY <1>1, <1>2 DEF Verify
<1>4. ASSUME NEW k \in 1..n PROVE good[k] \in 1..v
  <2>1. PICK i \in (1..Len(chosen)) \cap T : good[k] = chosen[i]
    BY <1>1, <1>2 DEF KeptFrom
  <2>2. Good(chosen[i])
    BY <2>1
  <2> QED BY <2>1, <2>2
<1> HIDE DEF T
<1>5. ASSUME NEW k \in 1..n
      PROVE  LET item == ItemOf(page, ranges, all[good[k]], k)
             IN item \in Items /\ Quotes(item, page, seen) /\ item.id = k /\ CitedAt(item) = PlaceOf(all[good[k]], ranges)
  <2>1. PICK g : g = good[k] /\ g \in 1..v /\ g \in DOMAIN all
    BY <1>4
  <2>2. PICK s : s = all[g] /\ SpanIn(s, ranges) /\ PlaceOf(s, ranges) \in seen
    BY <2>1
  <2>3. k \in Nat
    OBVIOUS
  <2>4. /\ ItemOf(page, ranges, s, k) \in Items /\ Quotes(ItemOf(page, ranges, s, k), page, seen)
        /\ ItemOf(page, ranges, s, k).id = k /\ CitedAt(ItemOf(page, ranges, s, k)) = PlaceOf(s, ranges)
    BY <2>2, <2>3, ItemIs
  <2> QED BY <2>1, <2>2, <2>4
<1>6. PICK items : items = [k \in 1..n |-> ItemOf(page, ranges, all[good[k]], k)]
  OBVIOUS
<1>7. \A k \in 1..n : /\ items[k] \in Items /\ Quotes(items[k], page, seen)
                      /\ items[k].id = k /\ CitedAt(items[k]) = PlaceOf(all[good[k]], ranges)
  BY <1>5, <1>6
<1>8. items \in Seq(Items) /\ DOMAIN items = 1..n
  <2>1. items \in [1..n -> Items]
    BY <1>6, <1>7
  <2> QED BY <2>1
<1>9. \A j, k \in 1..n : good[j] = good[k] => j = k
  <2>1. IsInjective(good)
    BY <1>1 DEF KeptFrom
  <2> QED BY <1>2, <2>1 DEF IsInjective
<1>10. ASSUME NEW j \in 1..n, NEW k \in 1..n, j # k
       PROVE  \E x, y \in 1..v : x # y /\ PlaceOf(all[x], ranges) = CitedAt(items[j]) /\ PlaceOf(all[y], ranges) = CitedAt(items[k])
  <2>1. good[j] \in 1..v /\ good[k] \in 1..v /\ good[j] # good[k]
    BY <1>4, <1>9, <1>10
  <2> QED BY <1>7, <2>1
<1>11. Numbered(items) /\ Apart(items, all, v, ranges)
  <2>1. Numbered(items)
    BY <1>7, <1>8 DEF Numbered
  <2>2. Apart(items, all, v, ranges)
    BY <1>8, <1>10 DEF Apart
  <2> QED BY <2>1, <2>2
<1> QED BY <1>3, <1>6, <1>7, <1>8, <1>11

\* What is left of items without repetition is numbered in order, quotes what it quoted, and no
\* place twice.
LEMMA DedupeIs ==
  ASSUME NEW page, NEW seen, NEW items \in Seq(Items), \A n \in DOMAIN items : Quotes(items[n], page, seen)
  PROVE  /\ Numbered(DedupeVerified(items)) /\ Single(DedupeVerified(items))
         /\ \A n \in DOMAIN DedupeVerified(items) : Quotes(DedupeVerified(items)[n], page, seen)
<1> DEFINE T == {i \in DOMAIN items : \A j \in 1..(i - 1) : <<items[j].start, Len(items[j].quote)>> # <<items[i].start, Len(items[i].quote)>>}
<1>1. PICK kept : kept = Only(items, T) /\ kept \in Seq(Items) /\ \E places : PicksOut(places, kept, items, T, Len(items))
  <2>1. Only(items, T) \in Seq(Items) /\ \E places : PicksOut(places, Only(items, T), items, T, Len(items))
    <3> HIDE DEF T
    <3> QED BY OnlyIs
  <2> HIDE DEF T
  <2> QED BY <2>1, Zenon
<1>2. PICK places : PicksOut(places, kept, items, T, Len(items))
  BY <1>1
<1>3. PICK n \in Nat : n = Len(kept) /\ DOMAIN kept = 1..n
  <2>1. kept \in Seq(Items)
    BY <1>1
  <2> HIDE DEF T
  <2> QED BY <2>1
<1>4. DedupeVerified(items) = [k \in 1..n |-> [kept[k] EXCEPT !.id = k]]
  BY <1>1, <1>3 DEF DedupeVerified, FirstOf
<1>5. \A k \in 1..n : kept[k] = items[places[k]] /\ places[k] \in DOMAIN items /\ places[k] \in T
  BY <1>2, <1>3 DEF PicksOut
<1>6. ASSUME NEW j \in 1..n, NEW k \in 1..n, kept[j].start = kept[k].start, Len(kept[j].quote) = Len(kept[k].quote), j < k PROVE FALSE
  <2>1. places[j] < places[k]
    BY <1>2, <1>3, <1>6 DEF PicksOut
  <2>2. PICK x, y : x = places[j] /\ y = places[k] /\ x \in DOMAIN items /\ y \in T /\ y \in DOMAIN items /\ x < y
    BY <1>5, <2>1
  <2>3. x \in 1..(y - 1)
    BY <2>2
  <2>4. items[x].start = items[y].start /\ Len(items[x].quote) = Len(items[y].quote)
    BY <1>5, <1>6, <2>2
  <2> QED BY <2>2, <2>3, <2>4
<1> HIDE DEF T
<1>7. PICK all : all = [k \in 1..n |-> [kept[k] EXCEPT !.id = k]]
  OBVIOUS
<1>8. ASSUME NEW k \in 1..n PROVE all[k] \in Items /\ all[k].id = k /\ all[k].start = kept[k].start /\ all[k].quote = kept[k].quote
  <2>1. kept[k] \in Items
    BY <1>1, <1>3
  <2>2. k \in Nat
    OBVIOUS
  <2> QED BY <1>7, <2>1, <2>2 DEF Items
<1>9. all \in Seq(Items) /\ DOMAIN all = 1..n
  <2>1. all \in [1..n -> Items]
    BY <1>7, <1>8
  <2> QED BY <2>1
<1>10. ASSUME NEW j \in 1..n, NEW k \in 1..n, CitedAt(all[j]) = CitedAt(all[k]) PROVE j = k
  <2>a. all[j].start = all[k].start /\ Len(all[j].quote) = Len(all[k].quote)
    <3>1. PICK a \in Nat, b \in Nat : a = Len(all[j].quote) /\ b = Len(all[k].quote)
      BY <1>8 DEF Items
    <3>2. all[j].start \in Nat /\ all[k].start \in Nat
      BY <1>8 DEF Items
    <3>3. all[j].start = all[k].start /\ all[j].start + a - 1 = all[k].start + b - 1
      BY <1>10, <3>1 DEF CitedAt, LastChar
    <3>4. PICK c \in Nat : c = all[j].start /\ c = all[k].start
      BY <3>2, <3>3
    <3>5. c + a - 1 = c + b - 1
      BY <3>3, <3>4
    <3>6. a = b
      BY <3>5
    <3> QED BY <3>1, <3>4, <3>6
  <2>1. kept[j].start = kept[k].start /\ Len(kept[j].quote) = Len(kept[k].quote)
    BY <1>8, <2>a
  <2>2. ~(j < k) /\ ~(k < j)
    BY <1>6, <2>1
  <2> QED BY <2>2
<1>11. Numbered(all) /\ Single(all)
  <2>1. Numbered(all)
    BY <1>8, <1>9 DEF Numbered
  <2>2. Single(all)
    BY <1>9, <1>10 DEF Single
  <2> QED BY <2>1, <2>2
<1>12. ASSUME NEW k \in 1..n PROVE Quotes(all[k], page, seen)
  <2>1. Quotes(kept[k], page, seen)
    BY <1>5
  <2> QED BY <1>8, <2>1 DEF Quotes, LastChar
<1> QED BY <1>4, <1>7, <1>9, <1>11, <1>12

\* _synthesize keeps items from the first on, and one at least.
LEMMA FittedIs ==
  ASSUME NEW items, Numbered(items), items # <<>>, NEW bytes, NEW system, NEW fixed, NEW predict, NEW tokens
  PROVE  LET fitted == Fitted(items, bytes, system, fixed, predict, tokens) IN
         Numbered(fitted) /\ fitted # <<>> /\ \A n \in DOMAIN fitted : n \in DOMAIN items /\ fitted[n] = items[n]
<1>1. PICK n \in Nat : n = Len(items) /\ DOMAIN items = 1..n /\ n # 0 /\ items \in Seq(Items)
  BY DEF Numbered
<1>2. PICK k : k \in 1..n /\ Fitted(items, bytes, system, fixed, predict, tokens) = SubSeq(items, 1, k)
  <2> DEFINE fits == {j \in 1..Len(items) : RequestTokens(<<system, fixed + Total([i \in 1..j |-> bytes[i]])>>, predict) <= tokens}
  <2>1. Fitted(items, bytes, system, fixed, predict, tokens) = SubSeq(items, 1, IF fits = {} THEN 1 ELSE Max(fits))
    BY DEF Fitted
  <2>2. fits \in SUBSET (1..n)
    BY <1>1
  <2> HIDE DEF fits
  <2>3. CASE fits = {}
    BY <1>1, <2>1, <2>3
  <2>4. CASE fits # {}
    <3>1. fits \in SUBSET (0..n)
      BY <2>2
    <3>2. Max(fits) \in fits
      BY <1>1, <2>4, <3>1, MaxIs
    <3> QED BY <2>1, <2>2, <2>4, <3>2
  <2> QED BY <2>3, <2>4
<1>3. PICK fitted : fitted = SubSeq(items, 1, k)
  OBVIOUS
<1>4. fitted \in Seq(Items) /\ DOMAIN fitted = 1..k /\ \A i \in 1..k : fitted[i] = items[i] /\ i \in DOMAIN items
  <2>1. fitted = [i \in 1..k |-> items[i]]
    BY <1>1, <1>2, <1>3
  <2>2. \A i \in 1..k : items[i] \in Items /\ i \in DOMAIN items
    BY <1>1, <1>2
  <2> QED BY <1>2, <2>1, <2>2
<1>5. fitted # <<>>
  BY <1>2, <1>4
<1>6. Numbered(fitted)
  BY <1>4 DEF Numbered
<1> QED BY <1>2, <1>3, <1>4, <1>5, <1>6

-----------------------------------------------------------------------------
\* Citations

Marks == [kind : {"E", "number", "word", "omitted"}, n : Nat]

\* The answer cites items there are, at least one, and where the reply names an item, that one.
Resolved(marks, said, items) ==
  /\ Cites(said) \subseteq DOMAIN items /\ Cites(said) # {}
  /\ \A i \in DOMAIN marks : marks[i].kind = "E" /\ marks[i].n \in DOMAIN items => said[i].n = marks[i].n

\* A resolved answer cites items there are, by the numbers they have.
LEMMA ResolveIs ==
  ASSUME NEW items, Numbered(items), items # <<>>, NEW marks \in Seq(Marks)
  PROVE  Resolved(marks, ResolveCitations(marks, items), items)
<1>1. PICK n \in Nat : DOMAIN items = 1..n /\ n # 0
  <2>1. items \in Seq(Items)
    BY DEF Numbered
  <2>2. Len(items) \in Nat /\ DOMAIN items = 1..Len(items) /\ Len(items) # 0
    BY <2>1
  <2> QED BY <2>2, Zenon
<1>2. \A i \in 1..n : items[i].id = i
  BY <1>1 DEF Numbered
<1>3. PICK l \in Nat : DOMAIN marks = 1..l /\ Len(marks) = l
  OBVIOUS
<1>4. \A i \in 1..l : marks[i] \in Marks
  BY <1>3
<1>5. {items[i].id : i \in DOMAIN items} = 1..n
  BY <1>1, <1>2
<1>6. ASSUME NEW k \in 1..n PROVE (CHOOSE i \in DOMAIN items : items[i].id = k) = k
  BY <1>1, <1>2
<1> DEFINE Resolve(mark) ==
             IF mark.kind = "E" /\ mark.n \in {items[i].id : i \in DOMAIN items}
               THEN Mark("number", CHOOSE i \in DOMAIN items : items[i].id = mark.n)
             ELSE IF mark.kind = "word" \/ (mark.kind = "number" /\ mark.n \in DOMAIN items) THEN mark
             ELSE Mark("omitted", 0)
<1>7. PICK clean : clean = [i \in 1..l |-> Resolve(marks[i])]
  OBVIOUS
<1>8. ResolveCitations(marks, items) = IF Cites(clean) # {} THEN clean ELSE clean \o [i \in DOMAIN items |-> Mark("number", i)]
  BY <1>3, <1>7 DEF ResolveCitations
<1>9. ASSUME NEW mark \in Marks
      PROVE  /\ Resolve(mark) \in Marks
             /\ Resolve(mark).kind = "number" => Resolve(mark).n \in 1..n
             /\ mark.kind = "E" /\ mark.n \in 1..n => Resolve(mark).n = mark.n /\ Resolve(mark).kind = "number"
  <2>1. CASE mark.kind = "E" /\ mark.n \in 1..n
    <3>1. Resolve(mark) = Mark("number", mark.n)
      BY <1>5, <1>6, <2>1
    <3> QED BY <2>1, <3>1 DEF Mark, Marks
  <2>2. CASE ~(mark.kind = "E" /\ mark.n \in 1..n) /\ (mark.kind = "word" \/ (mark.kind = "number" /\ mark.n \in 1..n))
    <3>1. Resolve(mark) = mark
      BY <1>1, <1>5, <2>2
    <3> QED BY <2>2, <3>1
  <2>3. CASE ~(mark.kind = "E" /\ mark.n \in 1..n) /\ ~(mark.kind = "word" \/ (mark.kind = "number" /\ mark.n \in 1..n))
    <3>1. Resolve(mark) = Mark("omitted", 0)
      BY <1>1, <1>5, <2>3
    <3> QED BY <2>3, <3>1 DEF Mark, Marks
  <2> QED BY <2>1, <2>2, <2>3
<1> HIDE DEF Resolve
<1>10. clean \in Seq(Marks) /\ DOMAIN clean = 1..l /\ Len(clean) = l /\ \A i \in 1..l : clean[i] = Resolve(marks[i])
  <2>1. clean \in [1..l -> Marks]
    BY <1>4, <1>7, <1>9
  <2> QED BY <1>7, <2>1
<1>11. \A i \in 1..l : clean[i].kind = "number" => clean[i].n \in 1..n
  BY <1>4, <1>9, <1>10
<1>12. \A i \in 1..l : marks[i].kind = "E" /\ marks[i].n \in 1..n => clean[i].n = marks[i].n
  BY <1>4, <1>9, <1>10
<1>13. CASE Cites(clean) # {}
  <2>1. Cites(clean) \subseteq 1..n
    BY <1>10, <1>11 DEF Cites
  <2> QED BY <1>1, <1>3, <1>8, <1>12, <1>13, <2>1 DEF Resolved
<1>14. CASE Cites(clean) = {}
  <2>1. PICK listing : listing = [i \in DOMAIN items |-> Mark("number", i)]
    OBVIOUS
  <2>2. \A i \in 1..n : listing[i] = Mark("number", i) /\ listing[i] \in Marks /\ listing[i].kind = "number" /\ listing[i].n = i
    BY <1>1, <2>1 DEF Mark, Marks
  <2>3. listing \in Seq(Marks) /\ Len(listing) = n
    <3>1. listing \in [1..n -> Marks]
      BY <1>1, <2>1, <2>2
    <3> QED BY <3>1
  <2>4. PICK said : said = clean \o listing /\ DOMAIN said = 1..(l + n) /\ \A i \in 1..(l + n) : said[i] = IF i <= l THEN clean[i] ELSE listing[i - l]
    <3>1. DOMAIN (clean \o listing) = 1..(l + n) /\ \A i \in 1..(l + n) : (clean \o listing)[i] = IF i <= l THEN clean[i] ELSE listing[i - l]
      BY <1>10, <2>3
    <3> QED BY <3>1, Zenon
  <2>5. \A i \in 1..(l + n) : (i \in 1..l /\ said[i] = clean[i]) \/ (i - l \in 1..n /\ said[i] = listing[i - l])
    BY <2>4
  <2>6. Cites(said) \subseteq 1..n
    <3>1. ASSUME NEW i \in 1..(l + n), said[i].kind = "number" PROVE said[i].n \in 1..n
      BY <1>11, <2>2, <2>5, <3>1
    <3> QED BY <2>4, <3>1 DEF Cites
  <2>7. Cites(said) # {}
    <3>1. l + 1 \in 1..(l + n) /\ ~(l + 1 <= l) /\ (l + 1) - l = 1 /\ 1 \in 1..n
      BY <1>1
    <3>2. said[l + 1] = listing[1]
      BY <2>4, <3>1
    <3>3. said[l + 1].kind = "number" /\ l + 1 \in DOMAIN said
      BY <2>2, <2>4, <3>1, <3>2
    <3>4. said[l + 1].n \in Cites(said)
      BY <3>3, Zenon DEF Cites
    <3> QED BY <3>4
  <2>8. \A i \in 1..l : said[i] = clean[i]
    <3>1. \A i \in 1..l : i \in 1..(l + n) /\ i <= l
      OBVIOUS
    <3> QED BY <2>4, <3>1
  <2> QED BY <1>1, <1>3, <1>8, <1>12, <1>14, <2>1, <2>4, <2>6, <2>7, <2>8 DEF Resolved
<1> QED BY <1>13, <1>14

-----------------------------------------------------------------------------
\* The path as a whole

\* A first round has evidence only after it chose, of different spans; what a second round answers
\* from cites no place twice.
Counted ==
  /\ round \in 0..2 /\ (at = "gathering" => round <= 1) /\ (at # "gathering" => round >= 1)
  /\ round = 0 \/ (round = 1 /\ at \in {"selecting", "choosing"}) => evidence = <<>>
  /\ round = 1 => Apart(evidence, spans, visible, dossier)
  /\ round = 2 /\ at \in {"answering", "answered"} => Single(evidence)

\* Dossier and spans are of the page; in the prompt are the spans that fit, at places that count as
\* shown; the evidence is numbered and quotes the page at such places; an answer is resolved.
PathInv ==
  /\ text \in Seq(Letters) /\ context \in Nat
  /\ pool \in SUBSET (DOMAIN Passages(text))
  /\ dossier \in Dossiers(text, Len(text), MaxPassages, MaxDossier)
  /\ SpansUpTo(spans, dossier, Len(dossier))
  /\ at = "choosing" => visible = PackWindow(Groups(spans), Room) /\ \A k \in 1..visible : PlaceOf(spans[k], dossier) \in shown
  /\ Numbered(evidence) /\ \A n \in DOMAIN evidence : Quotes(evidence[n], text, shown)
  /\ Counted
  /\ at = "answered" => Resolved(reply, answer, evidence)

\* A bounded sequence is a sequence.
LEMMA Bounded ==
  ASSUME NEW S, NEW n \in Nat, NEW s \in BoundedSeq(S, n)
  PROVE  s \in Seq(S)
<1>1. PICK m \in 0..n : s \in [1..m -> S]
  BY DEF BoundedSeq, SeqOf
<1> QED BY <1>1

\* An empty dossier, no spans and no evidence are right.
LEMMA NothingYet ==
  /\ <<>> \in Dossiers(text, Len(text), MaxPassages, MaxDossier) /\ SpansUpTo(<<>>, <<>>, Len(<<>>))
  /\ Numbered(<<>>)
<1>1. MaxPassages \in Nat /\ MaxDossier \in Nat
  BY PathAssumption
<1>2. Sizes(<<>>) = <<>>
  BY DEF Sizes
<1>3. Total(Sizes(<<>>)) = 0
  BY <1>2, TotalOfNone
<1>4. <<>> \in Dossiers(text, Len(text), MaxPassages, MaxDossier)
  BY <1>1, <1>3 DEF Dossiers
<1>5. SpansUpTo(<<>>, <<>>, Len(<<>>))
  BY DEF SpansUpTo, InTurn
<1>6. Numbered(<<>>)
  BY DEF Numbered
<1> QED BY <1>4, <1>5, <1>6

\* PathInv holds when a page is taken up,
LEMMA PathBegins == PathInit => PathInv
<1> SUFFICES ASSUME PathInit PROVE PathInv
  OBVIOUS
<1>1. MaxText \in Nat /\ Contexts \subseteq Nat
  BY PathAssumption DEF PathAssumption
<1>2. text \in Seq(Letters)
  BY <1>1, Bounded DEF PathInit
<1>3. context \in Nat
  BY <1>1 DEF PathInit
<1>4. at = "gathering" /\ pool = {} /\ dossier = <<>> /\ spans = <<>> /\ evidence = <<>>
  BY DEF PathInit
<1>5. DOMAIN evidence = {}
  BY <1>4
<1>6. Counted
  BY <1>4 DEF PathInit, Counted
<1> QED BY <1>2, <1>3, <1>4, <1>5, <1>6, NothingYet DEF PathInv

\* The room of a prompt is a number, below zero where the rest of the prompt fills the window.
LEMMA RoomIsNumber == PathInv => Room \in Int
<1> SUFFICES ASSUME PathInv PROVE Room \in Int
  OBVIOUS
<1>1. context \in Int /\ Fixed \in Int
  BY PathAssumption DEF PathInv, PathAssumption
<1>2. PICK tokens \in Int : tokens = ContextTokens(context, 0)
  <2>1. Min({context, 32768}) \in Int
    <3>1. PICK most \in Int : most = 32768
      OBVIOUS
    <3>2. Min({context, most}) \in {context, most}
      BY <1>1, MinOfTwo
    <3> QED BY <1>1, <3>1, <3>2
  <2>2. ContextTokens(context, 0) = Min({context, 32768}) \/ ContextTokens(context, 0) = 4096
    BY DEF ContextTokens
  <2>3. ContextTokens(context, 0) \in Int
    BY <2>1, <2>2
  <2> QED BY <2>3, Zenon
<1>3. PICK budget \in Int : budget = InputBudget(tokens)
  <2>1. PICK x \in Int : x = (tokens - 512) * 85
    OBVIOUS
  <2>2. x \div 100 \in Int
    OBVIOUS
  <2>3. InputBudget(tokens) \in Int
    BY <2>1, <2>2 DEF InputBudget
  <2> QED BY <2>3, Zenon
<1>4. Room = budget * 3 - Fixed
  BY <1>2, <1>3 DEF Room
<1> QED BY <1>1, <1>4

\* The spans of the dossier are in the page.
LEMMA DossierOfPage ==
  ASSUME PathInv
  PROVE  /\ dossier \in Seq(Ranges) /\ \A k \in DOMAIN dossier : InPage(dossier[k], Len(text)) /\ SolidEnds(text, dossier[k])
         /\ spans \in Seq(Spans) /\ InTurn(spans) /\ \A i \in DOMAIN spans : SpanIn(spans[i], dossier)
<1>1. dossier \in Seq(Readable(text, Len(text)))
  BY DEF PathInv, Dossiers
<1>2. \A k \in DOMAIN dossier : dossier[k] \in Readable(text, Len(text))
  BY <1>1
<1>3. Readable(text, Len(text)) \subseteq Ranges
  BY DEF Readable
<1>4. dossier \in Seq(Ranges)
  BY <1>1, <1>3
<1>5. \A k \in DOMAIN dossier : InPage(dossier[k], Len(text)) /\ SolidEnds(text, dossier[k])
  BY <1>2 DEF Readable
<1> QED BY <1>4, <1>5 DEF PathInv, SpansUpTo

\* An order of retrieved passages is a sequence of ranges with something to read at their ends.
LEMMA RankedIs ==
  ASSUME NEW page \in Seq(Letters), NEW chosen \in SUBSET (DOMAIN Passages(page)),
         NEW ranked \in SetToSeqs({Passages(page)[k] : k \in chosen})
  PROVE  ranked \in Seq(Readable(page, Len(page)))
<1>1. PICK passages : passages = Passages(page) /\ RightPassages(page, Len(page), passages)
  <2>1. Len(page) \in Nat
    OBVIOUS
  <2>2. RightPassages(page, Len(page), Passages(page))
    BY <2>1, TextAssumption, PassagesAre
  <2> QED BY <2>2, Zenon
<1>2. \A k \in DOMAIN passages : passages[k] \in Readable(page, Len(page))
  BY <1>1 DEF RightPassages, Readable, InPage
<1>3. PICK S : S = {passages[k] : k \in chosen}
  OBVIOUS
<1>4. S \subseteq Readable(page, Len(page))
  BY <1>1, <1>2, <1>3
<1>5. IsFiniteSet(S)
  <2>1. passages \in Seq(Ranges)
    BY <1>1 DEF RightPassages
  <2>2. PICK n \in Nat : n = Len(passages) /\ DOMAIN passages = 1..n
    BY <2>1
  <2>3. IsFiniteSet(1..n)
    BY <2>2, FS_Interval
  <2>4. IsFiniteSet(chosen)
    BY <1>1, <2>2, <2>3, FS_Subset
  <2>5. [k \in chosen |-> passages[k]] \in Surjection(chosen, S)
    BY <1>3 DEF Surjection
  <2> QED BY <2>4, <2>5, FS_Surjection
<1>6. Cardinality(S) \in Nat
  BY <1>5, FS_CardinalityType
<1>7. ranked \in SetToSeqs(S)
  BY <1>1, <1>3
<1>8. ranked \in [1..Cardinality(S) -> S]
  BY <1>7 DEF SetToSeqs
<1>9. ranked \in Seq(S)
  BY <1>6, <1>8
<1> QED BY <1>4, <1>9

\* Gather keeps PathInv: what it ranks are passages, so that dossier and spans are of the page.
LEMMA GatherKeeps == PathInv /\ Gather => PathInv'
<1> SUFFICES ASSUME PathInv, Gather PROVE PathInv'
  OBVIOUS
<1>1. MaxPassages \in Nat /\ MaxDossier \in Nat
  BY PathAssumption DEF PathAssumption
<1>2. text \in Seq(Letters) /\ context \in Nat /\ pool \in SUBSET (DOMAIN Passages(text))
  BY DEF PathInv
<1>3. PICK ranked : /\ pool' \in SUBSET (DOMAIN Passages(text))
                    /\ ranked \in SetToSeqs({Passages(text)[k] : k \in pool'})
                    /\ dossier' = Dossier(text, ranked, MaxPassages, MaxDossier)
  BY <1>2 DEF Gather
<1>4. PICK size \in Nat : size = Len(text)
  BY <1>2
<1>5. ranked \in Seq(Readable(text, size))
  BY <1>2, <1>3, <1>4, RankedIs
<1>6. dossier' \in Dossiers(text, size, MaxPassages, MaxDossier)
  <2>1. Dossier(text, ranked, MaxPassages, MaxDossier) \in Dossiers(text, size, MaxPassages, MaxDossier)
    BY <1>1, <1>5, TextAssumption, DossierIs
  <2> QED BY <1>3, <2>1
<1>7. dossier' \in Seq(Ranges) /\ \A k \in DOMAIN dossier' : InPage(dossier'[k], Len(text))
  <2>1. dossier' \in Seq(Readable(text, size))
    BY <1>6 DEF Dossiers
  <2>2. Readable(text, size) \subseteq Ranges /\ \A r \in Readable(text, size) : InPage(r, size)
    BY DEF Readable
  <2> QED BY <1>4, <2>1, <2>2
<1>8. SpansUpTo(spans', dossier', Len(dossier'))
  <2>1. SpansUpTo(SpansOf(text, dossier', Title), dossier', Len(dossier'))
    BY <1>2, <1>7, TextAssumption, SpansAre
  <2> QED BY <2>1 DEF Gather
<1>9. at' = "selecting" /\ UNCHANGED <<text, context, shown, evidence>>
  BY DEF Gather
<1>10. text' \in Seq(Letters) /\ context' \in Nat /\ pool' \in SUBSET (DOMAIN Passages(text'))
  BY <1>2, <1>3, <1>9
<1>11. dossier' \in Dossiers(text', Len(text'), MaxPassages, MaxDossier)
  BY <1>4, <1>6, <1>9
<1>12. Numbered(evidence') /\ \A n \in DOMAIN evidence' : Quotes(evidence'[n], text', shown')
  BY <1>9 DEF PathInv
<1>13. Counted'
  <2>1. round \in 0..1 /\ round' = round + 1
    BY DEF Gather, PathInv, Counted
  <2>2. round' \in 1..2 /\ (round' = 1 => round = 0)
    BY <2>1
  <2>3. round' = 1 => evidence' = <<>>
    BY <1>9, <2>2 DEF PathInv, Counted
  <2>4. round' = 1 => Apart(evidence', spans', visible', dossier')
    BY <2>3 DEF Apart
  <2> QED BY <1>9, <2>2, <2>3, <2>4 DEF Counted
<1> QED BY <1>8, <1>9, <1>10, <1>11, <1>12, <1>13 DEF PathInv

\* Show keeps it: the places of the spans in the window become places that were shown.
LEMMA ShowKeeps == PathInv /\ Show => PathInv'
<1> SUFFICES ASSUME PathInv, Show PROVE PathInv'
  OBVIOUS
<1>1. /\ visible' = PackWindow(Groups(spans), Room) /\ at' = "choosing"
      /\ shown' = shown \cup {SpanRange(spans[k]) : k \in 1..visible'}
      /\ UNCHANGED <<text, context, pool, dossier, spans, evidence>>
  BY DEF Show
<1>2. Room' = Room
  BY <1>1 DEF Room
<1>3. visible' = PackWindow(Groups(spans'), Room')
  BY <1>1, <1>2
<1>4. \A k \in 1..visible' : PlaceOf(spans'[k], dossier') \in shown'
  BY <1>1 DEF PlaceOf, SpanRange
<1>5. \A n \in DOMAIN evidence' : Quotes(evidence'[n], text', shown')
  BY <1>1 DEF PathInv, Quotes
<1>6. Numbered(evidence')
  BY <1>1 DEF PathInv
<1>7. text' \in Seq(Letters) /\ context' \in Nat /\ pool' \in SUBSET (DOMAIN Passages(text'))
  BY <1>1 DEF PathInv
<1>8. dossier' \in Dossiers(text', Len(text'), MaxPassages, MaxDossier) /\ SpansUpTo(spans', dossier', Len(dossier'))
  BY <1>1 DEF PathInv
<1>9. Counted'
  <2>1. at = "selecting" /\ round' = round
    BY DEF Show
  <2>2. round \in 1..2 /\ (round = 1 => evidence = <<>>)
    BY <2>1 DEF PathInv, Counted
  <2>3. round' = 1 => Apart(evidence', spans', visible', dossier')
    BY <1>1, <2>1, <2>2 DEF Apart
  <2> QED BY <1>1, <2>1, <2>2, <2>3 DEF Counted
<1> QED BY <1>1, <1>3, <1>4, <1>5, <1>6, <1>7, <1>8, <1>9 DEF PathInv

\* The ids of a reply that are looked at are numbers, each looked at once.
LEMMA SelectedIs ==
  ASSUME NEW ids \in Seq(Nat), NEW max \in Nat
  PROVE  Selected(ids, max) \in Seq(Nat) /\ IsInjective(Selected(ids, max))
<1>1. PICK s \in Seq(Nat) : s = Upto(ids, max)
  <2>1. Upto(ids, max) \in Seq(Nat)
    BY UptoIs
  <2> QED BY <2>1, Zenon
<1>2. PICK T : T = {i \in DOMAIN s : \A j \in 1..(i - 1) : s[j] # s[i]}
  OBVIOUS
<1>3. PICK kept \in Seq(Nat) : kept = Only(s, T) /\ \E places : PicksOut(places, kept, s, T, Len(s))
  <2>1. Only(s, T) \in Seq(Nat) /\ \E places : PicksOut(places, Only(s, T), s, T, Len(s))
    BY OnlyIs
  <2> QED BY <2>1, Zenon
<1>4. Selected(ids, max) = kept
  BY <1>1, <1>2, <1>3 DEF Selected, FirstOf
<1>5. PICK places : PicksOut(places, kept, s, T, Len(s))
  BY <1>3
<1>6. ASSUME NEW j \in DOMAIN kept, NEW k \in DOMAIN kept, kept[j] = kept[k], j < k PROVE FALSE
  <2>1. PICK x, y : x = places[j] /\ y = places[k] /\ x \in 1..Len(s) /\ y \in 1..Len(s) /\ y \in T /\ x < y /\ s[x] = s[y]
    BY <1>5, <1>6 DEF PicksOut
  <2>2. x \in 1..(y - 1)
    BY <2>1
  <2> QED BY <1>2, <2>1, <2>2
<1>7. IsInjective(kept)
  <2>1. \A j, k \in DOMAIN kept : kept[j] = kept[k] => ~(j < k) /\ ~(k < j)
    BY <1>6
  <2>2. \A j, k \in DOMAIN kept : j \in Int /\ k \in Int
    OBVIOUS
  <2>3. \A j, k \in DOMAIN kept : kept[j] = kept[k] => j = k
    BY <2>1, <2>2
  <2> QED BY <2>3 DEF IsInjective
<1> QED BY <1>4, <1>7

\* Choose keeps it: what verifies was shown, each item of a span of its own; in the repair round it
\* joins the evidence without repetition.
LEMMA ChooseKeeps == PathInv /\ Choose => PathInv'
<1> SUFFICES ASSUME PathInv, Choose PROVE PathInv'
  OBVIOUS
<1>1. /\ at = "choosing" /\ at' \in {"gathering", "answering"}
      /\ UNCHANGED <<text, context, round, pool, dossier, spans, visible, shown>>
  BY DEF Choose
<1>2. PICK ids : /\ ids \in BoundedSeq(1..Len(spans) + 1, MaxSelections + 1)
                 /\ evidence' = LET verified == Verify(text, dossier, spans, visible, Selected(ids, MaxSelections))
                                IN IF round = 1 THEN verified ELSE DedupeVerified(evidence \o verified)
  BY DEF Choose
<1>3. MaxSelections \in Nat /\ MaxSelections + 1 \in Nat
  BY PathAssumption DEF PathAssumption
<1>4. ids \in Seq(Nat)
  <2>1. ids \in Seq(1..Len(spans) + 1)
    BY <1>2, <1>3, Bounded
  <2> QED BY <2>1
<1>5. PICK chosen \in Seq(Nat) : chosen = Selected(ids, MaxSelections) /\ IsInjective(chosen)
  <2>1. Selected(ids, MaxSelections) \in Seq(Nat) /\ IsInjective(Selected(ids, MaxSelections))
    BY <1>3, <1>4, SelectedIs
  <2> QED BY <2>1, Zenon
<1>6. /\ dossier \in Seq(Ranges) /\ \A k \in DOMAIN dossier : InPage(dossier[k], Len(text))
      /\ spans \in Seq(Spans) /\ InTurn(spans) /\ \A i \in DOMAIN spans : SpanIn(spans[i], dossier)
  BY DossierOfPage
<1>7. text \in Seq(Letters) /\ Room \in Int
  BY RoomIsNumber DEF PathInv
<1>8. visible \in 0..Len(spans)
  <2>1. visible = PackWindow(Groups(spans), Room)
    BY <1>1 DEF PathInv
  <2>2. PackWindow(Groups(spans), Room) \in 0..Len(spans)
    BY <1>6, <1>7, TextAssumption, PathAssumption, WindowFits
  <2> QED BY <2>1, <2>2
<1>9. \A k \in 1..visible : PlaceOf(spans[k], dossier) \in shown
  BY <1>1 DEF PathInv
<1>10. PICK found : /\ found = Verify(text, dossier, spans, visible, chosen)
                    /\ Numbered(found) /\ Apart(found, spans, visible, dossier)
                    /\ \A n \in DOMAIN found : Quotes(found[n], text, shown)
  <2>1. /\ Numbered(Verify(text, dossier, spans, visible, chosen)) /\ Apart(Verify(text, dossier, spans, visible, chosen), spans, visible, dossier)
        /\ \A n \in DOMAIN Verify(text, dossier, spans, visible, chosen) : Quotes(Verify(text, dossier, spans, visible, chosen)[n], text, shown)
    BY <1>5, <1>6, <1>7, <1>8, <1>9, VerifyIs
  <2> QED BY <2>1, Zenon
<1>11. evidence \in Seq(Items) /\ found \in Seq(Items) /\ \A n \in DOMAIN evidence : Quotes(evidence[n], text, shown)
  BY <1>10 DEF PathInv, Numbered
<1>12. PICK both : both = evidence \o found /\ both \in Seq(Items) /\ \A n \in DOMAIN both : Quotes(both[n], text, shown)
  <2>1. evidence \o found \in Seq(Items)
    BY <1>10, <1>11
  <2>2. \A n \in DOMAIN (evidence \o found) : \/ n \in DOMAIN evidence /\ (evidence \o found)[n] = evidence[n]
                                              \/ n - Len(evidence) \in DOMAIN found /\ (evidence \o found)[n] = found[n - Len(evidence)]
    BY <1>10, <1>11
  <2>3. \A n \in DOMAIN (evidence \o found) : Quotes((evidence \o found)[n], text, shown)
    BY <1>10, <1>11, <2>2
  <2> QED BY <2>1, <2>3, Zenon
<1>13. evidence' = IF round = 1 THEN found ELSE DedupeVerified(both)
  BY <1>2, <1>5, <1>10, <1>12
<1>14. /\ Numbered(evidence') /\ \A n \in DOMAIN evidence' : Quotes(evidence'[n], text, shown)
       /\ IF round = 1 THEN Apart(evidence', spans, visible, dossier) ELSE Single(evidence')
  <2>1. CASE round = 1
    BY <1>10, <1>13, <2>1
  <2>2. CASE round # 1
    <3>1. /\ Numbered(DedupeVerified(both)) /\ Single(DedupeVerified(both))
          /\ \A n \in DOMAIN DedupeVerified(both) : Quotes(DedupeVerified(both)[n], text, shown)
      BY <1>12, DedupeIs
    <3> QED BY <1>13, <2>2, <3>1
  <2> QED BY <2>1, <2>2
<1>15. \A n \in DOMAIN evidence' : Quotes(evidence'[n], text', shown')
  BY <1>1, <1>14
<1>16. text' \in Seq(Letters) /\ context' \in Nat /\ pool' \in SUBSET (DOMAIN Passages(text'))
  BY <1>1 DEF PathInv
<1>17. dossier' \in Dossiers(text', Len(text'), MaxPassages, MaxDossier) /\ SpansUpTo(spans', dossier', Len(dossier'))
  BY <1>1 DEF PathInv
<1>18. at' # "choosing" /\ at' # "answered"
  BY <1>1
<1>19. Counted'
  <2>1. round \in 1..2 /\ round' = round /\ (round = 2 => at' = "answering")
    BY <1>1 DEF PathInv, Counted, Choose
  <2>2. round' = 1 => Apart(evidence', spans', visible', dossier')
    BY <1>1, <1>14, <2>1
  <2>3. round' = 2 => Single(evidence')
    BY <1>14, <2>1
  <2> QED BY <1>1, <2>1, <2>2, <2>3 DEF Counted
<1> QED BY <1>14, <1>15, <1>16, <1>17, <1>18, <1>19 DEF PathInv

\* Answer keeps it: the trim drops items from the tail only, and the marks are resolved against
\* what is left.
LEMMA AnswerKeeps == PathInv /\ Answer => PathInv'
<1> SUFFICES ASSUME PathInv, Answer PROVE PathInv'
  OBVIOUS
<1>1. evidence # <<>> /\ at' = "answered" /\ UNCHANGED <<text, context, pool, dossier, spans, shown>>
  BY DEF Answer
<1>2. PICK bytes, tokens : evidence' = Fitted(evidence, bytes, Fixed, Fixed, 1200, tokens)
  BY DEF Answer
<1>3. Numbered(evidence) /\ \A n \in DOMAIN evidence : Quotes(evidence[n], text, shown)
  BY DEF PathInv
<1>4. Numbered(evidence') /\ evidence' # <<>> /\ \A n \in DOMAIN evidence' : n \in DOMAIN evidence /\ evidence'[n] = evidence[n]
  <2>1. PICK predict : predict = 1200
    OBVIOUS
  <2>2. LET fitted == Fitted(evidence, bytes, Fixed, Fixed, predict, tokens) IN
          Numbered(fitted) /\ fitted # <<>> /\ \A n \in DOMAIN fitted : n \in DOMAIN evidence /\ fitted[n] = evidence[n]
    BY <1>1, <1>3, FittedIs
  <2>3. evidence' = Fitted(evidence, bytes, Fixed, Fixed, predict, tokens)
    BY <1>2, <2>1
  <2> QED BY <2>2, <2>3, Zenon
<1>5. \A n \in DOMAIN evidence' : Quotes(evidence'[n], text', shown')
  <2>1. \A n \in DOMAIN evidence' : Quotes(evidence'[n], text, shown)
    BY <1>3, <1>4
  <2> QED BY <1>1, <2>1
<1>6. Resolved(reply', answer', evidence')
  <2>1. PICK S, one : /\ S = [kind : {"E", "number"}, n : 0..Len(evidence) + 1] \cup {Mark("word", 0)} /\ one = 1
                      /\ reply' \in BoundedSeq(S, one) /\ answer' = ResolveCitations(reply', evidence')
    BY DEF Answer
  <2>2. reply' \in Seq(S)
    BY <2>1, Bounded
  <2>3. S \subseteq Marks
    BY <2>1 DEF Mark, Marks
  <2>4. reply' \in Seq(Marks)
    BY <2>2, <2>3
  <2>5. Resolved(reply', ResolveCitations(reply', evidence'), evidence')
    BY <1>4, <2>4, ResolveIs
  <2> QED BY <2>1, <2>5
<1>7. text' \in Seq(Letters) /\ context' \in Nat /\ pool' \in SUBSET (DOMAIN Passages(text'))
  BY <1>1 DEF PathInv
<1>8. dossier' \in Dossiers(text', Len(text'), MaxPassages, MaxDossier) /\ SpansUpTo(spans', dossier', Len(dossier'))
  BY <1>1 DEF PathInv
<1>9. Counted'
  <2>1. round' = round /\ round \in 1..2 /\ visible' = visible /\ at \in {"gathering", "answering"}
    BY <1>1 DEF Answer, PathInv, Counted
  <2>2. round = 2 => at = "answering"
    BY <2>1 DEF PathInv, Counted
  <2>3. round = 1 => Apart(evidence, spans, visible, dossier)
    BY DEF PathInv, Counted
  <2>4. round' = 1 => Apart(evidence', spans', visible', dossier')
    BY <1>1, <1>4, <2>1, <2>3 DEF Apart
  <2>5. round' = 2 => Single(evidence')
    <3>1. round = 2 => Single(evidence)
      BY <2>2 DEF PathInv, Counted
    <3> QED BY <1>4, <2>1, <3>1 DEF Single
  <2> QED BY <1>1, <2>1, <2>4, <2>5 DEF Counted
<1> QED BY <1>1, <1>4, <1>5, <1>6, <1>7, <1>8, <1>9 DEF PathInv

\* A stutter keeps it.
LEMMA PathIdles == PathInv /\ UNCHANGED pathVars => PathInv'
<1> SUFFICES ASSUME PathInv, UNCHANGED pathVars PROVE PathInv'
  OBVIOUS
<1>1. UNCHANGED <<at, text, context, round, pool, dossier, spans, visible, shown, evidence, reply, answer>>
  BY DEF pathVars
<1>2. Room' = Room
  BY <1>1 DEF Room
<1>3. Counted'
  BY <1>1 DEF PathInv, Counted
<1> QED BY <1>1, <1>2, <1>3 DEF PathInv

\* PathInv holds throughout, whatever is ranked, chosen or answered.
THEOREM PathInvariant == PathSpec => []PathInv
<1>1. PathInit => PathInv
  BY PathBegins
<1>2. PathInv /\ [PathNext]_pathVars => PathInv'
  BY GatherKeeps, ShowKeeps, ChooseKeeps, AnswerKeeps, PathIdles DEF PathNext
<1> QED BY <1>1, <1>2, PTL DEF PathSpec

\* PageIsCovered follows from the lemmas about windows and passages, and from the dossier's part
\* of PathInv.
LEMMA Covers == PathInv => PageIsCovered
<1> SUFFICES ASSUME PathInv PROVE PageIsCovered
  OBVIOUS
<1>1. PICK size \in Nat : size = Len(text) /\ DOMAIN text = 1..size
  BY DEF PathInv
<1>2. PICK passages : passages = Passages(text) /\ RightPassages(text, size, passages)
  <2>1. RightPassages(text, size, Passages(text))
    BY <1>1, TextAssumption, PassagesAre
  <2> QED BY <2>1, Zenon
<1>3. \A i \in DOMAIN text : Blank(text[i]) \/ \E k \in DOMAIN passages : i \in passages[k][1]..passages[k][2]
  BY <1>1, <1>2 DEF RightPassages
<1>4. \A k \in DOMAIN passages : passages[k][2] - passages[k][1] < MaxChars
  BY <1>2 DEF RightPassages
<1>5. Len(dossier) <= MaxPassages /\ Total(Sizes(dossier)) <= MaxDossier
  BY DEF PathInv, Dossiers
<1>6. \A k \in DOMAIN dossier : ~Blank(text[dossier[k][1]]) /\ ~Blank(text[dossier[k][2]])
  BY DossierOfPage DEF SolidEnds
<1> QED BY <1>2, <1>3, <1>4, <1>5, <1>6, Zenon DEF PageIsCovered

\* No visible character of a page is lost to its passages, and the dossier keeps to its limits,
\* for any page and any sizes (passages_for_web_document, build_dossier).
THEOREM PagesAreCovered == PathSpec => []PageIsCovered
<1> QED BY PathInvariant, Covers, PTL

\* EvidenceIsExact follows from PathInv and from what PackWindow gives.
LEMMA Exact == PathInv => EvidenceIsExact
<1> SUFFICES ASSUME PathInv PROVE EvidenceIsExact
  OBVIOUS
<1>1. ASSUME visible > 0, at = "choosing"
      PROVE  LET packed == Groups(SubSeq(spans, 1, visible)) IN Cost(packed, Len(packed)) <= Room
  <2>1. visible = PackWindow(Groups(spans), Room)
    BY <1>1 DEF PathInv
  <2>2. spans \in Seq(Spans) /\ InTurn(spans) /\ \A i \in DOMAIN spans : SpanIn(spans[i], dossier)
    BY DossierOfPage
  <2>3. PackWindow(Groups(spans), Room) > 0 => HasRoom(spans, PackWindow(Groups(spans), Room), Room)
    BY <2>2, RoomIsNumber, TextAssumption, PathAssumption, WindowFits
  <2>4. HasRoom(spans, visible, Room)
    BY <1>1, <2>1, <2>3
  <2> QED BY <2>4 DEF HasRoom
<1>2. ASSUME NEW n \in DOMAIN evidence
      PROVE  PlaceCited(n) = CitedAt(evidence[n]) /\ PlaceCited(n) = <<PlaceCited(n)[1], PlaceCited(n)[2]>>
  BY DEF PlaceCited, CitedAt, LastChar
<1>3. ASSUME NEW n \in DOMAIN evidence
      PROVE  /\ evidence[n].id = n
             /\ SubSeq(text, PlaceCited(n)[1], PlaceCited(n)[2]) = evidence[n].quote
             /\ PlaceCited(n) \in shown
  <2>1. evidence[n].id = n
    BY DEF PathInv, Numbered
  <2>2. Quotes(evidence[n], text, shown)
    BY DEF PathInv
  <2> QED BY <2>1, <2>2 DEF Quotes, LastChar, PlaceCited
<1>4. ASSUME NEW m \in DOMAIN evidence, NEW n \in DOMAIN evidence, m # n, PlaceCited(m) = PlaceCited(n)
      PROVE  /\ round = 2 => at \notin {"answering", "answered"}
             /\ round = 1 => \E j, k \in 1..visible :
                  j # k /\ SpanRange(spans[j]) = PlaceCited(n) /\ SpanRange(spans[k]) = PlaceCited(n)
  <2>1. CitedAt(evidence[m]) = PlaceCited(n) /\ CitedAt(evidence[n]) = PlaceCited(n)
    BY <1>2, <1>4
  <2>2. round = 2 => at \notin {"answering", "answered"}
    BY <1>4, <2>1 DEF PathInv, Counted, Single
  <2>3. round = 1 => \E j, k \in 1..visible :
          j # k /\ PlaceOf(spans[j], dossier) = PlaceCited(n) /\ PlaceOf(spans[k], dossier) = PlaceCited(n)
    BY <1>4, <2>1 DEF PathInv, Counted, Apart
  <2>4. \A s : SpanRange(s) = PlaceOf(s, dossier)
    BY DEF SpanRange, PlaceOf
  <2> QED BY <2>2, <2>3, <2>4
<1> QED BY <1>1, <1>3, <1>4, Zenon DEF EvidenceIsExact

\* Evidence stands in the page where its citation points, at a place the model was shown, twice
\* only where a first round showed it twice, for any page, ranking and choice
\* (pack_evidence_window, verify_evidence_span_selection, dedupe_verified).
THEOREM EvidenceStands == PathSpec => []EvidenceIsExact
<1> QED BY PathInvariant, Exact, PTL

\* CitationsResolve is the last part of PathInv.
LEMMA Resolves == PathInv => CitationsResolve
BY DEF PathInv, Resolved, CitationsResolve

\* Every citation of an answer leads to an item the answer was made from, for any marks of the
\* model (resolve_answer_citations).
THEOREM CitationsHold == PathSpec => []CitationsResolve
<1> QED BY PathInvariant, Resolves, PTL
=============================================================================
