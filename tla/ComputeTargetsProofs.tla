------------------------ MODULE ComputeTargetsProofs ------------------------
(***************************************************************************)
(* The targets for every size of a matrix, every number of iterations and  *)
(* every width of an int: if the number of elements is an int, accesses    *)
(* stay inside the arrays and every iteration computes every element.      *)
(***************************************************************************)
EXTENDS ComputeTargets, FiniteSetTheorems, WellFoundedInduction, TLAPS

-----------------------------------------------------------------------------
(* The arithmetic of the indices.                                          *)

\* An int that is in its range is what it is.
LEMMA WrapStays ==
  ASSUME NEW x \in 0 .. IntMax
  PROVE  Wrap(x) = x
<1> DEFINE w == IntMax + 1
<1>1. w \in Nat \ {0} /\ x \in 0 .. w - 1
  BY TargetAssumption
<1>2. Wrap(x) = ((x + w) % (2 * w)) - w
  <2>1. x + IntMax + 1 = x + w
    BY TargetAssumption
  <2> QED
    BY <2>1 DEF Wrap
<1> HIDE DEF w
<1>3. (x + w) % (2 * w) = x + w
  BY <1>1
<1> QED
  BY <1>1, <1>2, <1>3

\* An int is always in its range.
LEMMA WrapType ==
  ASSUME NEW x \in Int
  PROVE  Wrap(x) \in Int32
<1> DEFINE w == IntMax + 1
           y == x + IntMax + 1
<1>1. w \in Nat \ {0} /\ y \in Int
  BY TargetAssumption
<1>2. Wrap(x) = (y % (2 * w)) - w
  BY DEF Wrap
<1>3. Int32 = -w .. w - 1
  BY TargetAssumption DEF Int32
<1> HIDE DEF w, y
<1>4. y % (2 * w) \in 0 .. 2 * w - 1
  BY <1>1
<1> QED
  BY <1>1, <1>2, <1>3, <1>4

\* The element of a row and a column is in the array.
LEMMA Cell ==
  ASSUME NEW n \in Nat, NEW x \in 0 .. n - 1, NEW y \in 0 .. n - 1
  PROVE  x * n + y \in 0 .. n * n - 1
<1>1. x * n \in Nat
  OBVIOUS
<1>2. n * n = x * n + (n - x) * n
  OBVIOUS
<1>3. (n - x) * n = n + (n - x - 1) * n
  OBVIOUS
<1>4. (n - x - 1) * n \in Nat
  OBVIOUS
<1> QED
  BY <1>1, <1>2, <1>3, <1>4

\* Different elements have different places.
LEMMA CellUnique ==
  ASSUME NEW n \in Nat, NEW x \in 0 .. n - 1, NEW y \in 0 .. n - 1,
         NEW v \in 0 .. n - 1, NEW w \in 0 .. n - 1, x * n + y = v * n + w
  PROVE  x = v /\ y = w
<1>1. ASSUME NEW p \in 0 .. n - 1, NEW q \in 0 .. n - 1, p < q,
             NEW r \in 0 .. n - 1, NEW s \in 0 .. n - 1
      PROVE  p * n + r < q * n + s
  <2>1. q * n = p * n + n + (q - p - 1) * n
    BY <1>1
  <2>2. (q - p - 1) * n \in Nat /\ p * n \in Nat
    BY <1>1
  <2> QED
    BY <1>1, <2>1, <2>2
<1>2. x * n + y \in Int /\ ~(x < v) /\ ~(v < x)
  BY <1>1
<1>3. x = v
  BY <1>2
<1> QED
  BY <1>3

-----------------------------------------------------------------------------
(* The invariant.                                                          *)

Waiting == {"sleep", "add", "sub", "mul", "meet"}

\* What an element of the third matrix is computed from.
Terms(x, y, n) == {<<x * size + z, Unwritten(z * size + y)>> : z \in 0 .. n - 1}

\* Where the loops are.
Indices ==
  /\ iter \in 0 .. IntMax /\ i \in 0 .. IntMax
  /\ pc = "rows" => /\ j \in Nat /\ k \in Nat
                    /\ size >= 0 => i <= size /\ j <= size /\ k <= size
                    /\ size < 0 => i = 0 /\ j = 0
                    /\ j >= size => k = 0
  /\ pc \in Waiting \cup {"fill", "rows"} => iter < iterations

\* The arrays have as many elements as are accessed.
Allocated ==
  ~Overflows =>
    /\ ~stray
    /\ pc \notin {"start", "rejected", "aborted", "allocate"} =>
         /\ elements = size * size
         /\ a \in [0 .. size * size - 1 -> Int]
         /\ c \in [0 .. size * size - 1 -> SUBSET (Int \X Int)]

Filled ==
  /\ ~Overflows /\ pc = "fill" => /\ i <= size * size
                                  /\ \A e \in 0 .. i - 1 : a[e] = e
  /\ ~Overflows /\ pc = "rows" => \A e \in 0 .. size * size - 1 : a[e] = e

Computed ==
  /\ ~Overflows /\ pc = "rows" =>
       /\ acc = Terms(i, j, k)
       /\ \A x, y \in 0 .. size - 1 :
            x < i \/ (x = i /\ y < j) => c[x * size + y] = Terms(x, y, size)
  /\ ResultsComputed

\* Nothing has been computed yet.
Before == pc \in {"start", "rejected", "aborted", "allocate"} => iter = 0

TargetInv == TypeOK /\ Indices /\ Before /\ Allocated /\ Filled /\ Computed

LEMMA Options ==
  ASSUME TypeOK
  PROVE  /\ size \in -IntMax .. IntMax /\ iterations \in -IntMax .. IntMax
         /\ IntMax \in Nat /\ size * size \in Nat
         /\ Square \in Int32 /\ (~Overflows => Square = size * size)
<1>1. size \in -IntMax .. IntMax /\ iterations \in -IntMax .. IntMax /\ IntMax \in Nat
  BY TargetAssumption DEF TypeOK
<1>2. size * size \in Nat
  <2>1. CASE size >= 0
    BY <1>1, <2>1
  <2>2. CASE size < 0
    <3>1. -size \in Nat /\ size * size = (-size) * (-size)
      BY <1>1, <2>2
    <3> QED
      BY <3>1
  <2> QED
    BY <1>1, <2>1, <2>2
<1>3. Square \in Int32
  BY <1>2, WrapType DEF Square
<1>4. ASSUME ~Overflows PROVE Square = size * size
  BY <1>1, <1>2, <1>4, WrapStays DEF Overflows, Square
<1> QED
  BY <1>1, <1>2, <1>3, <1>4

LEMMA TargetInitially == Init => TargetInv
<1> SUFFICES ASSUME Init PROVE TargetInv
  OBVIOUS
<1>1. IntMax \in Nat /\ Half \in Nat /\ Wide \in Nat \ {0}
  BY TargetAssumption
<1>2. TypeOK
  <2>1. 0 \in Int32 /\ 0 \in 0 .. Wide - 1
    BY <1>1 DEF Int32
  <2>2. program \in {"StandardCandle", "NaiveMatMul"} /\ pc = "start" /\ stray \in BOOLEAN
    BY Zenon DEF Init
  <2> QED
    BY <2>1, <2>2 DEF Init, TypeOK
<1>3. Indices /\ Before /\ Allocated /\ Filled
  BY <1>1 DEF Init, Indices, Allocated, Filled, Waiting, Before
<1>4. Computed
  BY DEF Init, Computed, ResultsComputed, RowsDone
<1> QED
  BY <1>2, <1>3, <1>4 DEF TargetInv

\* Steps before the arrays exist.
LEMMA OptionStep ==
  ASSUME TargetInv, RejectCandle \/ RunCandle \/ RejectMatMul \/ RunMatMul \/ AllocationFails
  PROVE  TargetInv'
<1>1. /\ pc \in {"start", "allocate"} /\ pc' \in {"rejected", "aborted", "allocate"}
      /\ UNCHANGED <<program, size, iterations, elements, a, c, iter, i, j, k, acc,
                     up, down, stray>>
  BY DEF RejectCandle, RunCandle, RejectMatMul, RunMatMul, AllocationFails, args, loops, waits
<1> QED
  BY <1>1 DEF TargetInv, TypeOK, Indices, Before, Allocated, Filled, Computed, ResultsComputed,
              RowsDone, Overflows, Waiting

LEMMA AllocateStep ==
  ASSUME TargetInv, Allocate
  PROVE  TargetInv'
<1>1. /\ pc = "allocate" /\ pc' = "iterate" /\ Square >= 0 /\ elements' = Square
      /\ a' = [e \in 0 .. Square - 1 |-> Unwritten(e)]
      /\ c' = [e \in 0 .. Square - 1 |-> {<<Unwritten(e), Unwritten(e)>>}]
      /\ UNCHANGED <<program, size, iterations, iter, i, j, k, acc, up, down, stray>>
  BY DEF Allocate, args, loops, waits
<1>2. Square \in Int32 /\ (~Overflows => Square = size * size)
  BY Options DEF TargetInv
<1>3. TypeOK' /\ Indices' /\ Before' /\ Filled'
  BY <1>1, <1>2 DEF TargetInv, TypeOK, Indices, Before, Filled, Waiting
<1>4. Allocated'
  <2>1. \A e \in Int : Unwritten(e) \in Int
    BY TargetAssumption DEF Unwritten
  <2> QED
    BY <1>1, <1>2, <2>1 DEF TargetInv, Allocated, Overflows
<1>5. Computed'
  <2>1. iter = 0
    BY <1>1 DEF TargetInv, Before
  <2> QED
    BY <1>1, <2>1 DEF Computed, ResultsComputed, RowsDone
<1> QED
  BY <1>3, <1>4, <1>5 DEF TargetInv

LEMMA IterateStep ==
  ASSUME TargetInv, Iterate
  PROVE  TargetInv'
<1>1. /\ pc = "iterate" /\ pc' = "fill" /\ iter < iterations /\ i' = 0
      /\ UNCHANGED <<program, size, iterations, elements, a, c, iter, j, k, acc, up, down, stray>>
  BY DEF Iterate, args, loops, waits
<1>2. IntMax \in Nat /\ size * size \in Nat
  BY Options DEF TargetInv
<1>3. TypeOK'
  <2>1. 0 \in Int32
    BY <1>2 DEF Int32
  <2> QED
    BY <1>1, <2>1 DEF TargetInv, TypeOK
<1>4. Indices' /\ Before' /\ Filled'
  BY <1>1, <1>2 DEF TargetInv, Indices, Before, Filled, Waiting
<1>5. Allocated'
  BY <1>1 DEF TargetInv, Allocated, Overflows
<1>6. Computed'
  BY <1>1 DEF Computed, ResultsComputed, RowsDone
<1> QED
  BY <1>3, <1>4, <1>5, <1>6 DEF TargetInv

LEMMA ReturnStep ==
  ASSUME TargetInv, Return
  PROVE  TargetInv'
<1>1. /\ pc = "iterate" /\ pc' \in {"returned", "crashed"} /\ (~stray => pc' = "returned")
      /\ UNCHANGED <<program, size, iterations, elements, a, c, iter, i, j, k, acc, up, down, stray>>
  BY DEF Return, args, loops, waits
<1> QED
  BY <1>1 DEF TargetInv, TypeOK, Indices, Before, Allocated, Filled, Computed, ResultsComputed,
              RowsDone, Overflows, Waiting

LEMMA FillStep ==
  ASSUME TargetInv, Fill
  PROVE  TargetInv'
<1>1. /\ pc = "fill" /\ pc' = pc /\ i < Square /\ i' = i + 1 /\ a' = [a EXCEPT ![i] = i]
      /\ UNCHANGED <<program, size, iterations, elements, c, iter, j, k, acc, up, down, stray>>
  BY DEF Fill, args, waits
<1>2. /\ IntMax \in Nat /\ Square \in Int32 /\ (~Overflows => Square = size * size)
      /\ size * size \in Nat
  BY Options DEF TargetInv
<1>3. i \in 0 .. IntMax /\ i + 1 \in 0 .. IntMax
  BY <1>1, <1>2 DEF TargetInv, Indices, Int32
<1>4. TypeOK'
  <2>1. i + 1 \in Int32
    BY <1>2, <1>3 DEF Int32
  <2> QED
    BY <1>1, <2>1 DEF TargetInv, TypeOK
<1>5. Indices' /\ Before'
  BY <1>1, <1>3 DEF TargetInv, Indices, Before, Waiting
<1>6. Allocated' /\ Filled'
  <2>1. CASE Overflows
    BY <1>1, <2>1 DEF Allocated, Filled, Overflows
  <2>2. CASE ~Overflows
    <3>1. i \in 0 .. size * size - 1
      BY <1>1, <1>2, <1>3, <2>2
    <3>2. a \in [0 .. size * size - 1 -> Int]
      BY <1>1, <2>2 DEF TargetInv, Allocated
    <3>3. a' \in [0 .. size * size - 1 -> Int] /\ a'[i] = i
          /\ \A e \in 0 .. i - 1 : a'[e] = a[e]
      BY <1>1, <1>2, <3>1, <3>2
    <3>4. Allocated'
      BY <1>1, <2>2, <3>3 DEF TargetInv, Allocated, Overflows
    <3>5. \A e \in 0 .. i - 1 : a[e] = e
      BY <1>1, <2>2 DEF TargetInv, Filled
    <3>6. \A e \in 0 .. i' - 1 : a'[e] = e
      <4> SUFFICES ASSUME NEW e \in 0 .. i' - 1 PROVE a'[e] = e
        OBVIOUS
      <4>1. e = i \/ e \in 0 .. i - 1
        BY <1>1, <1>3
      <4> QED
        BY <3>3, <3>5, <4>1
    <3> QED
      BY <1>1, <1>2, <3>1, <3>4, <3>6 DEF Filled
  <2> QED
    BY <2>1, <2>2
<1>7. Computed'
  BY <1>1 DEF Computed, ResultsComputed, RowsDone
<1> QED
  BY <1>4, <1>5, <1>6, <1>7 DEF TargetInv

LEMMA CombineStep ==
  ASSUME TargetInv, Combine
  PROVE  TargetInv'
<1>1. /\ pc = "fill" /\ pc' = "rows" /\ ~(i < Square) /\ i' = 0 /\ j' = 0 /\ k' = 0
      /\ acc' = {}
      /\ UNCHANGED <<program, size, iterations, elements, a, c, iter, up, down, stray>>
  BY DEF Combine, args, waits, Zero
<1>2. /\ IntMax \in Nat /\ Square \in Int32 /\ (~Overflows => Square = size * size)
      /\ size * size \in Nat /\ size \in Int
  BY Options DEF TargetInv
<1>3. TypeOK'
  <2>1. 0 \in Int32
    BY <1>2 DEF Int32
  <2> QED
    BY <1>1, <2>1 DEF TargetInv, TypeOK
<1>4. Indices' /\ Before' /\ Allocated'
  BY <1>1, <1>2 DEF TargetInv, Indices, Before, Allocated, Overflows, Waiting
<1>5. Filled'
  <2>1. ASSUME ~Overflows PROVE \A e \in 0 .. size * size - 1 : a[e] = e
    <3>1. i = size * size /\ \A e \in 0 .. i - 1 : a[e] = e
      BY <1>1, <1>2, <2>1 DEF TargetInv, Indices, Filled
    <3> QED
      BY <3>1
  <2> QED
    BY <1>1, <2>1 DEF Filled, Overflows
<1>6. Computed'
  <2>1. Terms(0, 0, 0)' = {}
    BY DEF Terms
  <2>2. ~(size > 0) => 0 .. size - 1 = {}
    BY <1>2
  <2>3. ResultsComputed'
    BY <1>1, <1>2, <2>2 DEF ResultsComputed, RowsDone, More
  <2>4. \A x, y \in 0 .. size - 1 : ~(x < 0 \/ (x = 0 /\ y < 0))
    BY <1>2
  <2> QED
    BY <1>1, <2>1, <2>3, <2>4 DEF Computed, Overflows, Terms
<1> QED
  BY <1>3, <1>4, <1>5, <1>6 DEF TargetInv

\* In the rows: the indices of the loops that are not over.
LEMMA Inside ==
  ASSUME TargetInv, pc = "rows", More(i), More(j)
  PROVE  /\ size \in Nat /\ size <= IntMax /\ IntMax \in Nat /\ size * size \in Nat
         /\ i \in 0 .. size - 1 /\ j \in 0 .. size - 1 /\ k \in 0 .. size
         /\ iter < iterations /\ iter \in 0 .. IntMax
<1>1. size \in -IntMax .. IntMax /\ IntMax \in Nat /\ size * size \in Nat
  BY Options DEF TargetInv
<1>2. i \in Nat /\ j \in Nat /\ k \in Nat /\ i < size /\ j < size
  BY DEF TargetInv, Indices, More
<1> QED
  BY <1>1, <1>2 DEF TargetInv, Indices, Waiting

\* Without an overflow an index of an element is what it says.
LEMMA Element ==
  ASSUME TargetInv, pc = "rows", ~Overflows, size \in Nat,
         NEW x \in 0 .. size - 1, NEW y \in 0 .. size - 1
  PROVE  /\ Wrap(x * size + y) = x * size + y
         /\ ~Elsewhere(x * size + y)
<1>1. x * size + y \in 0 .. size * size - 1
  BY Cell
<1>2. elements = size * size
  BY DEF TargetInv, Allocated
<1>3. size * size <= IntMax /\ IntMax \in Nat /\ size * size \in Nat
  BY Options DEF TargetInv, Overflows
<1>4. x * size + y \in 0 .. IntMax
  BY <1>1, <1>3
<1> QED
  BY <1>1, <1>2, <1>4, WrapStays DEF Elsewhere

LEMMA AccumulateStep ==
  ASSUME TargetInv, Accumulate
  PROVE  TargetInv'
<1> DEFINE x == Wrap(i * size + k)
           y == Wrap(k * size + j)
<1>1. /\ pc = "rows" /\ More(i) /\ More(j) /\ More(k) /\ k' = k + 1
      /\ acc' = acc \cup {<<IF Elsewhere(x) THEN Unwritten(x) ELSE a[x], Unwritten(y)>>}
      /\ stray' = (stray \/ Elsewhere(x) \/ Elsewhere(y))
      /\ pc' \in IF Elsewhere(x) \/ Elsewhere(y) THEN {"rows", "crashed"} ELSE {"rows"}
      /\ UNCHANGED <<program, size, iterations, elements, a, c, iter, i, j, up, down>>
  BY DEF Accumulate, args, waits
<1> HIDE DEF x, y
<1>2. /\ size \in Nat /\ size <= IntMax /\ IntMax \in Nat /\ size * size \in Nat
      /\ i \in 0 .. size - 1 /\ j \in 0 .. size - 1 /\ k \in 0 .. size
  BY <1>1, Inside
<1>3. k \in 0 .. size - 1 /\ pc' \in {"rows", "crashed"}
  BY <1>1, <1>2 DEF More
<1>4. TypeOK'
  <2>1. k + 1 \in Int32
    BY <1>2, <1>3 DEF Int32
  <2>2. stray' \in BOOLEAN
    BY <1>1
  <2> QED
    BY <1>1, <1>3, <2>1, <2>2 DEF TargetInv, TypeOK
<1>5. Indices' /\ Before'
  BY <1>1, <1>2, <1>3 DEF TargetInv, Indices, Before, Waiting
<1>6. ASSUME ~Overflows
      PROVE  /\ x = i * size + k /\ y = k * size + j /\ ~Elsewhere(x) /\ ~Elsewhere(y)
             /\ a[x] = x /\ pc' = "rows" /\ ~stray'
  <2>1. /\ x = i * size + k /\ ~Elsewhere(x)
        /\ y = k * size + j /\ ~Elsewhere(y)
    BY <1>1, <1>2, <1>3, <1>6, Element DEF x, y
  <2>2. x \in 0 .. size * size - 1
    BY <1>2, <1>3, <2>1, Cell
  <2>3. a[x] = x
    BY <1>1, <1>6, <2>2 DEF TargetInv, Filled
  <2> QED
    BY <1>1, <1>6, <2>1, <2>3 DEF TargetInv, Allocated
<1>7. Allocated'
  BY <1>1, <1>6 DEF TargetInv, Allocated, Overflows
<1>8. Filled'
  BY <1>1, <1>3 DEF TargetInv, Filled, Overflows
<1>9. Computed'
  <2>1. CASE Overflows
    BY <1>1, <2>1 DEF Computed, ResultsComputed, Overflows
  <2>2. CASE ~Overflows
    <3>1. acc' = Terms(i, j, k + 1)
      <4>1. acc = Terms(i, j, k)
        BY <1>1, <2>2 DEF TargetInv, Computed
      <4>2. acc' = acc \cup {<<i * size + k, Unwritten(k * size + j)>>}
        BY <1>1, <1>6, <2>2
      <4>3. 0 .. (k + 1) - 1 = (0 .. k - 1) \cup {k}
        BY <1>3
      <4>4. Terms(i, j, k + 1) = Terms(i, j, k) \cup {<<i * size + k, Unwritten(k * size + j)>>}
        <5> DEFINE R == 0 .. k - 1
                   T(z) == <<i * size + z, Unwritten(z * size + j)>>
        <5>1. Terms(i, j, k + 1) = {T(z) : z \in R \cup {k}} /\ Terms(i, j, k) = {T(z) : z \in R}
          BY <4>3, Zenon DEF Terms
        <5> HIDE DEF R, T
        <5>2. {T(z) : z \in R \cup {k}} = {T(z) : z \in R} \cup {T(k)}
          OBVIOUS
        <5> QED
          BY <5>1, <5>2 DEF T
      <4> QED
        BY <4>1, <4>2, <4>4
    <3>2. \A v, w \in 0 .. size - 1 :
            v < i \/ (v = i /\ w < j) => c[v * size + w] = Terms(v, w, size)
      BY <1>1, <2>2 DEF TargetInv, Computed
    <3>3. ResultsComputed'
      BY <1>1, <1>6, <2>2 DEF ResultsComputed, RowsDone, More
    <3> QED
      BY <1>1, <3>1, <3>2, <3>3 DEF Computed, Terms, Overflows
  <2> QED
    BY <2>1, <2>2
<1> QED
  BY <1>4, <1>5, <1>7, <1>8, <1>9 DEF TargetInv

LEMMA StoreStep ==
  ASSUME TargetInv, Store
  PROVE  TargetInv'
<1> DEFINE z == Wrap(i * size + j)
<1>1. /\ pc = "rows" /\ More(i) /\ More(j) /\ ~More(k)
      /\ j' = j + 1 /\ k' = 0 /\ acc' = {}
      /\ c' = (IF Elsewhere(z) THEN c ELSE [c EXCEPT ![z] = acc])
      /\ stray' = (stray \/ Elsewhere(z))
      /\ pc' \in IF Elsewhere(z) THEN {"rows", "crashed"} ELSE {"rows"}
      /\ UNCHANGED <<program, size, iterations, elements, a, iter, i, up, down>>
  BY DEF Store, args, waits, Zero
<1> HIDE DEF z
<1>2. /\ size \in Nat /\ size <= IntMax /\ IntMax \in Nat /\ size * size \in Nat
      /\ i \in 0 .. size - 1 /\ j \in 0 .. size - 1 /\ k \in 0 .. size
  BY <1>1, Inside
<1>3. k = size /\ pc' \in {"rows", "crashed"}
  BY <1>1, <1>2 DEF More
<1>4. TypeOK'
  <2>1. j + 1 \in Int32 /\ 0 \in Int32
    BY <1>2 DEF Int32
  <2>2. stray' \in BOOLEAN
    BY <1>1
  <2> QED
    BY <1>1, <1>3, <2>1, <2>2 DEF TargetInv, TypeOK
<1>5. Indices' /\ Before'
  BY <1>1, <1>2, <1>3 DEF TargetInv, Indices, Before, Waiting
<1>6. Filled'
  BY <1>1, <1>3 DEF TargetInv, Filled, Overflows
<1>7. CASE Overflows
  BY <1>1, <1>4, <1>5, <1>6, <1>7 DEF TargetInv, Allocated, Computed, ResultsComputed, Overflows
<1>8. CASE ~Overflows
  <2>1. z = i * size + j /\ ~Elsewhere(z) /\ z \in 0 .. size * size - 1
    BY <1>1, <1>2, <1>8, Element, Cell DEF z
  <2>2. c \in [0 .. size * size - 1 -> SUBSET (Int \X Int)] /\ ~stray
    BY <1>1, <1>8 DEF TargetInv, Allocated
  <2>3. acc = Terms(i, j, size)
    BY <1>1, <1>3, <1>8 DEF TargetInv, Computed
  <2>4. acc \in SUBSET (Int \X Int)
    <3>1. \A e \in Int : Unwritten(e) \in Int
      BY TargetAssumption DEF Unwritten
    <3>2. \A m \in 0 .. size - 1 : i * size + m \in Int /\ m * size + j \in Int
      BY <1>2
    <3> QED
      BY <2>3, <3>1, <3>2 DEF Terms
  <2>5. /\ c' = [c EXCEPT ![z] = acc] /\ ~stray' /\ pc' = "rows"
        /\ c' \in [0 .. size * size - 1 -> SUBSET (Int \X Int)]
    BY <1>1, <2>1, <2>2, <2>4
  <2>6. Allocated'
    BY <1>1, <1>8, <2>5 DEF TargetInv, Allocated, Overflows
  <2>7. ASSUME NEW v \in 0 .. size - 1, NEW w \in 0 .. size - 1,
               v < i \/ (v = i /\ w < j + 1)
        PROVE  c'[v * size + w] = Terms(v, w, size)
    <3>1. v * size + w \in 0 .. size * size - 1
      BY <1>2, Cell
    <3>2. CASE v = i /\ w = j
      BY <2>1, <2>2, <2>3, <2>5, <3>2
    <3>3. CASE ~(v = i /\ w = j)
      <4>1. v * size + w # z
        BY <1>2, <2>1, <3>3, CellUnique
      <4>2. c[v * size + w] = Terms(v, w, size)
        <5>1. v < i \/ (v = i /\ w < j)
          BY <1>2, <2>7, <3>3
        <5> QED
          BY <1>1, <1>8, <5>1 DEF TargetInv, Computed
      <4> QED
        BY <2>2, <2>5, <3>1, <4>1, <4>2
    <3> QED
      BY <3>2, <3>3
  <2>8. Terms(i, j + 1, 0) = {}
    BY DEF Terms
  <2>9. ResultsComputed'
    BY <1>1, <2>5 DEF ResultsComputed, RowsDone, More
  <2>10. Computed'
    BY <1>1, <2>5, <2>7, <2>8, <2>9 DEF Computed, Terms, Overflows
  <2> QED
    BY <1>4, <1>5, <1>6, <2>6, <2>10 DEF TargetInv
<1> QED
  BY <1>7, <1>8

LEMMA NextRowStep ==
  ASSUME TargetInv, NextRow
  PROVE  TargetInv'
<1>1. /\ pc = "rows" /\ pc' = pc /\ More(i) /\ ~More(j) /\ i' = i + 1 /\ j' = 0
      /\ UNCHANGED <<program, size, iterations, elements, a, c, iter, k, acc, up, down, stray>>
  BY DEF NextRow, args, waits
<1>2. /\ size \in Int /\ IntMax \in Nat /\ size <= IntMax
      /\ i \in Nat /\ i < size /\ j = size /\ k \in 0 .. size
  BY <1>1, Options DEF TargetInv, Indices, More
<1>3. TypeOK'
  <2>1. i + 1 \in Int32 /\ 0 \in Int32
    BY <1>2 DEF Int32
  <2> QED
    BY <1>1, <2>1 DEF TargetInv, TypeOK
<1>4. Indices' /\ Before' /\ Allocated' /\ Filled'
  BY <1>1, <1>2 DEF TargetInv, Indices, Before, Allocated, Filled, Overflows, Waiting
<1>5. Computed'
  <2>1. k = 0
    BY <1>1, <1>2 DEF TargetInv, Indices
  <2>2. Terms(i, j, 0) = {} /\ Terms(i + 1, 0, 0) = {}
    BY DEF Terms
  <2>3. CASE Overflows
    BY <1>1, <2>3 DEF Computed, ResultsComputed, Overflows
  <2>4. CASE ~Overflows
    <3>1. acc = {} /\ \A v, w \in 0 .. size - 1 :
                       v < i \/ (v = i /\ w < j) => c[v * size + w] = Terms(v, w, size)
      BY <1>1, <2>1, <2>2, <2>4 DEF TargetInv, Computed
    <3>2. \A v, w \in 0 .. size - 1 : v < i + 1 => c[v * size + w] = Terms(v, w, size)
      BY <1>2, <3>1
    <3>3. \A v, w \in 0 .. size - 1 :
            v < i + 1 \/ (v = i + 1 /\ w < 0) => c[v * size + w] = Terms(v, w, size)
      BY <3>2
    <3>4. ResultsComputed'
      <4> SUFFICES ASSUME RowsDone' PROVE \A v, w \in 0 .. size - 1 :
                     c[v * size + w] = Terms(v, w, size)
        BY <1>1 DEF ResultsComputed, Terms
      <4>1. ~(i + 1 < size)
        BY <1>1 DEF RowsDone, More
      <4> QED
        BY <1>2, <3>2, <4>1
    <3> QED
      BY <1>1, <2>1, <2>2, <3>1, <3>3, <3>4 DEF Computed, Terms, Overflows
  <2> QED
    BY <2>3, <2>4
<1> QED
  BY <1>3, <1>4, <1>5 DEF TargetInv

LEMMA EndRowsStep ==
  ASSUME TargetInv, EndRows
  PROVE  TargetInv'
<1>1. /\ pc = "rows" /\ ~More(i) /\ pc' \in {"iterate", "sleep"}
      /\ iter' = (IF pc' = "iterate" THEN iter + 1 ELSE iter)
      /\ UNCHANGED <<program, size, iterations, elements, a, c, i, j, k, acc, up, down, stray>>
  BY DEF EndRows, args, waits
<1>2. /\ IntMax \in Nat /\ iterations \in -IntMax .. IntMax
      /\ iter \in 0 .. IntMax /\ iter < iterations
  BY <1>1, Options DEF TargetInv, Indices, Waiting
<1>3. iter' \in 0 .. IntMax /\ (pc' = "sleep" => iter' < iterations)
  BY <1>1, <1>2
<1>4. TypeOK'
  BY <1>1, <1>2, <1>3 DEF TargetInv, TypeOK, Int32
<1>5. Indices' /\ Before' /\ Allocated' /\ Filled'
  BY <1>1, <1>3 DEF TargetInv, Indices, Before, Allocated, Filled, Overflows, Waiting
<1>6. Computed'
  BY <1>1 DEF TargetInv, Computed, ResultsComputed, RowsDone, Overflows
<1> QED
  BY <1>4, <1>5, <1>6 DEF TargetInv

\* The sleep and the busy waits leave what was computed alone.
LEMMA WaitStep ==
  ASSUME TargetInv, Sleep \/ Count \/ NextWait
  PROVE  TargetInv'
<1>1. Half \in Nat /\ Wide \in Nat /\ 2 * Half < Wide /\ Wide > 0
  BY TargetAssumption
<1>2. up \in 0 .. Wide - 1 /\ down \in 0 .. Wide - 1
  BY DEF TargetInv, TypeOK
<1>3. (up + 1) % Wide \in 0 .. Wide - 1 /\ (down - 1) % Wide \in 0 .. Wide - 1
  BY <1>1, <1>2
<1>4. up' \in 0 .. Wide - 1 /\ down' \in 0 .. Wide - 1
  BY <1>1, <1>2, <1>3 DEF Sleep, Count, NextWait, Full
<1>5. /\ pc \in Waiting /\ pc' \in Waiting
      /\ UNCHANGED <<program, size, iterations, elements, a, c, iter, i, j, k, acc, stray>>
  BY DEF Sleep, Count, Goes, NextWait, Waiting, args, loops
<1>6. TypeOK'
  BY <1>4, <1>5 DEF TargetInv, TypeOK, Waiting
<1> QED
  BY <1>5, <1>6 DEF TargetInv, Indices, Before, Allocated, Filled, Computed, ResultsComputed,
                    RowsDone, Overflows, Waiting

LEMMA EndWaitsStep ==
  ASSUME TargetInv, EndWaits
  PROVE  TargetInv'
<1>1. /\ pc = "meet" /\ pc' = "iterate" /\ iter' = iter + 1
      /\ UNCHANGED <<program, size, iterations, elements, a, c, i, j, k, acc, up, down, stray>>
  BY DEF EndWaits, args, waits
<1>2. /\ IntMax \in Nat /\ iterations \in -IntMax .. IntMax
      /\ iter \in 0 .. IntMax /\ iter < iterations
  BY <1>1, Options DEF TargetInv, Indices, Waiting
<1>3. iter' \in 0 .. IntMax
  BY <1>1, <1>2
<1>4. TypeOK'
  BY <1>1, <1>2, <1>3 DEF TargetInv, TypeOK, Int32
<1>5. Indices' /\ Before' /\ Allocated' /\ Filled'
  BY <1>1, <1>3 DEF TargetInv, Indices, Before, Allocated, Filled, Overflows, Waiting
<1>6. Computed'
  BY <1>1 DEF TargetInv, Computed, ResultsComputed, RowsDone, Overflows
<1> QED
  BY <1>4, <1>5, <1>6 DEF TargetInv

-----------------------------------------------------------------------------
LEMMA TargetInvariant == Spec => []TargetInv
<1>1. TargetInv /\ [Next]_vars => TargetInv'
  <2> SUFFICES ASSUME TargetInv, [Next]_vars PROVE TargetInv'
    OBVIOUS
  <2>1. CASE UNCHANGED vars
    BY <2>1 DEF vars, args, loops, waits, TargetInv, TypeOK, Indices, Before, Allocated, Filled,
                Computed, ResultsComputed, RowsDone, More, Overflows, Terms, Waiting
  <2>2. CASE Kernel
    BY <2>2, AllocateStep, OptionStep, IterateStep, ReturnStep, FillStep, CombineStep,
       AccumulateStep, StoreStep, NextRowStep, EndRowsStep DEF Kernel
  <2> QED
    BY <2>1, <2>2, OptionStep, WaitStep, EndWaitsStep DEF Next, Run, StandardCandle, NaiveMatMul
<1> QED
  BY <1>1, TargetInitially, PTL DEF Spec

\* Every variable stays in the range of its type, also where the number of
\* elements overflows.
THEOREM TypeCorrect == Spec => []TypeOK
<1>1. TargetInv => TypeOK
  BY DEF TargetInv
<1> QED
  BY <1>1, TargetInvariant, PTL

\* No access outside an array, for any size whose square is an int.
THEOREM NeverStrays == Spec => []StaysInBounds
<1>1. TargetInv => StaysInBounds
  BY DEF TargetInv, Allocated, StaysInBounds
<1> QED
  BY <1>1, TargetInvariant, PTL

\* Each iteration computes every element from its row and its column, for any
\* size whose square is an int and any number of iterations.
THEOREM ComputesEverything == Spec => []ResultsComputed
<1>1. TargetInv => ResultsComputed
  BY DEF TargetInv, Computed
<1> QED
  BY <1>1, TargetInvariant, PTL

-----------------------------------------------------------------------------
(* The programs get on.                                                    *)

\* Where the counters are.
Counting ==
  /\ pc \in {"add", "mul"} => up <= Half
  /\ CountersMeet

LEMMA CountingStep ==
  ASSUME TypeOK, Counting, [Next]_vars
  PROVE  Counting'
<1>1. /\ Half \in Nat \ {0} /\ Wide \in Nat /\ Full = 2 * Half /\ Full < Wide
      /\ up \in Nat /\ down \in Nat /\ down < Wide
  BY TargetAssumption DEF TypeOK, Full
<1>2. \A x \in Nat : x < Wide => x % Wide = x
  BY <1>1
<1>3. CASE Sleep \/ NextWait
  BY <1>1, <1>3 DEF Sleep, NextWait, Counting, CountersMeet
<1>4. CASE Count
  <2>1. /\ Goes /\ pc' = pc
        /\ up' = IF pc = "sub" THEN up ELSE (up + 1) % Wide
        /\ down' = IF pc \in {"sub", "meet"} THEN (down - 1) % Wide ELSE down
    BY <1>4 DEF Count
  <2>2. CASE pc = "add"
    <3>1. up + 1 <= Half /\ (up + 1) % Wide = up + 1
      BY <1>1, <1>2, <2>1, <2>2 DEF Goes
    <3> QED
      BY <2>1, <2>2, <3>1 DEF Counting, CountersMeet
  <2>3. CASE pc = "sub"
    BY <2>1, <2>3 DEF Counting, CountersMeet
  <2>4. CASE pc = "mul"
    <3>1. up <= Half /\ (2 * up) % Wide = 2 * up
      BY <1>1, <1>2, <2>4 DEF Counting
    <3>2. up + 1 <= Half /\ (up + 1) % Wide = up + 1
      BY <1>1, <1>2, <2>1, <2>4, <3>1 DEF Goes
    <3> QED
      BY <2>1, <2>4, <3>2 DEF Counting, CountersMeet
  <2>5. CASE pc = "meet"
    <3>1. up + down = 2 * Half /\ up < down
      BY <1>1, <2>1, <2>5 DEF Counting, CountersMeet, Goes
    <3>2. (up + 1) % Wide = up + 1 /\ (down - 1) % Wide = down - 1
      BY <1>1, <1>2, <3>1
    <3> QED
      BY <1>1, <2>1, <2>5, <3>1, <3>2 DEF Counting, CountersMeet, Full
  <2> QED
    BY <2>1, <2>2, <2>3, <2>4, <2>5 DEF Goes
<1>5. CASE UNCHANGED vars
  BY <1>5 DEF vars, waits, Counting, CountersMeet, Full
<1>6. ASSUME Kernel \/ EndWaits \/ RejectCandle \/ RunCandle \/ RejectMatMul \/ RunMatMul
      PROVE  pc' \notin {"add", "mul", "meet"}
  BY <1>6 DEF Kernel, Allocate, AllocationFails, Iterate, Return, Fill, Combine, Accumulate,
              Store, NextRow, EndRows, EndWaits, RejectCandle, RunCandle, RejectMatMul, RunMatMul
<1>7. CASE Kernel \/ EndWaits \/ RejectCandle \/ RunCandle \/ RejectMatMul \/ RunMatMul
  BY <1>6, <1>7 DEF Counting, CountersMeet
<1> QED
  BY <1>3, <1>4, <1>5, <1>7 DEF Next, Run, StandardCandle, NaiveMatMul

LEMMA CountingInvariant == Spec => []Counting
<1>1. Init => Counting
  BY DEF Init, Counting, CountersMeet
<1>2. TypeOK /\ Counting /\ [Next]_vars => Counting'
  BY CountingStep
<1> QED
  BY <1>1, <1>2, TypeCorrect, PTL DEF Spec

-----------------------------------------------------------------------------
(* Descents.                                                               *)

LessThan == {ss \in Nat \X Nat : ss[1] < ss[2]}

\* A descent of numbers is one of the sets of numbers below them.
LEMMA NaturalsDescend == IsWellFoundedOn(LessThan, Nat)
<1> SUFFICES ASSUME NEW f \in [Nat -> Nat], \A n \in Nat : <<f[n + 1], f[n]>> \in LessThan
             PROVE  FALSE
  BY DEF IsWellFoundedOn
<1> DEFINE g == [n \in Nat |-> 0 .. f[n] - 1]
<1>1. \A n \in Nat : g[n] = 0 .. f[n] - 1
  OBVIOUS
<1> HIDE DEF g
<1>2. \A n \in Nat : g[n] \in FiniteSubsetsOf(Nat)
  <2> SUFFICES ASSUME NEW n \in Nat PROVE 0 .. f[n] - 1 \in FiniteSubsetsOf(Nat)
    BY <1>1
  <2>1. IsFiniteSet(0 .. f[n] - 1)
    BY FS_Interval
  <2> QED
    BY <2>1 DEF FiniteSubsetsOf
<1>3. \A n \in Nat : <<g[n + 1], g[n]>> \in StrictSubsetOrdering(Nat)
  <2> SUFFICES ASSUME NEW n \in Nat PROVE <<g[n + 1], g[n]>> \in StrictSubsetOrdering(Nat)
    OBVIOUS
  <2>1. f[n + 1] < f[n] /\ f[n + 1] \in Nat /\ f[n] \in Nat
    BY DEF LessThan
  <2>2. g[n + 1] = 0 .. f[n + 1] - 1 /\ g[n] = 0 .. f[n] - 1
    BY <1>1
  <2>3. \A x, y \in Nat : x < y => /\ 0 .. x - 1 \subseteq 0 .. y - 1
                                  /\ 0 .. x - 1 # 0 .. y - 1
    <3> SUFFICES ASSUME NEW x \in Nat, NEW y \in Nat, x < y
                 PROVE  0 .. x - 1 \subseteq 0 .. y - 1 /\ 0 .. x - 1 # 0 .. y - 1
      OBVIOUS
    <3>1. x \in 0 .. y - 1 /\ x \notin 0 .. x - 1
      OBVIOUS
    <3> QED
      BY <3>1
  <2>4. \A x \in Nat : 0 .. x - 1 \in SUBSET Nat
    OBVIOUS
  <2>5. g[n + 1] \subseteq g[n] /\ g[n + 1] # g[n]
    BY <2>1, <2>2, <2>3
  <2>6. g[n] \in SUBSET Nat /\ g[n + 1] \in SUBSET Nat
    BY <2>1, <2>2, <2>4, Zenon
  <2> QED
    BY <2>5, <2>6 DEF StrictSubsetOrdering
<1>4. g \in [Nat -> FiniteSubsetsOf(Nat)]
  BY <1>2 DEF g
<1> QED
  BY <1>3, <1>4, FS_StrictSubsetOrderingWellFounded DEF IsWellFoundedOn

\* Tuples of natural numbers of any length cannot be made smaller for ever, so
\* that a program whose steps all descend ends if it takes them.
THEOREM NoInfiniteDescent ==
  ASSUME NEW n \in Nat, NEW f \in [Nat -> Measures(n)]
  PROVE  \E s \in Nat : ~Descends(n, f[s], f[s + 1])
<1> DEFINE R == LexProductOrdering(LessThan, Nat, n)
<1>1. IsWellFoundedOn(R, Measures(n))
  BY NaturalsDescend, WFLexProductOrdering DEF Measures
<1>2. ASSUME NEW earlier, NEW later, Descends(n, earlier, later)
      PROVE  <<later, earlier>> \in R
  <2>1. earlier \in [1 .. n -> Nat] /\ later \in [1 .. n -> Nat]
    BY <1>2 DEF Descends, Measures
  <2>2. PICK m \in 1 .. n : later[m] < earlier[m] /\ \A l \in 1 .. m - 1 : later[l] = earlier[l]
    BY <1>2 DEF Descends
  <2>3. <<later[m], earlier[m]>> \in LessThan
    BY <2>1, <2>2 DEF LessThan
  <2> QED
    BY <2>1, <2>2, <2>3 DEF LexProductOrdering
<1> HIDE DEF R
<1> SUFFICES ASSUME \A s \in Nat : Descends(n, f[s], f[s + 1]) PROVE FALSE
  OBVIOUS
<1>3. \A s \in Nat : <<f[s + 1], f[s]>> \in R
  BY <1>2
<1> QED
  BY <1>1, <1>3 DEF IsWellFoundedOn

\* What is left is known by its parts.
LEMMA LeftDescends ==
  ASSUME Left \in Measures(6), Left' \in Measures(6),
         \/ Part' < Part
         \/ /\ Part' = Part
            /\ \/ Remaining(iterations - iter)' < Remaining(iterations - iter)
               \/ /\ Remaining(iterations - iter)' = Remaining(iterations - iter)
                  /\ \/ Stage' < Stage
                     \/ /\ Stage' = Stage
                        /\ \/ OuterLoop' < OuterLoop
                           \/ /\ OuterLoop' = OuterLoop
                              /\ \/ InnerLoop(j)' < InnerLoop(j)
                                 \/ /\ InnerLoop(j)' = InnerLoop(j)
                                    /\ InnerLoop(k)' < InnerLoop(k)
  PROVE  Descends(6, Left, Left')
<1>1. /\ Left[1] = Part /\ Left[2] = Remaining(iterations - iter) /\ Left[3] = Stage
      /\ Left[4] = OuterLoop /\ Left[5] = InnerLoop(j) /\ Left[6] = InnerLoop(k)
  BY DEF Left
<1>2. /\ Left'[1] = Part' /\ Left'[2] = Remaining(iterations - iter)' /\ Left'[3] = Stage'
      /\ Left'[4] = OuterLoop' /\ Left'[5] = InnerLoop(j)' /\ Left'[6] = InnerLoop(k)'
  BY DEF Left
<1>3. \E m \in 1 .. 6 : Left'[m] < Left[m] /\ \A l \in 1 .. m - 1 : Left'[l] = Left[l]
  <2>1. ASSUME NEW m \in 1 .. 6, Left'[m] < Left[m], \A l \in 1 .. 6 : l < m => Left'[l] = Left[l]
        PROVE  \E n \in 1 .. 6 : Left'[n] < Left[n] /\ \A l \in 1 .. n - 1 : Left'[l] = Left[l]
    BY <2>1
  <2>2. \A l \in 1 .. 6 : l = 1 \/ l = 2 \/ l = 3 \/ l = 4 \/ l = 5 \/ l = 6
    OBVIOUS
  <2>3. CASE Left'[1] < Left[1]
    BY <2>1, <2>3
  <2>4. CASE Left'[1] = Left[1] /\ Left'[2] < Left[2]
    BY <2>1, <2>2, <2>4
  <2>5. CASE Left'[1] = Left[1] /\ Left'[2] = Left[2] /\ Left'[3] < Left[3]
    BY <2>1, <2>2, <2>5
  <2>6. CASE /\ Left'[1] = Left[1] /\ Left'[2] = Left[2] /\ Left'[3] = Left[3]
             /\ Left'[4] < Left[4]
    BY <2>1, <2>2, <2>6
  <2>7. CASE /\ Left'[1] = Left[1] /\ Left'[2] = Left[2] /\ Left'[3] = Left[3]
             /\ Left'[4] = Left[4] /\ Left'[5] < Left[5]
    BY <2>1, <2>2, <2>7
  <2>8. CASE /\ Left'[1] = Left[1] /\ Left'[2] = Left[2] /\ Left'[3] = Left[3]
             /\ Left'[4] = Left[4] /\ Left'[5] = Left[5] /\ Left'[6] < Left[6]
    BY <2>1, <2>2, <2>8
  <2> QED
    BY <1>1, <1>2, <2>3, <2>4, <2>5, <2>6, <2>7, <2>8
<1> QED
  BY <1>3 DEF Descends

LEMMA LeftType == TargetInv => Left \in Measures(6)
<1> SUFFICES ASSUME TargetInv PROVE Left \in Measures(6)
  OBVIOUS
<1>1. \A x \in Int : Remaining(x) \in Nat
  BY DEF Remaining
<1>2. /\ size \in Int /\ iterations \in Int /\ Square \in Int /\ Half \in Int
      /\ iter \in Int /\ i \in Int /\ j \in Int /\ k \in Int /\ up \in Int /\ down \in Nat
  BY Options, TargetAssumption DEF TargetInv, TypeOK, Int32
<1>3. Part \in Nat /\ Stage \in Nat
  BY DEF Part, Stage
<1>4. OuterLoop \in Nat /\ InnerLoop(j) \in Nat /\ InnerLoop(k) \in Nat
  BY <1>1, <1>2 DEF OuterLoop, InnerLoop
<1>5. Remaining(iterations - iter) \in Nat
  BY <1>1, <1>2
<1> QED
  BY <1>3, <1>4, <1>5 DEF Left, Measures

\* What the loops have left is less with one more step.
LEMMA RemainingDescends ==
  ASSUME NEW x \in Int, NEW y \in Int, x < y
  PROVE  Remaining(y - (x + 1)) < Remaining(y - x)
BY DEF Remaining

\* The steps to and from the iterations.
LEMMA PartDescends ==
  ASSUME TargetInv, Left \in Measures(6), Left' \in Measures(6),
         \/ RejectCandle \/ RunCandle \/ RejectMatMul \/ RunMatMul
         \/ Allocate \/ AllocationFails \/ Return
  PROVE  Descends(6, Left, Left')
<1>1. \/ pc = "start" /\ pc' \in {"rejected", "aborted", "allocate"}
      \/ pc = "allocate" /\ pc' \in {"iterate", "aborted"}
      \/ pc = "iterate" /\ pc' \in {"returned", "crashed"}
  BY DEF RejectCandle, RunCandle, RejectMatMul, RunMatMul, Allocate, AllocationFails, Return
<1>2. Part' < Part
  BY <1>1 DEF Part, Stopped
<1> QED
  BY <1>2, LeftDescends

\* The steps that end an iteration.
LEMMA IterationDescends ==
  ASSUME TargetInv, Left \in Measures(6), Left' \in Measures(6),
         EndWaits \/ (EndRows /\ pc' = "iterate")
  PROVE  Descends(6, Left, Left')
<1>1. /\ pc \in {"rows", "meet"} /\ pc' = "iterate" /\ iter' = iter + 1
      /\ iterations' = iterations
  BY DEF EndRows, EndWaits, args
<1>2. iter < iterations /\ iter \in Int /\ iterations \in Int
  BY <1>1, Options DEF TargetInv, Indices, Waiting
<1>3. Part' = Part
  BY <1>1 DEF Part, Stopped
<1>4. Remaining(iterations - iter)' < Remaining(iterations - iter)
  BY <1>1, <1>2, RemainingDescends
<1> QED
  BY <1>3, <1>4, LeftDescends

\* The steps from one stage of an iteration to the next.
LEMMA StageDescends ==
  ASSUME TargetInv, Left \in Measures(6), Left' \in Measures(6),
         \/ Iterate \/ Combine \/ Sleep \/ NextWait
         \/ EndRows /\ pc' = "sleep"
  PROVE  Descends(6, Left, Left')
<1>1. /\ \/ pc = "iterate" /\ pc' = "fill"
         \/ pc = "fill" /\ pc' = "rows"
         \/ pc = "rows" /\ pc' = "sleep"
         \/ pc = "sleep" /\ pc' = "add"
         \/ pc = "add" /\ pc' = "sub"
         \/ pc = "sub" /\ pc' = "mul"
         \/ pc = "mul" /\ pc' = "meet"
      /\ iter' = iter /\ iterations' = iterations
  BY DEF Iterate, Combine, Sleep, NextWait, EndRows, args, loops
<1>2. Part' = Part /\ Stage' < Stage
  BY <1>1 DEF Part, Stage, Stopped
<1>3. Remaining(iterations - iter)' = Remaining(iterations - iter)
  BY <1>1
<1> QED
  BY <1>2, <1>3, LeftDescends

\* The loops over the first matrix and over the rows.
LEMMA OuterDescends ==
  ASSUME TargetInv, Left \in Measures(6), Left' \in Measures(6),
         Fill \/ NextRow
  PROVE  Descends(6, Left, Left')
<1>1. /\ \/ pc = "fill" /\ i < Square
         \/ pc = "rows" /\ i < size
      /\ pc' = pc /\ i' = i + 1
      /\ size' = size /\ iter' = iter /\ iterations' = iterations
  BY DEF Fill, NextRow, More, args
<1>2. size \in Int /\ Square \in Int /\ i \in Int
  BY Options DEF TargetInv, TypeOK, Int32
<1>3. Part' = Part /\ Stage' = Stage /\ Remaining(iterations - iter)' = Remaining(iterations - iter)
  BY <1>1 DEF Part, Stage, Stopped
<1>4. Square' = Square
  BY <1>1 DEF Square
<1>5. OuterLoop' < OuterLoop
  <2>1. CASE pc = "fill"
    BY <1>1, <1>2, <1>4, <2>1, RemainingDescends DEF OuterLoop
  <2>2. CASE pc = "rows"
    BY <1>1, <1>2, <2>2, RemainingDescends DEF OuterLoop
  <2> QED
    BY <1>1, <2>1, <2>2
<1> QED
  BY <1>3, <1>5, LeftDescends

\* The loops inside a row, where a stray access ends the program or does not.
LEMMA InnerDescends ==
  ASSUME TargetInv, Left \in Measures(6), Left' \in Measures(6),
         Accumulate \/ Store
  PROVE  Descends(6, Left, Left')
<1>1. /\ pc = "rows" /\ pc' \in {"rows", "crashed"}
      /\ \/ k < size /\ k' = k + 1 /\ j' = j
         \/ j < size /\ j' = j + 1
      /\ size' = size /\ i' = i /\ iter' = iter /\ iterations' = iterations
  BY DEF Accumulate, Store, More, args
<1>2. size \in Int /\ j \in Int /\ k \in Int
  BY Options DEF TargetInv, TypeOK, Int32
<1>3. CASE pc' = "crashed"
  <2>1. Part' < Part
    BY <1>1, <1>3 DEF Part, Stopped
  <2> QED
    BY <2>1, LeftDescends
<1>4. CASE pc' = "rows"
  <2>1. Part' = Part /\ Stage' = Stage /\ Remaining(iterations - iter)' = Remaining(iterations - iter)
    BY <1>1, <1>4 DEF Part, Stage, Stopped
  <2>2. OuterLoop' = OuterLoop
    BY <1>1, <1>4 DEF OuterLoop
  <2>3. CASE k < size /\ k' = k + 1 /\ j' = j
    <3>1. InnerLoop(j)' = InnerLoop(j)
      BY <1>1, <1>4, <2>3 DEF InnerLoop
    <3>2. InnerLoop(k)' < InnerLoop(k)
      BY <1>1, <1>2, <1>4, <2>3, RemainingDescends DEF InnerLoop
    <3> QED
      BY <2>1, <2>2, <3>1, <3>2, LeftDescends
  <2>4. CASE j < size /\ j' = j + 1
    <3>1. InnerLoop(j)' < InnerLoop(j)
      BY <1>1, <1>2, <1>4, <2>4, RemainingDescends DEF InnerLoop
    <3> QED
      BY <2>1, <2>2, <3>1, LeftDescends
  <2> QED
    BY <1>1, <2>3, <2>4
<1> QED
  BY <1>1, <1>3, <1>4

\* The counting loops.
LEMMA CountDescends ==
  ASSUME TargetInv, Counting, Left \in Measures(6), Left' \in Measures(6), Count
  PROVE  Descends(6, Left, Left')
<1>1. /\ Goes /\ pc' = pc
      /\ up' = IF pc = "sub" THEN up ELSE (up + 1) % Wide
      /\ down' = IF pc \in {"sub", "meet"} THEN (down - 1) % Wide ELSE down
      /\ iter' = iter /\ iterations' = iterations
  BY DEF Count, args, loops
<1>2. /\ Half \in Nat \ {0} /\ Wide \in Nat /\ Full = 2 * Half /\ Full < Wide
      /\ up \in Nat /\ down \in Nat /\ down < Wide
  BY TargetAssumption DEF TargetInv, TypeOK, Full
<1>3. \A x \in Nat : x < Wide => x % Wide = x
  BY <1>2
<1>4. Part' = Part /\ Stage' = Stage /\ Remaining(iterations - iter)' = Remaining(iterations - iter)
  BY <1>1 DEF Part, Stage, Stopped
<1>5. OuterLoop' < OuterLoop
  <2>1. CASE pc = "sub"
    <3>1. down > 0 /\ (down - 1) % Wide = down - 1
      BY <1>1, <1>2, <1>3, <2>1 DEF Goes
    <3> QED
      BY <1>1, <1>2, <2>1, <3>1 DEF OuterLoop
  <2>2. CASE pc \in {"add", "mul", "meet"}
    <3>1. pc = "mul" => (2 * up) % Wide = 2 * up
      BY <1>2, <1>3 DEF Counting
    <3>2. up < Half
      BY <1>1, <1>2, <2>2, <3>1 DEF Goes, Counting, CountersMeet
    <3>3. (up + 1) % Wide = up + 1
      BY <1>2, <1>3, <3>2
    <3>4. Remaining(Half - (up + 1)) < Remaining(Half - up)
      BY <1>2, <3>2, RemainingDescends
    <3> QED
      BY <1>1, <2>2, <3>3, <3>4 DEF OuterLoop
  <2> QED
    BY <1>1, <2>1, <2>2 DEF Goes
<1> QED
  BY <1>4, <1>5, LeftDescends

LEMMA StepDescends ==
  ASSUME TargetInv, Counting, Left \in Measures(6), Left' \in Measures(6), Run
  PROVE  Descends(6, Left, Left')
<1>1. CASE EndRows
  <2>1. pc' \in {"iterate", "sleep"}
    BY <1>1 DEF EndRows
  <2> QED
    BY <1>1, <2>1, IterationDescends, StageDescends
<1>2. CASE Kernel
  BY <1>1, <1>2, PartDescends, StageDescends, OuterDescends, InnerDescends DEF Kernel
<1> QED
  BY <1>2, PartDescends, IterationDescends, StageDescends, CountDescends
  DEF Run, StandardCandle, NaiveMatMul

\* The counters of the last wait of StandardCandle meet, for every length of it
\* and every width that holds it.
THEOREM CountersNeverPass == Spec => []CountersMeet
<1>1. Counting => CountersMeet
  BY DEF Counting
<1> QED
  BY <1>1, CountingInvariant, PTL

\* For every size of a matrix and of an int, and every number of iterations,
\* each step leaves less to be done: with NoInfiniteDescent no run goes on for
\* ever.
THEOREM StepsGetOn == Spec => GetsOn
<1>1. /\ TargetInv /\ Counting /\ Left \in Measures(6) /\ (Left \in Measures(6))'
      /\ [Next]_vars
      => [Descends(6, Left, Left')]_vars
  <2> SUFFICES ASSUME TargetInv, Counting, Left \in Measures(6), Left' \in Measures(6),
                      Next, vars' # vars
               PROVE  Descends(6, Left, Left')
    OBVIOUS
  <2> QED
    BY StepDescends DEF Next
<1>2. Spec => [](TargetInv /\ Counting /\ Left \in Measures(6))
  BY TargetInvariant, CountingInvariant, LeftType, PTL
<1> QED
  BY <1>1, <1>2, PTL DEF Spec, GetsOn

=============================================================================
