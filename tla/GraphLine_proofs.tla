---------------------------- MODULE GraphLine_proofs --------------------------
(***************************************************************************)
(* Proofs about GraphLine for any files, coefficients and limits: types,   *)
(* the order of a line, the density of its sampling, and what the line and *)
(* its views are of the files.                                             *)
(*                                                                         *)
(* The sampling step depends on a sum over the views, a recursive function.*)
(* That it is a natural number needs induction: CountingUp gets it from    *)
(* the well-foundedness of strict inclusion, which the library states      *)
(* without an operator parameter.                                          *)
(***************************************************************************)
EXTENDS GraphLine, FiniteSetTheorems, TLAPS

-----------------------------------------------------------------------------
(* Induction, and sums.                                                    *)

LEMMA LeastElement ==
  ASSUME NEW N \in Nat, NEW T, T \subseteq 0 .. N, T # {}
  PROVE  \E x \in T : \A y \in T : x <= y
<1> DEFINE R == StrictSubsetOrdering(1 .. N)
           U == {1 .. x : x \in T}
<1>1. IsWellFoundedOn(R, SUBSET (1 .. N))
  <2>1. IsFiniteSet(1 .. N)
    BY FS_Interval
  <2> QED BY <2>1, FS_StrictSubsetOrderingWellFounded, FS_FiniteSubsetsOfFinite
<1>2. U \subseteq SUBSET (1 .. N) /\ U # {}
  <2>1. \A x \in T : 1 .. x \in U
    OBVIOUS
  <2>2. \A x \in T : 1 .. x \subseteq 1 .. N
    OBVIOUS
  <2> QED BY <2>1, <2>2
<1>3. PICK u \in U : \A v \in U : <<v, u>> \notin R
  <2> HIDE DEF R, U
  <2> QED BY <1>1, <1>2, WFMin
<1>4. PICK x \in T : u = 1 .. x
  OBVIOUS
<1>5. \A y \in T : ~ (y < x)
  <2> SUFFICES ASSUME NEW y \in T, y < x PROVE FALSE
    OBVIOUS
  <2>1. 1 .. y \subseteq 1 .. x /\ 1 .. y # 1 .. x
    <3>1. x \in 1 .. x /\ x \notin 1 .. y
      OBVIOUS
    <3> QED BY <3>1
  <2>2. <<1 .. y, 1 .. x>> \in R
    <3>1. 1 .. y \in SUBSET (1 .. N) /\ 1 .. x \in SUBSET (1 .. N)
      OBVIOUS
    <3> QED BY <2>1, <3>1 DEF StrictSubsetOrdering
  <2> QED BY <1>3, <1>4, <2>2
<1> QED BY <1>5

LEMMA CountingUp ==
  ASSUME NEW N \in Nat, NEW S, 0 \in S, \A n \in 0 .. N - 1 : n \in S => n + 1 \in S
  PROVE  0 .. N \subseteq S
<1> DEFINE T == (0 .. N) \ S
<1> SUFFICES ASSUME T # {} PROVE FALSE
  OBVIOUS
<1>1. PICK x \in T : \A y \in T : x <= y
  <2>1. T \subseteq 0 .. N
    OBVIOUS
  <2> HIDE DEF T
  <2> QED BY <2>1, LeastElement
<1>2. x # 0 /\ x \in 0 .. N /\ x \notin S
  OBVIOUS
<1>3. x - 1 \in 0 .. N - 1 /\ ~ (x <= x - 1)
  BY <1>2
<1>4. x - 1 \in S
  BY <1>1, <1>3
<1>5. x - 1 + 1 \in S /\ x - 1 + 1 = x
  BY <1>2, <1>3, <1>4
<1> QED BY <1>2, <1>5

LEMMA SumExists ==
  ASSUME NEW size \in Seq(Nat)
  PROVE  \E f \in [0 .. Len(size) -> Nat] :
           \A n \in 0 .. Len(size) : f[n] = IF n = 0 THEN 0 ELSE f[n - 1] + size[n]
<1> DEFINE Sums(m) == \E f \in [0 .. m -> Nat] :
                        \A n \in 0 .. m : f[n] = IF n = 0 THEN 0 ELSE f[n - 1] + size[n]
           S == {m \in 0 .. Len(size) : Sums(m)}
<1>1. Sums(0)
  <2> DEFINE f == [n \in 0 .. 0 |-> 0]
  <2>1. f \in [0 .. 0 -> Nat] /\ \A n \in 0 .. 0 : n = 0 /\ f[n] = 0
    OBVIOUS
  <2> HIDE DEF f
  <2> QED BY <2>1
<1>2. ASSUME NEW m \in 0 .. Len(size) - 1, Sums(m) PROVE Sums(m + 1)
  <2>1. PICK f \in [0 .. m -> Nat] :
               \A n \in 0 .. m : f[n] = IF n = 0 THEN 0 ELSE f[n - 1] + size[n]
    BY <1>2
  <2> DEFINE g == [n \in 0 .. m + 1 |-> IF n = m + 1 THEN f[m] + size[m + 1] ELSE f[n]]
  <2>2. f[m] + size[m + 1] \in Nat
    BY <2>1, m + 1 \in DOMAIN size, m \in 0 .. m
  <2>3. g \in [0 .. m + 1 -> Nat]
    BY <2>2
  <2>4. \A n \in 0 .. m + 1 : g[n] = IF n = 0 THEN 0 ELSE g[n - 1] + size[n]
    <3>1. g[m + 1] = f[m] + size[m + 1] /\ \A n \in 0 .. m : g[n] = f[n]
      OBVIOUS
    <3>2. \A n \in 0 .. m : n # 0 => n - 1 \in 0 .. m
      OBVIOUS
    <3>3. m + 1 - 1 = m /\ m + 1 # 0 /\ m \in 0 .. m
      OBVIOUS
    <3>4. \A n \in 0 .. m + 1 : n \in 0 .. m \/ n = m + 1
      OBVIOUS
    <3> HIDE DEF g
    <3> QED BY <2>1, <3>1, <3>2, <3>3, <3>4, SMTT(30)
  <2> QED BY <2>3, <2>4
<1>3. Len(size) \in Nat /\ Len(size) \in 0 .. Len(size) /\ 0 \in 0 .. Len(size)
  OBVIOUS
<1>4. \A n \in 0 .. Len(size) - 1 : n \in S => n + 1 \in S
  <2> HIDE DEF Sums
  <2>1. \A n \in 0 .. Len(size) - 1 : n + 1 \in 0 .. Len(size)
    OBVIOUS
  <2> QED BY <1>2, <2>1
<1>5. 0 \in S
  BY <1>1, <1>3
<1>6. Len(size) \in S
  <2> HIDE DEF S
  <2>1. 0 .. Len(size) \subseteq S
    BY <1>3, <1>4, <1>5, CountingUp
  <2> QED BY <1>3, <2>1
<1> QED BY <1>6

(* What GetData may return: a range of a file's points.                    *)
ViewOK(v) ==
  /\ v.file \in DOMAIN files
  /\ v.lower \in 1 .. Len(files[v.file]) + 1 /\ v.upper \in 1 .. Len(files[v.file]) + 1
  /\ v.lower <= v.upper

LEMMA SizesSumUp ==
  ASSUME views \in Seq(FileView), \A n \in DOMAIN views : Size(views[n]) \in Nat
  PROVE  Total \in Nat
<1> DEFINE size == [n \in 1 .. Len(views) |-> Size(views[n])]
           F(f) == [n \in 0 .. Len(views) |-> IF n = 0 THEN 0 ELSE f[n - 1] + Size(views[n])]
           sum == CHOOSE f : f = F(f)
           S == {n \in 0 .. Len(views) : sum[n] \in Nat}
<1>1. size \in Seq(Nat) /\ Len(size) = Len(views) /\ Len(views) \in Nat
  OBVIOUS
<1>2. PICK g \in [0 .. Len(size) -> Nat] :
             \A n \in 0 .. Len(size) : g[n] = IF n = 0 THEN 0 ELSE g[n - 1] + size[n]
  <2> HIDE DEF size
  <2> QED BY <1>1, SumExists
<1>3. g = F(g)
  <2>1. \A n \in 0 .. Len(views) : n # 0 => n \in 1 .. Len(views)
    BY <1>1
  <2>2. \A n \in 1 .. Len(views) : size[n] = Size(views[n])
    OBVIOUS
  <2> HIDE DEF size
  <2> QED BY <1>1, <1>2, <2>1, <2>2
<1>4. sum = F(sum)
  <2> HIDE DEF F
  <2> QED BY <1>3
<1>5. Total = sum[Len(views)]
  BY DEF Total
<1>6. \A n \in 0 .. Len(views) : sum[n] = IF n = 0 THEN 0 ELSE sum[n - 1] + Size(views[n])
  <2> HIDE DEF sum
  <2> QED BY <1>4
<1> HIDE DEF sum
<1>7. 0 \in S
  BY <1>1, <1>6
<1>8. ASSUME NEW n \in 0 .. Len(views) - 1, n \in S PROVE n + 1 \in S
  <2>1. n + 1 \in 0 .. Len(views) /\ n + 1 # 0 /\ n + 1 - 1 = n /\ n + 1 \in DOMAIN views
    BY <1>1
  <2>2. sum[n + 1] = sum[n] + Size(views[n + 1])
    BY <2>1, <1>6
  <2>3. sum[n] \in Nat /\ Size(views[n + 1]) \in Nat
    BY <2>1, <1>8
  <2> QED BY <2>1, <2>2, <2>3
<1>9. 0 .. Len(views) \subseteq S
  <2> HIDE DEF S
  <2> QED BY <1>1, <1>7, <1>8, CountingUp
<1> QED BY <1>1, <1>5, <1>9

-----------------------------------------------------------------------------
(* Arithmetic, and GatherElement.                                          *)

LEMMA Quotient ==
  ASSUME NEW a \in Nat, NEW b \in Nat \ {0}
  PROVE  a \div b \in Nat /\ b * (a \div b) <= a /\ a < b * (a \div b) + b
  OBVIOUS

LEMMA ProductMonotone ==
  ASSUME NEW a \in Nat, NEW b \in Nat, NEW c \in Nat, a <= b
  PROVE  a * c \in Nat /\ b * c \in Nat /\ a * c <= b * c
  OBVIOUS

LEMMA QuotientMonotone ==
  ASSUME NEW a \in Nat, NEW b \in Nat, NEW c \in Nat \ {0}, a <= b
  PROVE  a \div c <= b \div c
<1> DEFINE p == a \div c
           q == b \div c
<1>1. p \in Nat /\ q \in Nat /\ c * p <= a /\ b < c * q + c
  BY Quotient
<1> HIDE DEF p, q
<1>2. ASSUME q + 1 <= p PROVE FALSE
  <2>1. (q + 1) * c <= p * c
    BY <1>1, <1>2, ProductMonotone
  <2> QED BY <1>1, <2>1
<1>3. p <= q
  BY <1>1, <1>2
<1> QED BY <1>3 DEF p, q

LEMMA Gathers ==
  ASSUME NEW size \in Nat, NEW step \in Nat \ {0}
  PROVE  /\ GatherElement(size, step) \in Seq(Nat)
         /\ \A n \in DOMAIN GatherElement(size, step) : GatherElement(size, step)[n] < size
         /\ \A m, n \in DOMAIN GatherElement(size, step) :
              m < n => GatherElement(size, step)[m] <= GatherElement(size, step)[n]
<1> DEFINE q == (size + step - 1) \div step
           s == [n \in 1 .. q |-> (n - 1) * step]
           e == IF size % step = 0 THEN <<>> ELSE <<size - 1>>
<1>1. q \in Nat /\ step * q <= size + step - 1
  BY Quotient, size + step - 1 \in Nat
<1> HIDE DEF q
<1>2. \A n \in 1 .. q : (n - 1) * step \in Nat /\ (n - 1) * step < size
  <2> SUFFICES ASSUME NEW n \in 1 .. q PROVE (n - 1) * step \in Nat /\ (n - 1) * step < size
    OBVIOUS
  <2>1. n \in Nat /\ n - 1 \in Nat /\ n <= q
    BY <1>1
  <2>2. n * step <= q * step /\ (n - 1) * step \in Nat
    BY <1>1, <2>1, ProductMonotone
  <2>3. n * step = (n - 1) * step + step
    BY <2>1
  <2> QED BY <1>1, <2>1, <2>2, <2>3
<1>3. \A m, n \in 1 .. q : m < n => (m - 1) * step <= (n - 1) * step
  <2> SUFFICES ASSUME NEW m \in 1 .. q, NEW n \in 1 .. q, m < n
               PROVE  (m - 1) * step <= (n - 1) * step
    OBVIOUS
  <2>1. m - 1 \in Nat /\ n - 1 \in Nat /\ m - 1 <= n - 1
    BY <1>1
  <2> QED BY <2>1, ProductMonotone
<1>4. s \in Seq(Nat) /\ Len(s) = q /\ \A n \in 1 .. q : s[n] = (n - 1) * step
  BY <1>1, <1>2
<1>5. CASE size % step = 0
  <2>1. GatherElement(size, step) = s
    BY <1>4, <1>5 DEF GatherElement, q
  <2> HIDE DEF s
  <2> QED BY <1>2, <1>3, <1>4, <2>1
<1>6. CASE size % step # 0
  <2>1. size # 0
    BY <1>6
  <2>2. GatherElement(size, step) = s \o <<size - 1>>
    BY <1>6 DEF GatherElement, q
  <2> HIDE DEF s
  <2>3. /\ s \o <<size - 1>> \in Seq(Nat) /\ Len(s \o <<size - 1>>) = q + 1
        /\ \A n \in 1 .. q : (s \o <<size - 1>>)[n] = (n - 1) * step
        /\ (s \o <<size - 1>>)[q + 1] = size - 1
    BY <1>1, <1>4, <2>1
  <2>4. DOMAIN GatherElement(size, step) = 1 .. q + 1
    BY <2>2, <2>3
  <2>5. \A n \in 1 .. q + 1 : n \in 1 .. q \/ n = q + 1
    BY <1>1
  <2>6. \A m \in 1 .. q : (m - 1) * step <= size - 1
    BY <1>2
  <2> DEFINE all == s \o <<size - 1>>
  <2> HIDE DEF all
  <2>7. all \in Seq(Nat) /\ DOMAIN all = 1 .. q + 1 /\ \A n \in 1 .. q : all[n] = (n - 1) * step
    BY <2>2, <2>3, <2>4 DEF all
  <2>8. all[q + 1] = size - 1
    BY <2>3 DEF all
  <2>9. \A n \in DOMAIN all : all[n] < size
    BY <1>2, <2>1, <2>5, <2>7, <2>8
  <2>10. ASSUME NEW m \in DOMAIN all, NEW n \in DOMAIN all, m < n PROVE all[m] <= all[n]
    <3>1. m \in 1 .. q
      BY <1>1, <2>7, <2>10
    <3>2. CASE n \in 1 .. q
      BY <1>3, <2>7, <2>10, <3>1, <3>2
    <3>3. CASE n = q + 1
      BY <2>6, <2>7, <2>8, <3>1, <3>3
    <3> QED BY <2>5, <2>7, <3>2, <3>3
  <2>11. GatherElement(size, step) = all
    BY <2>2 DEF all
  <2> QED BY <2>7, <2>9, <2>10, <2>11
<1> QED BY <1>5, <1>6

LEMMA StepIsPositive ==
  ASSUME GraphLineConstantsOK, Total \in Nat
  PROVE  Step \in Nat \ {0}
<1>1. Total \div MaxDataCount \in Nat
  BY Quotient DEF GraphLineConstantsOK
<1> QED BY <1>1 DEF Step

-----------------------------------------------------------------------------
(* The views.                                                              *)

(* Nothing is sampled or added before its time, and what is sampled is in  *)
(* order.                                                                  *)
Undrawn ==
  /\ pc = "getData" => sampled = <<>>
  /\ pc \in {"getData", "sample"} => added = 0

SampledInOrder ==
  \A n \in DOMAIN sampled : \A j, k \in DOMAIN sampled[n] :
    j < k => sampled[n][j] <= sampled[n][k]

LineInv == TypeOK /\ left <= right /\ Undrawn /\ SampledInOrder /\ LineAscending

LEMMA FilesAreOK ==
  ASSUME GraphLineConstantsOK, TypeOK, NEW f \in DOMAIN files
  PROVE  /\ files[f] \in Seq(Nat) /\ Len(files[f]) \in Nat \ {0}
         /\ DOMAIN files[f] = 1 .. Len(files[f])
         /\ \A m, n \in DOMAIN files[f] : m <= n => files[f][m] <= files[f][n]
         /\ FirstStep(f) \in Nat /\ LastStep(f) \in Nat /\ FirstStep(f) <= LastStep(f)
         /\ f \in Nat /\ cof[f] \in Nat \ {0} /\ CofUnit \in Nat \ {0}
<1>1. files[f] \in FileData /\ f \in Nat /\ cof[f] \in Nat \ {0}
  BY DEF TypeOK
<1>2. files[f] \in Seq(Nat) /\ files[f] # <<>> /\ Ascending(files[f])
  BY <1>1 DEF GraphLineConstantsOK
<1>3. Len(files[f]) \in Nat \ {0} /\ DOMAIN files[f] = 1 .. Len(files[f])
  BY <1>2
<1>4. \A n \in DOMAIN files[f] : files[f][n] \in Nat
  BY <1>2
<1>5. \A m, n \in DOMAIN files[f] : m <= n => files[f][m] <= files[f][n]
  BY <1>2, <1>3, <1>4 DEF Ascending
<1>6. FirstStep(f) \in Nat /\ LastStep(f) \in Nat /\ FirstStep(f) <= LastStep(f)
  BY <1>3, <1>4, <1>5 DEF FirstStep, LastStep
<1> QED BY <1>1, <1>2, <1>3, <1>5, <1>6 DEF GraphLineConstantsOK

LEMMA ViewsAreOK ==
  ASSUME GraphLineConstantsOK, TypeOK, left <= right, NEW v \in AllViews
  PROVE  v \in FileView /\ ViewOK(v)
<1>1. PICK f \in DOMAIN files : v \in FileViews(f)
  BY DEF AllViews
<1>2. PICK range \in GetIntersectionRange(f) :
        \E b \in GetBoundary(f, range[1], range[2]) : v = [file |-> f, lower |-> b[1], upper |-> b[2]]
  BY <1>1 DEF FileViews
<1>3. PICK b \in GetBoundary(f, range[1], range[2]) : v = [file |-> f, lower |-> b[1], upper |-> b[2]]
  BY <1>2
<1>files. /\ Len(files[f]) \in Nat \ {0} /\ DOMAIN files[f] = 1 .. Len(files[f])
          /\ f \in Nat /\ cof[f] \in Nat \ {0} /\ CofUnit \in Nat \ {0}
  BY FilesAreOK
<1>steps. \A n \in DOMAIN files[f] : files[f][n] \in Nat
  BY FilesAreOK
<1>4. range[1] \in Nat /\ range[2] \in Nat /\ range[1] <= range[2]
  <2>1. LeftStep(f) \in Nat /\ RightStep(f) \in Nat /\ LeftStep(f) <= RightStep(f)
    <3> DEFINE a == left * CofUnit
               b2 == right * CofUnit + cof[f] - 1
    <3>1. a \in Nat /\ b2 \in Nat /\ a <= b2
      <4>1. left \in Nat /\ right \in Nat
        BY DEF TypeOK
      <4> DEFINE r == right * CofUnit
      <4>2. a \in Nat /\ r \in Nat /\ a <= r
        BY <4>1, <1>files, ProductMonotone
      <4>3. cof[f] \in Nat \ {0}
        BY <1>files
      <4>4. b2 = r + cof[f] - 1
        OBVIOUS
      <4> HIDE DEF a, b2, r
      <4> QED BY ONLY <4>2, <4>3, <4>4
    <3> HIDE DEF a, b2
    <3>2. a \div cof[f] \in Nat /\ b2 \div cof[f] \in Nat /\ a \div cof[f] <= b2 \div cof[f]
      BY <1>files, <3>1, Quotient, QuotientMonotone
    <3> QED BY <3>2 DEF a, b2, LeftStep, RightStep
  <2> QED BY <1>2, <2>1, FilesAreOK DEF GetIntersectionRange
<1>5. /\ b[1] \in 1 .. Len(files[f]) + 1 /\ b[2] \in 1 .. Len(files[f]) + 1
      /\ \A n \in DOMAIN files[f] : (files[f][n] < range[1] <=> n < b[1]) /\ (files[f][n] <= range[2] <=> n < b[2])
  BY DEF GetBoundary
<1>6. b[1] <= b[2]
  <2> DEFINE len == Len(files[f])
  <2>1. len \in Nat \ {0} /\ b[1] \in 1 .. len + 1 /\ b[2] \in 1 .. len + 1
    BY <1>5, <1>files
  <2> SUFFICES ASSUME b[2] < b[1] PROVE FALSE
    BY <2>1
  <2>3. b[2] \in 1 .. len
    <3> HIDE DEF len
    <3> QED BY ONLY <2>1, b[2] < b[1]
  <2>4. b[2] \in DOMAIN files[f] /\ files[f][b[2]] \in Nat
    BY <1>files, <1>steps, <2>3
  <2>2. files[f][b[2]] < range[1] /\ ~ (files[f][b[2]] <= range[2])
    <3>1. b[2] < b[1] /\ ~ (b[2] < b[2])
      BY <2>1
    <3> QED BY <1>5, <2>4, <3>1
  <2> QED BY <1>4, <2>4, <2>2
<1>7. f \in Nat /\ Len(files[f]) \in Nat
  BY <1>files
<1> QED BY <1>3, <1>5, <1>6, <1>7 DEF FileView, ViewOK

LEMMA ViewsAreFinite ==
  ASSUME GraphLineConstantsOK, TypeOK
  PROVE  IsFiniteSet(AllViews) /\ Cardinality(AllViews) \in Nat
<1>1. ASSUME NEW f \in DOMAIN files, NEW l, NEW r
      PROVE  IsFiniteSet({[file |-> f, lower |-> b[1], upper |-> b[2]] : b \in GetBoundary(f, l, r)})
  <2> DEFINE B == GetBoundary(f, l, r)
             V == {[file |-> f, lower |-> b[1], upper |-> b[2]] : b \in B}
             g == [b \in B |-> [file |-> f, lower |-> b[1], upper |-> b[2]]]
             I == 1 .. Len(files[f]) + 1
  <2>1. IsFiniteSet(I \X I)
    <3>1. IsFiniteSet(I)
      BY FilesAreOK, FS_Interval
    <3> HIDE DEF I
    <3> QED BY <3>1, FS_Product
  <2>2. IsFiniteSet(B)
    <3>1. B \in SUBSET (I \X I)
      BY DEF GetBoundary
    <3> HIDE DEF B, I
    <3> QED BY <2>1, <3>1, FS_Subset
  <2>3. g \in Surjection(B, V)
    <3> HIDE DEF B
    <3> QED BY DEF Surjection
  <2> HIDE DEF B, V, g
  <2>4. IsFiniteSet(V)
    BY <2>2, <2>3, FS_Surjection
  <2> QED BY <2>4 DEF V, B
<1>2. ASSUME NEW f \in DOMAIN files PROVE IsFiniteSet(FileViews(f))
  <2>1. CASE GetIntersectionRange(f) = {}
    <3>1. FileViews(f) = {}
      BY <2>1 DEF FileViews
    <3> QED BY <3>1, FS_EmptySet
  <2>2. CASE GetIntersectionRange(f) # {}
    <3>1. PICK range : GetIntersectionRange(f) = {range}
      BY <2>2 DEF GetIntersectionRange
    <3>2. FileViews(f) = {[file |-> f, lower |-> b[1], upper |-> b[2]] : b \in GetBoundary(f, range[1], range[2])}
      BY <3>1 DEF FileViews
    <3> DEFINE l == range[1]
               r == range[2]
    <3> HIDE DEF l, r
    <3>3. IsFiniteSet({[file |-> f, lower |-> b[1], upper |-> b[2]] : b \in GetBoundary(f, l, r)})
      BY <1>1
    <3> QED BY <3>2, <3>3 DEF l, r
  <2> QED BY <2>1, <2>2
<1>3. IsFiniteSet(AllViews)
  <2> DEFINE D == DOMAIN files
             W == {FileViews(f) : f \in D}
             g == [f \in D |-> FileViews(f)]
  <2>1. IsFiniteSet(D)
    <3>1. D = 1 .. Len(files) /\ Len(files) \in Nat
      BY DEF TypeOK
    <3> HIDE DEF D
    <3> QED BY <3>1, FS_Interval
  <2>2. g \in Surjection(D, W)
    BY DEF Surjection
  <2>3. \A x \in W : IsFiniteSet(x)
    BY <1>2
  <2>4. AllViews = UNION W
    BY DEF AllViews
  <2> HIDE DEF D, W, g
  <2>5. IsFiniteSet(W)
    BY <2>1, <2>2, FS_Surjection
  <2> QED BY <2>3, <2>4, <2>5, FS_UNION
<1> QED BY <1>3, FS_CardinalityType

-----------------------------------------------------------------------------
(* The invariant, one lemma for each step.                                 *)

LEMMA InitLine == ASSUME GraphLineConstantsOK, Init PROVE LineInv
<1>1. PICK n \in 1 .. MaxFiles :
        /\ files \in [1 .. n -> FileData]
        /\ token \in BOOLEAN
        /\ cof \in IF token THEN [1 .. n -> Cofs] ELSE {[f \in 1 .. n |-> CofUnit]}
  BY DEF Init
<1>2. n \in Nat /\ n <= MaxFiles
  BY DEF GraphLineConstantsOK
<1>3. files \in Seq(FileData) /\ Len(files) = n /\ DOMAIN files = 1 .. n
  BY <1>1, <1>2
<1>4. cof \in [1 .. n -> Nat \ {0}]
  BY <1>1 DEF GraphLineConstantsOK
<1>5. left \in Nat /\ right \in Nat /\ left <= right
  BY DEF Init, GraphLineConstantsOK
<1>6. views = <<>> /\ sampled = <<>> /\ added = 0 /\ line = <<>> /\ pc = "getData"
  BY DEF Init
<1>7. TypeOK
  BY <1>1, <1>2, <1>3, <1>4, <1>5, <1>6 DEF TypeOK
<1>8. Undrawn /\ SampledInOrder /\ LineAscending
  BY <1>6 DEF Undrawn, SampledInOrder, LineAscending
<1> QED BY <1>5, <1>7, <1>8 DEF LineInv

LEMMA GetDataKeepsLine == ASSUME GraphLineConstantsOK, LineInv, GetData PROVE LineInv'
<1>1. views' \in [1 .. Cardinality(AllViews) -> AllViews]
  BY DEF GetData
<1>2. \A v \in AllViews : v \in FileView /\ ViewOK(v)
  BY ViewsAreOK DEF LineInv
<1>3. views' \in Seq(FileView) /\ Len(views') \in Nat /\ \A n \in DOMAIN views' : ViewOK(views'[n])
  BY <1>1, <1>2, ViewsAreFinite DEF LineInv
<1>4. /\ UNCHANGED <<files, token, cof, left, right, sampled, added, line>>
      /\ pc = "getData" /\ pc' = "sample" /\ sampled = <<>> /\ added = 0
  BY DEF GetData, LineInv, Undrawn
<1>5. TypeOK'
  <2>1. files \in Seq(FileData) /\ \A n \in DOMAIN views' : ViewOK(views'[n])
    BY <1>3 DEF LineInv, TypeOK
  <2>2. \A n \in DOMAIN views' :
          /\ views'[n].file \in DOMAIN files
          /\ 1 <= views'[n].lower /\ views'[n].lower <= views'[n].upper
          /\ views'[n].upper <= Len(files[views'[n].file]) + 1
    BY <2>1, FilesAreOK DEF ViewOK, LineInv
  <2> QED BY <1>3, <1>4, <2>2 DEF LineInv, TypeOK
<1>6. (left <= right)' /\ Undrawn' /\ SampledInOrder' /\ LineAscending'
  BY <1>4 DEF LineInv, Undrawn, SampledInOrder, LineAscending
<1> QED BY <1>5, <1>6 DEF LineInv

LEMMA SizesAreOK ==
  ASSUME TypeOK
  PROVE  /\ \A n \in DOMAIN views : Size(views[n]) \in Nat
         /\ Total \in Nat
<1>1. \A n \in DOMAIN views : Size(views[n]) \in Nat
  <2> SUFFICES ASSUME NEW n \in DOMAIN views PROVE Size(views[n]) \in Nat
    OBVIOUS
  <2>1. views[n] \in FileView /\ views[n].lower <= views[n].upper
    BY DEF TypeOK
  <2> QED BY <2>1 DEF Size, FileView
<1>2. views \in Seq(FileView)
  BY DEF TypeOK
<1> QED BY <1>1, <1>2, SizesSumUp

LEMMA SampleKeepsLine == ASSUME GraphLineConstantsOK, LineInv, Sample PROVE LineInv'
<1>1. /\ sampled' = [n \in DOMAIN views |-> GatherElement(Size(views[n]), Step)]
      /\ UNCHANGED <<files, token, cof, left, right, views, added, line>>
      /\ pc = "sample" /\ pc' = "add"
  BY DEF Sample
<1>2. Step \in Nat \ {0} /\ \A n \in DOMAIN views : Size(views[n]) \in Nat
  BY SizesAreOK, StepIsPositive DEF LineInv
<1>3. \A n \in DOMAIN views :
        /\ sampled'[n] \in Seq(Nat)
        /\ \A k \in DOMAIN sampled'[n] : sampled'[n][k] < Size(views[n])
        /\ \A j, k \in DOMAIN sampled'[n] : j < k => sampled'[n][j] <= sampled'[n][k]
  BY <1>1, <1>2, Gathers
<1>4. DOMAIN sampled' = DOMAIN views /\ DOMAIN views = 1 .. Len(views) /\ Len(views) \in Nat
  BY <1>1 DEF LineInv, TypeOK
<1>5. sampled' \in Seq(Seq(Nat))
  BY <1>1, <1>3, <1>4
<1>7. TypeOK'
  <2>1. \A n \in DOMAIN sampled' : \A k \in DOMAIN sampled'[n] : sampled'[n][k] < Size(views'[n])
    BY <1>1, <1>3, <1>4
  <2> QED BY <1>1, <1>4, <1>5, <2>1 DEF LineInv, TypeOK, Size
<1>8. (left <= right)' /\ Undrawn' /\ LineAscending'
  BY <1>1 DEF LineInv, Undrawn, LineAscending
<1>9. SampledInOrder'
  BY <1>3, <1>4 DEF SampledInOrder
<1> QED BY <1>7, <1>8, <1>9 DEF LineInv

LEMMA PointsAreOK ==
  ASSUME GraphLineConstantsOK, LineInv, pc = "add", NEW n \in DOMAIN views
  PROVE  /\ Points(n) \in Seq([file : Nat, step : Nat])
         /\ \A j, k \in DOMAIN Points(n) : j < k => Points(n)[j].step <= Points(n)[k].step
<1> DEFINE f == views[n].file
           s == sampled[n]
<1>1. /\ s \in Seq(Nat) /\ views[n] \in FileView
      /\ \A k \in DOMAIN s : s[k] < Size(views[n])
      /\ \A j, k \in DOMAIN s : j < k => s[j] <= s[k]
      /\ f \in DOMAIN files /\ 1 <= views[n].lower
      /\ views[n].upper <= Len(files[f]) + 1
  BY SMTT(30) DEF LineInv, TypeOK, SampledInOrder
<1>2. TypeOK
  BY DEF LineInv
<1>3. \A k \in DOMAIN s : s[k] \in Nat /\ views[n].lower + s[k] \in DOMAIN files[f]
  <2> SUFFICES ASSUME NEW k \in DOMAIN s
               PROVE  s[k] \in Nat /\ views[n].lower + s[k] \in DOMAIN files[f]
    OBVIOUS
  <2>1. s[k] \in Nat /\ s[k] < views[n].upper - views[n].lower
    BY <1>1 DEF Size
  <2>2. views[n].lower \in Nat /\ views[n].upper \in Nat
    BY <1>1 DEF FileView
  <2>3. DOMAIN files[f] = 1 .. Len(files[f]) /\ Len(files[f]) \in Nat
    BY <1>1, <1>2, FilesAreOK
  <2> QED BY <1>1, <2>1, <2>2, <2>3, SMTT(30)
<1> DEFINE at(k) == files[f][views[n].lower + s[k]]
<1>4. \A k \in DOMAIN s : at(k) \in Nat
  <2>1. files[f] \in Seq(Nat)
    BY <1>1, <1>2, FilesAreOK
  <2> QED BY <1>3, <2>1
<1>5. \A j, k \in DOMAIN s : j < k => at(j) <= at(k)
  <2> SUFFICES ASSUME NEW j \in DOMAIN s, NEW k \in DOMAIN s, j < k PROVE at(j) <= at(k)
    OBVIOUS
  <2>1. views[n].lower + s[j] <= views[n].lower + s[k]
    <3>1. s[j] <= s[k] /\ s[j] \in Nat /\ s[k] \in Nat /\ views[n].lower \in Nat
      BY <1>1, <1>3 DEF FileView
    <3> QED BY <3>1
  <2> QED BY <1>1, <1>2, <1>3, <2>1, FilesAreOK
<1>6. cof[f] \in Nat \ {0} /\ CofUnit \in Nat \ {0} /\ f \in Nat
  BY <1>1, <1>2, FilesAreOK
<1> HIDE DEF at, s, f
<1>7. \A k \in DOMAIN s : TokenStep(f, at(k)) \in Nat
  <2> SUFFICES ASSUME NEW k \in DOMAIN s PROVE TokenStep(f, at(k)) \in Nat
    OBVIOUS
  <2>1. at(k) * cof[f] \in Nat
    BY <1>4, <1>6
  <2>2. (at(k) * cof[f]) \div CofUnit \in Nat
    BY <1>6, <2>1, Quotient
  <2> QED BY <1>4, <2>2 DEF TokenStep
<1>8. \A j, k \in DOMAIN s : j < k => TokenStep(f, at(j)) <= TokenStep(f, at(k))
  <2> SUFFICES ASSUME NEW j \in DOMAIN s, NEW k \in DOMAIN s, j < k
               PROVE  TokenStep(f, at(j)) <= TokenStep(f, at(k))
    OBVIOUS
  <2>1. at(j) \in Nat /\ at(k) \in Nat /\ at(j) <= at(k)
    BY <1>4, <1>5
  <2>2. at(j) * cof[f] \in Nat /\ at(k) * cof[f] \in Nat /\ at(j) * cof[f] <= at(k) * cof[f]
    BY <1>6, <2>1, ProductMonotone
  <2>3. (at(j) * cof[f]) \div CofUnit <= (at(k) * cof[f]) \div CofUnit
    BY <1>6, <2>2, QuotientMonotone
  <2> QED BY <2>1, <2>3 DEF TokenStep
<1>9. Points(n) = [k \in DOMAIN s |-> [file |-> f, step |-> TokenStep(f, at(k))]]
  BY DEF Points, Point, s, f, at
<1>10. Points(n) \in [DOMAIN s -> [file : Nat, step : Nat]]
  BY <1>6, <1>7, <1>9
<1>11. DOMAIN s = 1 .. Len(s) /\ Len(s) \in Nat
  BY <1>1
<1> QED BY <1>8, <1>9, <1>10, <1>11

LEMMA Joining ==
  ASSUME NEW S, NEW s \in Seq(S), NEW t \in Seq(S), NEW k \in 0 .. Len(s)
  PROVE  /\ SubSeq(s, 1, k) \o t \in Seq(S)
         /\ DOMAIN (SubSeq(s, 1, k) \o t) = 1 .. k + Len(t)
         /\ \A n \in 1 .. k : n \in DOMAIN s /\ (SubSeq(s, 1, k) \o t)[n] = s[n]
         /\ \A n \in k + 1 .. k + Len(t) : n - k \in DOMAIN t /\ (SubSeq(s, 1, k) \o t)[n] = t[n - k]
<1>1. SubSeq(s, 1, k) \in Seq(S) /\ Len(SubSeq(s, 1, k)) = k /\ \A n \in 1 .. k : n \in DOMAIN s /\ SubSeq(s, 1, k)[n] = s[n]
  OBVIOUS
<1> DEFINE r == SubSeq(s, 1, k)
<1> HIDE DEF r
<1>2. r \in Seq(S) /\ Len(r) = k /\ \A n \in 1 .. k : n \in DOMAIN s /\ r[n] = s[n]
  BY <1>1 DEF r
<1>3. /\ r \o t \in Seq(S)
      /\ DOMAIN (r \o t) = 1 .. k + Len(t)
      /\ \A n \in 1 .. k : (r \o t)[n] = r[n]
      /\ \A n \in k + 1 .. k + Len(t) : n - k \in DOMAIN t /\ (r \o t)[n] = t[n - k]
  BY <1>2, SMTT(30)
<1> QED BY <1>2, <1>3 DEF r

LEMMA AddKeepsLine == ASSUME GraphLineConstantsOK, LineInv, AddLineData PROVE LineInv'
<1> DEFINE P == [file : Nat, step : Nat]
           pts == Points(added + 1)
<1>1. /\ UNCHANGED <<files, token, cof, left, right, views, sampled, pc>>
      /\ pc = "add" /\ added' = added + 1 /\ added < Len(views)
  BY DEF AddLineData
<1>2. added \in Nat /\ Len(views) \in Nat /\ added + 1 \in DOMAIN views /\ line \in Seq(P)
  BY <1>1 DEF LineInv, TypeOK
<1>3. pts \in Seq(P) /\ \A j, k \in DOMAIN pts : j < k => pts[j].step <= pts[k].step
  BY <1>1, <1>2, PointsAreOK
<1> HIDE DEF pts
<1>4. line' \in Seq(P) /\ LineAscending'
  <2>1. CASE pts = <<>>
    <3>1. line' = line
      BY <2>1 DEF AddLineData, pts
    <3> QED BY <1>2, <3>1 DEF LineInv, LineAscending
  <2>2. CASE pts # <<>>
    <3>1. PICK k \in KeptBefore(pts[1].step) : line' = SubSeq(line, 1, k) \o pts
      BY <2>2 DEF AddLineData, pts
    <3>2. k \in 0 .. Len(line) /\ \A n \in DOMAIN line : line[n].step < pts[1].step <=> n <= k
      BY DEF KeptBefore
    <3>3. /\ line' \in Seq(P) /\ DOMAIN line' = 1 .. k + Len(pts)
          /\ \A n \in 1 .. k : n \in DOMAIN line /\ line'[n] = line[n]
          /\ \A n \in k + 1 .. k + Len(pts) : n - k \in DOMAIN pts /\ line'[n] = pts[n - k]
      <4> HIDE DEF P
      <4> QED BY <1>2, <1>3, <3>1, <3>2, Joining
    <3>4. Len(pts) \in Nat /\ k \in Nat /\ DOMAIN pts = 1 .. Len(pts) /\ 1 \in DOMAIN pts
      <4> HIDE DEF P
      <4> QED BY <1>2, <1>3, <2>2, <3>2
    <3>5. (\A n \in DOMAIN line : line[n].step \in Nat) /\ (\A n \in DOMAIN pts : pts[n].step \in Nat)
      <4>1. (\A n \in DOMAIN line : line[n] \in P) /\ (\A n \in DOMAIN pts : pts[n] \in P)
        <5> HIDE DEF P
        <5> QED BY <1>2, <1>3
      <4> QED BY <4>1
    <3>6. ASSUME NEW m \in DOMAIN line', NEW n \in DOMAIN line', m < n
          PROVE  line'[m].step <= line'[n].step
      <4>0. m \in Nat /\ n \in Nat /\ 1 <= m /\ n <= k + Len(pts)
        BY <3>3, <3>4
      <4>1. CASE n \in 1 .. k
        <5>1. m \in 1 .. k
          BY <3>4, <3>6, <4>0, <4>1
        <5> QED BY <3>3, <3>6, <4>1, <5>1 DEF LineInv, LineAscending
      <4>2. CASE m \in 1 .. k /\ n \in k + 1 .. k + Len(pts)
        <5>1. line'[m] = line[m] /\ m \in DOMAIN line /\ m <= k /\ line'[n] = pts[n - k] /\ n - k \in DOMAIN pts
          BY <3>3, <4>2
        <5>2. line[m].step < pts[1].step
          BY <3>2, <5>1
        <5>3. pts[1].step <= pts[n - k].step
          <6>1. n - k = 1 \/ 1 < n - k
            BY <3>4, <4>0, <4>2
          <6>2. CASE n - k = 1
            BY <3>4, <3>5, <6>2
          <6>3. CASE 1 < n - k
            BY <1>3, <3>4, <5>1, <6>3
          <6> QED BY <6>1, <6>2, <6>3
        <5> QED BY <3>4, <3>5, <5>1, <5>2, <5>3
      <4>3. CASE m \in k + 1 .. k + Len(pts)
        <5>1. n \in k + 1 .. k + Len(pts) /\ m - k < n - k
          BY <3>4, <3>6, <4>0, <4>3
        <5> QED BY <1>3, <3>3, <4>3, <5>1
      <4>4. m \in 1 .. k \/ m \in k + 1 .. k + Len(pts)
        BY <3>3, <3>4
      <4>5. n \in 1 .. k \/ n \in k + 1 .. k + Len(pts)
        BY <3>3, <3>4
      <4> QED BY <4>1, <4>2, <4>3, <4>4, <4>5
    <3> QED BY <3>3, <3>6 DEF LineAscending
  <2> QED BY <2>1, <2>2
<1>5. TypeOK'
  BY <1>1, <1>2, <1>4 DEF LineInv, TypeOK, Size
<1>6. (left <= right)' /\ Undrawn' /\ SampledInOrder'
  BY <1>1 DEF LineInv, Undrawn, SampledInOrder
<1> QED BY <1>4, <1>5, <1>6 DEF LineInv

LEMMA NextLine == ASSUME GraphLineConstantsOK, LineInv, [Next]_vars PROVE LineInv'
<1>1. CASE GetLineData
  BY <1>1 DEF GetLineData, LineInv, TypeOK, Undrawn, SampledInOrder, LineAscending, Size
<1>2. CASE UNCHANGED vars
  BY <1>2 DEF vars, LineInv, TypeOK, Undrawn, SampledInOrder, LineAscending, Size
<1> QED BY <1>1, <1>2, GetDataKeepsLine, SampleKeepsLine, AddKeepsLine DEF Next

(* The computation of a line keeps its types: no view reaches past its      *)
(* file's points and no sampled position past its view, whatever the        *)
(* boundaries and the coefficients (GetBoundary, GatherElement).            *)
THEOREM LineTypeCorrect == ASSUME GraphLineConstantsOK PROVE Spec => []TypeOK
<1>1. LineInv => TypeOK
  BY DEF LineInv
<1> QED BY InitLine, NextLine, <1>1, PTL DEF Spec

(* A line is drawn from left to right, for any number of files, any data,   *)
(* coefficients and boundaries (GraphLine::AddLineData).                    *)
THEOREM LineIsAscending == ASSUME GraphLineConstantsOK PROVE Spec => []LineAscending
<1>1. LineInv => LineAscending
  BY DEF LineInv
<1> QED BY InitLine, NextLine, <1>1, PTL DEF Spec

-----------------------------------------------------------------------------
(* Sampling.                                                               *)

LEMMA GathersDensely ==
  ASSUME NEW size \in Nat, NEW step \in Nat \ {0}, NEW k \in 0 .. size - 1
  PROVE  \E m \in DOMAIN GatherElement(size, step) :
           GatherElement(size, step)[m] <= k /\ k < GatherElement(size, step)[m] + step
<1> DEFINE q == (size + step - 1) \div step
           p == k \div step
           s == [n \in 1 .. q |-> (n - 1) * step]
           e == IF size % step = 0 THEN <<>> ELSE <<size - 1>>
<1>1. q \in Nat /\ size + step - 1 < step * q + step
  BY Quotient, size + step - 1 \in Nat
<1>2. p \in Nat /\ step * p <= k /\ k < step * p + step
  BY Quotient
<1>3. s \in Seq(Int) /\ Len(s) = q
  BY <1>1
<1>4. GatherElement(size, step) = s \o e
  BY DEF GatherElement
<1>5. e \in Seq(Int)
  OBVIOUS
<1> HIDE DEF q, p, e
<1>6. p + 1 \in 1 .. q
  <2> SUFFICES ASSUME q <= p PROVE FALSE
    BY <1>1, <1>2
  <2>1. q * step <= p * step
    BY <1>1, <1>2, ProductMonotone
  <2> QED BY <1>1, <1>2, <2>1
<1>7. s[p + 1] = step * p
  BY <1>2, <1>6
<1> HIDE DEF s
<1>8. p + 1 \in DOMAIN (s \o e) /\ (s \o e)[p + 1] = s[p + 1]
  BY <1>1, <1>3, <1>5, <1>6
<1> QED BY <1>2, <1>4, <1>7, <1>8

SampledAre ==
  /\ pc \in {"getData", "sample"} => sampled = <<>>
  /\ pc \in {"add", "done"} =>
       \A n \in DOMAIN views : sampled[n] = GatherElement(Size(views[n]), Step)

LEMMA NextSampled == ASSUME SampledAre, [Next]_vars PROVE SampledAre'
<1>1. CASE GetData
  BY <1>1 DEF GetData, SampledAre
<1>2. CASE Sample
  <2>1. Step' = Step
    BY <1>2 DEF Sample, Step, Total, Size
  <2> QED BY <1>2, <2>1 DEF Sample, SampledAre, Size
<1>3. CASE AddLineData \/ GetLineData \/ UNCHANGED vars
  <2>1. UNCHANGED <<views, sampled>> /\ (pc' \in {"add", "done"} => pc \in {"add", "done"})
        /\ (pc' \in {"getData", "sample"} => pc \in {"getData", "sample"})
    BY <1>3 DEF AddLineData, GetLineData, vars
  <2>2. Step' = Step
    BY <2>1 DEF Step, Total, Size
  <2> QED BY <2>1, <2>2 DEF SampledAre, Size
<1> QED BY <1>1, <1>2, <1>3 DEF Next

LEMMA DenseFromInv ==
  ASSUME GraphLineConstantsOK, LineInv, SampledAre
  PROVE  SampleIsDense
<1> SUFFICES ASSUME pc \in {"add", "done"}, NEW n \in DOMAIN views, NEW k \in 0 .. Size(views[n]) - 1
             PROVE  \E m \in DOMAIN sampled[n] : sampled[n][m] <= k /\ k < sampled[n][m] + Step
  BY DEF SampleIsDense
<1>1. Size(views[n]) \in Nat /\ Step \in Nat \ {0}
  BY SizesAreOK, StepIsPositive DEF LineInv
<1>2. sampled[n] = GatherElement(Size(views[n]), Step)
  BY DEF SampledAre
<1> QED BY <1>1, <1>2, GathersDensely

(* Sampling leaves no hole: less than a sampling step before each point of  *)
(* a view there is one that is drawn, for views of any number and size and  *)
(* any limit on the points (DataView::GatherElement, SampleLineOp).         *)
THEOREM SamplesAreDense == ASSUME GraphLineConstantsOK PROVE Spec => []SampleIsDense
<1>1. Init => SampledAre
  BY DEF Init, SampledAre
<1>2. LineInv /\ SampledAre => SampleIsDense
  BY DenseFromInv
<1> QED BY InitLine, NextLine, NextSampled, <1>1, <1>2, PTL DEF Spec

-----------------------------------------------------------------------------
(* The views hold what the request asks for.                               *)

LEMMA QuotientBound ==
  ASSUME NEW a \in Nat, NEW b \in Nat \ {0}, NEW s \in Nat
  PROVE  /\ a \div b <= s <=> a < s * b + b
         /\ s <= a \div b <=> s * b <= a
<1> DEFINE q == a \div b
<1>1. q \in Nat /\ q * b <= a /\ a < q * b + b
  BY Quotient
<1> HIDE DEF q
<1>2. CASE q <= s
  <2>1. q * b <= s * b /\ q * b \in Nat /\ s * b \in Nat
    BY <1>1, <1>2, ProductMonotone
  <2>2. CASE q = s
    BY <1>1, <2>2 DEF q
  <2>3. CASE q < s
    <3>1. q + 1 <= s /\ q + 1 \in Nat
      BY <1>1, <2>3
    <3>2. (q + 1) * b <= s * b /\ (q + 1) * b = q * b + b
      BY <1>1, <3>1, ProductMonotone
    <3>3. a < s * b + b /\ ~ (s * b <= a) /\ ~ (s <= q)
      BY <1>1, <2>1, <2>3, <3>2
    <3> QED BY <1>2, <3>3 DEF q
  <2> QED BY <1>1, <1>2, <2>2, <2>3
<1>3. CASE s < q
  <2>1. s + 1 <= q /\ s + 1 \in Nat
    BY <1>1, <1>3
  <2>2. (s + 1) * b <= q * b /\ (s + 1) * b = s * b + b /\ s * b \in Nat /\ q * b \in Nat
    BY <1>1, <2>1, ProductMonotone
  <2>3. ~ (a < s * b + b) /\ s * b <= a /\ s <= q /\ ~ (q <= s)
    BY <1>1, <1>3, <2>2
  <2> QED BY <2>3 DEF q
<1> QED BY <1>1, <1>2, <1>3

(* std::lower_bound and std::upper_bound on a file find a position.        *)
LEMMA Bisects ==
  ASSUME GraphLineConstantsOK, TypeOK, NEW f \in DOMAIN files, NEW l \in Nat
  PROVE  \E b \in 1 .. Len(files[f]) + 1 : \A n \in DOMAIN files[f] : files[f][n] < l <=> n < b
<1> DEFINE len == Len(files[f])
           T == {n \in DOMAIN files[f] : ~ (files[f][n] < l)} \cup {len + 1}
<1>1. /\ len \in Nat /\ DOMAIN files[f] = 1 .. len /\ files[f] \in Seq(Nat)
      /\ \A m, n \in DOMAIN files[f] : m <= n => files[f][m] <= files[f][n]
  BY FilesAreOK
<1> HIDE DEF len
<1>2. T \subseteq 0 .. len + 1 /\ T # {} /\ len + 1 \in Nat
  BY <1>1
<1>3. PICK b \in T : \A n \in T : b <= n
  <2> HIDE DEF T
  <2> QED BY <1>2, LeastElement
<1>4. b \in 1 .. len + 1
  BY <1>1, <1>2
<1>5. ASSUME NEW n \in DOMAIN files[f] PROVE files[f][n] < l <=> n < b
  <2>1. n \in 1 .. len /\ files[f][n] \in Nat
    BY <1>1
  <2>2. CASE n < b
    <3>1. n \notin T
      BY <1>3, <1>4, <2>1, <2>2
    <3> QED BY <2>2, <3>1
  <2>3. CASE b <= n
    <3>1. b \in DOMAIN files[f] /\ b # len + 1
      BY <1>1, <1>4, <2>1, <2>3
    <3>2. ~ (files[f][b] < l) /\ files[f][b] \in Nat /\ files[f][b] <= files[f][n]
      BY <1>1, <1>3, <2>3, <3>1
    <3> QED BY <1>4, <2>1, <2>3, <3>2
  <2> QED BY <1>4, <2>1, <2>2, <2>3
<1> QED BY <1>4, <1>5 DEF len

LEMMA BoundsAreSteps ==
  ASSUME GraphLineConstantsOK, TypeOK, NEW f \in DOMAIN files
  PROVE  LeftStep(f) \in Nat /\ RightStep(f) \in Nat
<1>1. left \in Nat /\ right \in Nat /\ CofUnit \in Nat /\ cof[f] \in Nat \ {0}
  BY FilesAreOK DEF TypeOK
<1> DEFINE a == left * CofUnit
           r == right * CofUnit
<1>2. a \in Nat /\ r \in Nat
  BY <1>1
<1> HIDE DEF a, r
<1>3. r + cof[f] - 1 \in Nat
  BY <1>1, <1>2
<1>4. a \div cof[f] \in Nat /\ (r + cof[f] - 1) \div cof[f] \in Nat
  BY <1>1, <1>2, <1>3, Quotient
<1> QED BY <1>4 DEF a, r, LeftStep, RightStep

(* A file's views hold its steps from LeftStep to RightStep.               *)
LEMMA FileViewsHold ==
  ASSUME GraphLineConstantsOK, TypeOK, NEW f \in DOMAIN files, NEW n \in DOMAIN files[f]
  PROVE  (\E v \in FileViews(f) : v.lower <= n /\ n < v.upper)
           <=> LeftStep(f) <= files[f][n] /\ files[f][n] <= RightStep(f)
<1> DEFINE step == files[f][n]
           l == IF LeftStep(f) > FirstStep(f) THEN LeftStep(f) ELSE FirstStep(f)
           r == IF RightStep(f) < LastStep(f) THEN RightStep(f) ELSE LastStep(f)
<1>1. /\ LeftStep(f) \in Nat /\ RightStep(f) \in Nat
      /\ FirstStep(f) \in Nat /\ LastStep(f) \in Nat
  BY BoundsAreSteps, FilesAreOK
<1>2. step \in Nat /\ FirstStep(f) <= step /\ step <= LastStep(f)
  <2>1. /\ DOMAIN files[f] = 1 .. Len(files[f]) /\ Len(files[f]) \in Nat \ {0} /\ files[f] \in Seq(Nat)
        /\ \A i, j \in DOMAIN files[f] : i <= j => files[f][i] <= files[f][j]
    BY FilesAreOK
  <2>2. 1 \in DOMAIN files[f] /\ Len(files[f]) \in DOMAIN files[f] /\ 1 <= n /\ n <= Len(files[f])
    BY <2>1
  <2> QED BY <2>1, <2>2 DEF FirstStep, LastStep
<1>3. l \in Nat /\ r \in Nat
  BY <1>1
<1>4. CASE LeftStep(f) > LastStep(f) \/ RightStep(f) < FirstStep(f)
  <2>1. FileViews(f) = {}
    BY <1>4 DEF FileViews, GetIntersectionRange
  <2> QED BY <1>1, <1>2, <1>4, <2>1
<1>5. CASE ~ (LeftStep(f) > LastStep(f) \/ RightStep(f) < FirstStep(f))
  <2>1. GetIntersectionRange(f) = {<<l, r>>}
    BY <1>5 DEF GetIntersectionRange
  <2>2. LeftStep(f) <= step /\ step <= RightStep(f) <=> l <= step /\ step <= r
    BY <1>1, <1>2
  <2> HIDE DEF l, r, step
  <2>3. FileViews(f) = {[file |-> f, lower |-> b[1], upper |-> b[2]] : b \in GetBoundary(f, l, r)}
    BY <2>1 DEF FileViews
  <2>4. ASSUME NEW v \in FileViews(f)
        PROVE  v.lower <= n /\ n < v.upper <=> l <= step /\ step <= r
    <3>1. PICK b \in GetBoundary(f, l, r) : v = [file |-> f, lower |-> b[1], upper |-> b[2]]
      BY <2>3
    <3>2. /\ b[1] \in 1 .. Len(files[f]) + 1 /\ b[2] \in 1 .. Len(files[f]) + 1
          /\ (step < l <=> n < b[1]) /\ (step <= r <=> n < b[2])
      BY DEF GetBoundary, step
    <3>3. Len(files[f]) \in Nat /\ n \in Nat
      BY FilesAreOK
    <3> QED BY <1>2, <1>3, <3>1, <3>2, <3>3
  <2>5. FileViews(f) # {}
    <3>1. PICK b1 \in 1 .. Len(files[f]) + 1 :
                 \A m \in DOMAIN files[f] : files[f][m] < l <=> m < b1
      BY <1>3, Bisects
    <3>2. PICK b2 \in 1 .. Len(files[f]) + 1 :
                 \A m \in DOMAIN files[f] : files[f][m] < r + 1 <=> m < b2
      BY <1>3, r + 1 \in Nat, Bisects
    <3>3. \A m \in DOMAIN files[f] : files[f][m] < r + 1 <=> files[f][m] <= r
      <4>1. \A m \in DOMAIN files[f] : files[f][m] \in Nat
        BY FilesAreOK
      <4> QED BY <1>3, <4>1
    <3>4. <<b1, b2>> \in GetBoundary(f, l, r)
      BY <3>1, <3>2, <3>3 DEF GetBoundary
    <3> QED BY <2>3, <3>4
  <2>6. (\E v \in FileViews(f) : v.lower <= n /\ n < v.upper) <=> l <= step /\ step <= r
    BY <2>4, <2>5
  <2> QED BY <2>2, <2>6 DEF step
<1> QED BY <1>4, <1>5

(* GetData returns every view there is, each once, and nothing else; and   *)
(* without tokens the coefficient is one.                                  *)
ViewsAreAll ==
  pc # "getData" => (\A v \in AllViews : \E m \in DOMAIN views : views[m] = v)
                    /\ \A m \in DOMAIN views : views[m] \in AllViews

CofIsOne == ~ token => \A f \in DOMAIN files : cof[f] = CofUnit

LEMMA ViewsAreApart ==
  ASSUME GraphLineConstantsOK, TypeOK, left <= right, NEW u \in AllViews
  PROVE  ~ Before(u, u)
<1>1. PICK f \in DOMAIN files : u \in FileViews(f)
  BY DEF AllViews
<1>2. PICK range \in GetIntersectionRange(f) :
        \E b \in GetBoundary(f, range[1], range[2]) : u = [file |-> f, lower |-> b[1], upper |-> b[2]]
  BY <1>1 DEF FileViews
<1>3. PICK b \in GetBoundary(f, range[1], range[2]) : u = [file |-> f, lower |-> b[1], upper |-> b[2]]
  BY <1>2
<1>4. /\ Len(files[f]) \in Nat \ {0} /\ DOMAIN files[f] = 1 .. Len(files[f]) /\ files[f] \in Seq(Nat)
      /\ FirstStep(f) \in Nat /\ LastStep(f) \in Nat /\ FirstStep(f) <= LastStep(f) /\ f \in Nat
  BY FilesAreOK
<1>5. range[1] \in Nat /\ range[1] <= LastStep(f)
  BY <1>2, <1>4, BoundsAreSteps DEF GetIntersectionRange
<1>6. /\ b[1] \in 1 .. Len(files[f]) + 1
      /\ \A n \in DOMAIN files[f] : files[f][n] < range[1] <=> n < b[1]
  BY DEF GetBoundary
<1>7. Len(files[f]) \in DOMAIN files[f] /\ ~ (files[f][Len(files[f])] < range[1])
  BY <1>4, <1>5 DEF LastStep
<1>8. b[1] \in DOMAIN files[f]
  BY <1>4, <1>6, <1>7
<1>9. LowerStep(u) \in Nat /\ u.file \in Nat
  BY <1>3, <1>4, <1>8 DEF LowerStep
<1> QED BY <1>9 DEF Before

LEMMA GetDataGetsAll ==
  ASSUME GraphLineConstantsOK, TypeOK, left <= right, GetData
  PROVE  /\ \A v \in AllViews : \E m \in DOMAIN views' : views'[m] = v
         /\ \A m \in DOMAIN views' : views'[m] \in AllViews
<1> DEFINE N == Cardinality(AllViews)
           A == AllViews
<1>1. /\ views' \in [1 .. N -> A]
      /\ \A m, n \in 1 .. N : m < n => Before(views'[m], views'[n])
  BY DEF GetData
<1>2. N \in Nat /\ IsFiniteSet(A) /\ \A v \in A : ~ Before(v, v)
  BY ViewsAreFinite, ViewsAreApart
<1>3. \A m, n \in 1 .. N : views'[m] = views'[n] => m = n
  <2> SUFFICES ASSUME NEW m \in 1 .. N, NEW n \in 1 .. N, views'[m] = views'[n], m # n
               PROVE  FALSE
    OBVIOUS
  <2> HIDE DEF A, N
  <2>1. m < n \/ n < m
    BY <1>2
  <2> QED BY <1>1, <1>2, <2>1
<1>4. Cardinality(1 .. N) = N
  <2> HIDE DEF N
  <2> QED BY <1>2, FS_Interval
<1> HIDE DEF A
<1>5. views' \in Injection(1 .. N, A)
  BY <1>1, <1>3 DEF Injection, IsInjective
<1>6. views' \in Surjection(1 .. N, A)
  BY <1>2, <1>4, <1>5, FS_Injection DEF A
<1> QED BY <1>1, <1>6 DEF Surjection, A

LEMMA NextViews ==
  ASSUME GraphLineConstantsOK, LineInv, ViewsAreAll, CofIsOne, [Next]_vars
  PROVE  ViewsAreAll' /\ CofIsOne'
<1>1. UNCHANGED <<files, token, cof, left, right>>
  BY DEF Next, GetData, Sample, AddLineData, GetLineData, vars
<1>2. AllViews' = AllViews
  BY <1>1 DEF AllViews, FileViews, GetIntersectionRange, GetBoundary, LeftStep, RightStep,
     FirstStep, LastStep
<1>3. CofIsOne'
  BY <1>1 DEF CofIsOne
<1>4. CASE GetData
  BY <1>2, <1>3, <1>4, GetDataGetsAll DEF ViewsAreAll, LineInv
<1>5. CASE Sample \/ AddLineData \/ GetLineData \/ UNCHANGED vars
  <2>1. UNCHANGED views /\ (pc' # "getData" => pc # "getData")
    BY <1>5 DEF Sample, AddLineData, GetLineData, vars
  <2> QED BY <1>2, <1>3, <2>1 DEF ViewsAreAll
<1> QED BY <1>4, <1>5 DEF Next

LEMMA RangeFromViews ==
  ASSUME GraphLineConstantsOK, LineInv, ViewsAreAll, CofIsOne
  PROVE  ViewsMatchRange
<1> SUFFICES ASSUME pc # "getData", NEW f \in DOMAIN files, NEW n \in DOMAIN files[f]
             PROVE  LET step == files[f][n]
                    IN IF token
                       THEN /\ left <= TokenStep(f, step) /\ TokenStep(f, step) < right => InView(f, n)
                            /\ TokenStep(f, step) = right /\ cof[f] >= CofUnit => InView(f, n)
                            /\ InView(f, n) => /\ (step + 1) * cof[f] > left * CofUnit
                                               /\ (step - 1) * cof[f] < right * CofUnit
                       ELSE left <= step /\ step <= right <=> InView(f, n)
  BY DEF ViewsMatchRange
<1>1. TypeOK /\ left \in Nat /\ right \in Nat /\ left <= right
  BY DEF LineInv, TypeOK
<1>2. PICK s, c, U : s = files[f][n] /\ c = cof[f] /\ U = CofUnit
  OBVIOUS
<1>3. s \in Nat /\ c \in Nat \ {0} /\ U \in Nat \ {0}
  BY <1>1, <1>2, FilesAreOK
<1>4. InView(f, n) <=> LeftStep(f) <= s /\ s <= RightStep(f)
  <2>1. InView(f, n) <=> \E v \in FileViews(f) : v.lower <= n /\ n < v.upper
    <3>1. \A g \in DOMAIN files : \A v \in FileViews(g) : v.file = g
      BY DEF FileViews
    <3>2. \A v : v \in AllViews <=> \E g \in DOMAIN files : v \in FileViews(g)
      BY DEF AllViews
    <3>3. \A v : v \in AllViews <=> \E m \in DOMAIN views : views[m] = v
      BY DEF ViewsAreAll
    <3> QED BY <3>1, <3>2, <3>3 DEF InView
  <2> QED BY <1>1, <1>2, <2>1, FileViewsHold
<1>5. PICK L, R, P : L = left * U /\ R = right * U /\ P = s * c
  OBVIOUS
<1>6. L \in Nat /\ R \in Nat /\ P \in Nat /\ L <= R
  BY <1>1, <1>3, <1>5, ProductMonotone
<1>7. InView(f, n) <=> L < P + c /\ P <= R + c - 1
  <2>1. LeftStep(f) = L \div c /\ RightStep(f) = (R + c - 1) \div c
    BY <1>2, <1>5 DEF LeftStep, RightStep
  <2>2. R + c - 1 \in Nat
    BY <1>3, <1>6
  <2>3. L \div c <= s <=> L < P + c
    BY <1>3, <1>5, <1>6, QuotientBound
  <2>4. s <= (R + c - 1) \div c <=> P <= R + c - 1
    BY <1>3, <1>5, <2>2, QuotientBound
  <2> QED BY <1>4, <2>1, <2>3, <2>4
<1>8. CASE token
  <2>1. TokenStep(f, s) = P \div U
    BY <1>2, <1>5, <1>8 DEF TokenStep
  <2>2. P \div U \in Nat
    BY <1>3, <1>6, Quotient
  <2>3. /\ left <= P \div U <=> L <= P
        /\ right <= P \div U <=> R <= P
        /\ P \div U <= right <=> P < R + U
    BY <1>1, <1>3, <1>5, <1>6, QuotientBound
  <2> DEFINE t == P \div U
  <2> HIDE DEF t
  <2>4. left <= t /\ t < right => InView(f, n)
    BY <1>1, <1>3, <1>6, <1>7, <2>2, <2>3 DEF t
  <2>5. t = right /\ c >= U => InView(f, n)
    BY <1>1, <1>3, <1>6, <1>7, <2>2, <2>3 DEF t
  <2>6. (s + 1) * c = P + c /\ (s - 1) * c = P - c
    BY <1>3, <1>5
  <2>7. InView(f, n) => (s + 1) * c > L /\ (s - 1) * c < R
    BY <1>3, <1>6, <1>7, <2>6
  <2> QED BY <1>2, <1>5, <1>8, <2>1, <2>4, <2>5, <2>7 DEF t
<1>9. CASE ~ token
  <2>1. c = U
    BY <1>2, <1>9 DEF CofIsOne
  <2>2. left <= s <=> L < P + c
    <3>1. L \div c = left
      BY <1>1, <1>3, <1>5, <2>1
    <3> QED BY <1>3, <1>5, <1>6, <3>1, QuotientBound
  <2>3. s <= right <=> P <= R + c - 1
    <3>1. (R + c - 1) \div c = right
      <4>1. R + c - 1 \in Nat /\ R = right * c
        BY <1>3, <1>5, <1>6, <2>1
      <4>2. right <= (R + c - 1) \div c /\ (R + c - 1) \div c <= right
        BY <1>1, <1>3, <1>6, <4>1, QuotientBound
      <4>3. (R + c - 1) \div c \in Nat
        BY <1>3, <4>1, Quotient
      <4> QED BY <1>1, <4>2, <4>3
    <3>2. R + c - 1 \in Nat
      BY <1>3, <1>6
    <3> QED BY <1>3, <1>5, <3>1, <3>2, QuotientBound
  <2> QED BY <1>2, <1>7, <1>9, <2>2, <2>3
<1> QED BY <1>8, <1>9

(* GetData leaves out no point between the boundaries and takes none too   *)
(* many; on a token line, none that is a step or more outside, and at the  *)
(* right boundary none if the steps' tokens differ: for any files, any     *)
(* coefficients and any boundaries (File::GetData, VirtualFile::GetData).  *)
THEOREM ViewsMatch == ASSUME GraphLineConstantsOK PROVE Spec => []ViewsMatchRange
<1>1. Init => ViewsAreAll /\ CofIsOne
  BY DEF Init, ViewsAreAll, CofIsOne
<1>2. LineInv /\ ViewsAreAll /\ CofIsOne => ViewsMatchRange
  BY RangeFromViews
<1> QED BY InitLine, NextLine, NextViews, <1>1, <1>2, PTL DEF Spec

-----------------------------------------------------------------------------
(* The line holds the newest points.                                       *)

(* The line in pieces, of views whose points are pts, up to view a.        *)
Survives(pts, a, n) ==
  {k \in DOMAIN pts[n] :
     \A m \in n + 1 .. a : pts[m] # <<>> => pts[n][k].step < pts[m][1].step}

Pieces(l, pts, a) ==
  \E end \in [0 .. a -> 0 .. Len(l)] :
    /\ end[0] = 0 /\ end[a] = Len(l)
    /\ \A n \in 1 .. a :
         /\ end[n - 1] <= end[n] /\ Survives(pts, a, n) = 1 .. end[n] - end[n - 1]
         /\ \A k \in Survives(pts, a, n) : l[end[n - 1] + k] = pts[n][k]

LinePoint == [file : Nat, step : Nat]

LEMMA CutInterval ==
  ASSUME NEW d \in Nat, NEW e \in Nat, NEW k \in Nat, d <= e, NEW x \in Nat, NEW y \in Nat,
         x = (IF d <= k THEN d ELSE k), y = (IF e <= k THEN e ELSE k)
  PROVE  (\A j : j \in 1 .. e - d /\ d + j <= k <=> j \in 1 .. y - x) /\ x <= y
<1>1. x <= y
  OBVIOUS
<1>2. ASSUME NEW j \in 1 .. e - d, d + j <= k PROVE j \in 1 .. y - x
  BY <1>2
<1>3. ASSUME NEW j \in 1 .. y - x PROVE j \in 1 .. e - d /\ d + j <= k
  <2>1. j \in Int /\ 1 <= j /\ j <= y - x
    BY <1>1
  <2> QED BY <1>1, <2>1
<1> QED BY <1>1, <1>2, <1>3

(* A view added cuts the line at k: it cuts each piece before it there.    *)
LEMMA OnePieceMore ==
  ASSUME NEW N \in Nat, NEW a \in 0 .. N - 1, NEW pts \in [1 .. N -> Seq(LinePoint)],
         NEW l \in Seq(LinePoint), Pieces(l, pts, a),
         NEW k \in 0 .. Len(l),
         \A n \in DOMAIN l : (pts[a + 1] # <<>> => l[n].step < pts[a + 1][1].step) <=> n <= k
  PROVE  Pieces(SubSeq(l, 1, k) \o pts[a + 1], pts, a + 1)
<1> DEFINE p == pts[a + 1]
           q == pts[a + 1][1].step
           l2 == SubSeq(l, 1, k) \o p
<1>1. PICK end \in [0 .. a -> 0 .. Len(l)] :
        /\ end[0] = 0 /\ end[a] = Len(l)
        /\ \A n \in 1 .. a :
             /\ end[n - 1] <= end[n] /\ Survives(pts, a, n) = 1 .. end[n] - end[n - 1]
             /\ \A j \in Survives(pts, a, n) : l[end[n - 1] + j] = pts[n][j]
  BY DEF Pieces
<1>2. a \in Nat /\ a + 1 \in 1 .. N /\ p \in Seq(LinePoint) /\ Len(l) \in Nat /\ k \in Nat
  OBVIOUS
<1>3. /\ l2 \in Seq(LinePoint) /\ DOMAIN l2 = 1 .. k + Len(p) /\ Len(p) \in Nat
      /\ \A n \in 1 .. k : n \in DOMAIN l /\ l2[n] = l[n]
      /\ \A n \in k + 1 .. k + Len(p) : n - k \in DOMAIN p /\ l2[n] = p[n - k]
  <2>1. /\ l2 \in Seq(LinePoint) /\ DOMAIN l2 = 1 .. k + Len(p)
        /\ \A n \in 1 .. k : n \in DOMAIN l /\ l2[n] = l[n]
        /\ \A n \in k + 1 .. k + Len(p) : n - k \in DOMAIN p /\ l2[n] = p[n - k]
    <3> HIDE DEF p
    <3> QED BY <1>2, Joining, SMTT(30)
  <2> HIDE DEF p, l2
  <2> QED BY <1>2, <2>1
<1>4. Len(l2) = k + Len(p)
  <2> HIDE DEF p, l2
  <2> QED BY <1>2, <1>3
<1> DEFINE cut == [n \in 0 .. a + 1 |-> IF n = a + 1 THEN k + Len(p)
                                        ELSE IF end[n] <= k THEN end[n] ELSE k]
<1>5. \A n \in 0 .. a : end[n] \in 0 .. Len(l) /\ end[n] \in Nat
  BY <1>1, <1>2
<1>6. cut \in [0 .. a + 1 -> 0 .. Len(l2)]
  <2>1. \A n \in 0 .. a + 1 : n \in 0 .. a \/ n = a + 1
    BY <1>2
  <2> HIDE DEF l2, p
  <2> QED BY <1>2, <1>3, <1>4, <1>5, <2>1
<1>7. /\ cut[a + 1] = k + Len(p)
      /\ \A n \in 0 .. a : cut[n] = IF end[n] <= k THEN end[n] ELSE k
  BY <1>2
<1> HIDE DEF cut, l2
<1>8. cut[0] = 0 /\ cut[a + 1] = Len(l2)
  BY <1>1, <1>2, <1>4, <1>7
<1>9. ASSUME NEW n \in 1 .. a
      PROVE  /\ cut[n - 1] <= cut[n] /\ Survives(pts, a + 1, n) = 1 .. cut[n] - cut[n - 1]
             /\ \A j \in Survives(pts, a + 1, n) : l2[cut[n - 1] + j] = pts[n][j]
  <2>1. n \in 0 .. a /\ n - 1 \in 0 .. a /\ n \in Nat
    BY <1>2
  <2> DEFINE e == end[n]
             d == end[n - 1]
  <2>2. e \in 0 .. Len(l) /\ d \in 0 .. Len(l) /\ d <= e /\ e \in Nat /\ d \in Nat
    BY <1>1, <1>5, <2>1
  <2>3. Survives(pts, a, n) = 1 .. e - d /\ \A j \in 1 .. e - d : l[d + j] = pts[n][j]
    BY <1>1
  <2>4. cut[n] = IF e <= k THEN e ELSE k
    BY <1>7, <2>1
  <2>5. cut[n - 1] = IF d <= k THEN d ELSE k
    BY <1>7, <2>1
  <2>6. Survives(pts, a + 1, n)
          = {j \in Survives(pts, a, n) : p # <<>> => pts[n][j].step < q}
    <3>1. /\ \A m \in n + 1 .. a + 1 : m \in n + 1 .. a \/ m = a + 1
          /\ \A m \in n + 1 .. a : m \in n + 1 .. a + 1
          /\ a + 1 \in n + 1 .. a + 1
      BY <1>2, <2>1
    <3> QED BY <3>1 DEF Survives
  <2> HIDE DEF e, d
  <2>7. \A j \in 1 .. e - d : d + j \in DOMAIN l /\ d + j \in Nat
    BY <2>2
  <2>8. \A j \in 1 .. e - d : (p # <<>> => pts[n][j].step < q) <=> d + j <= k
    BY <2>3, <2>7
  <2>9. Survives(pts, a + 1, n) = {j \in 1 .. e - d : d + j <= k}
    BY <2>3, <2>6, <2>8
  <2>10. {j \in 1 .. e - d : d + j <= k} = 1 .. cut[n] - cut[n - 1] /\ cut[n - 1] <= cut[n]
    <3>1. PICK x, y : x = cut[n - 1] /\ y = cut[n]
      OBVIOUS
    <3>2. x = (IF d <= k THEN d ELSE k) /\ y = (IF e <= k THEN e ELSE k)
      BY <2>4, <2>5, <3>1
    <3>3. d \in Nat /\ e \in Nat /\ k \in Nat /\ d <= e /\ x \in Nat /\ y \in Nat
      BY <1>2, <2>2, <3>2
    <3>4. (\A j : j \in 1 .. e - d /\ d + j <= k <=> j \in 1 .. y - x) /\ x <= y
      BY ONLY <3>2, <3>3, CutInterval, SMTT(30)
    <3> QED BY <3>1, <3>4
  <2>11. ASSUME NEW j \in 1 .. e - d, d + j <= k PROVE l2[cut[n - 1] + j] = pts[n][j]
    <3>1. cut[n - 1] = d /\ d + j \in 1 .. k
      BY <1>2, <2>2, <2>5, <2>11
    <3> QED BY <1>3, <2>3, <3>1 DEF l2
  <2> QED BY <2>9, <2>10, <2>11
<1>10. /\ cut[a] = k /\ Survives(pts, a + 1, a + 1) = 1 .. Len(p)
       /\ \A j \in 1 .. Len(p) : l2[k + j] = p[j]
  <2>1. cut[a] = k
    BY <1>1, <1>2, <1>7
  <2>2. Survives(pts, a + 1, a + 1) = DOMAIN p
    BY <1>2 DEF Survives
  <2>3. \A j \in 1 .. Len(p) : k + j \in k + 1 .. k + Len(p) /\ k + j - k = j
    BY <1>2, <1>3
  <2>4. \A j \in 1 .. Len(p) : l2[k + j] = p[j]
    BY <1>3, <2>3
  <2> QED BY <1>3, <2>1, <2>2, <2>4
<1>11. ASSUME NEW n \in 1 .. a + 1
       PROVE  /\ cut[n - 1] <= cut[n] /\ Survives(pts, a + 1, n) = 1 .. cut[n] - cut[n - 1]
              /\ \A j \in Survives(pts, a + 1, n) : l2[cut[n - 1] + j] = pts[n][j]
  <2>1. n \in 1 .. a \/ n = a + 1
    BY <1>2
  <2>2. CASE n = a + 1
    <3>1. n - 1 = a /\ pts[n] = p
      BY <1>2, <2>2
    <3>2. cut[n - 1] = k /\ cut[n] = k + Len(p) /\ cut[n] - cut[n - 1] = Len(p)
      BY <1>2, <1>3, <1>7, <1>10, <2>2, <3>1
    <3> QED BY <1>2, <1>3, <1>10, <2>2, <3>1, <3>2
  <2> QED BY <1>9, <2>1, <2>2
<1>12. Pieces(l2, pts, a + 1)
  BY <1>6, <1>8, <1>11 DEF Pieces
<1> QED BY <1>12 DEF l2

LEMMA NewestIsPieces ==
  ASSUME TypeOK, LineIsNewest, NEW pts, pts = [n \in 1 .. Len(views) |-> Points(n)]
  PROVE  Pieces(line, pts, added)
<1>1. added \in Nat /\ Len(views) \in Nat /\ added <= Len(views)
  BY DEF TypeOK
<1>2. \A n \in 1 .. added : pts[n] = Points(n) /\ \A m \in n + 1 .. added : pts[m] = Points(m)
  BY <1>1
<1>3. \A n \in 1 .. added : Survives(pts, added, n) = Surviving(n)
  BY <1>2 DEF Survives, Surviving
<1>4. PICK end \in [0 .. added -> 0 .. Len(line)] :
        /\ end[0] = 0 /\ end[added] = Len(line)
        /\ \A n \in 1 .. added :
             /\ end[n - 1] <= end[n] /\ Surviving(n) = 1 .. end[n] - end[n - 1]
             /\ \A k \in Surviving(n) : line[end[n - 1] + k] = Points(n)[k]
  BY DEF LineIsNewest
<1>5. \A n \in 1 .. added :
        /\ end[n - 1] <= end[n] /\ Survives(pts, added, n) = 1 .. end[n] - end[n - 1]
        /\ \A k \in Survives(pts, added, n) : line[end[n - 1] + k] = pts[n][k]
  BY <1>2, <1>3, <1>4
<1> QED BY <1>4, <1>5 DEF Pieces

LEMMA AddKeepsNewest ==
  ASSUME GraphLineConstantsOK, LineInv, LineInv', LineIsNewest, AddLineData
  PROVE  LineIsNewest'
<1>1. /\ UNCHANGED <<files, token, cof, left, right, views, sampled, pc>>
      /\ pc = "add" /\ added' = added + 1 /\ added < Len(views)
  BY DEF AddLineData
<1>2. PICK pts : pts = [n \in 1 .. Len(views) |-> Points(n)]
  OBVIOUS
<1>3. \A n : Points(n)' = Points(n)
  BY <1>1 DEF Points, Point, TokenStep
<1>4. TypeOK /\ Len(views) \in Nat /\ added \in 0 .. Len(views) - 1 /\ line \in Seq(LinePoint)
  BY <1>1 DEF LineInv, TypeOK, LinePoint
<1>5. pts \in [1 .. Len(views) -> Seq(LinePoint)] /\ pts[added + 1] = Points(added + 1)
  <2>1. \A n \in 1 .. Len(views) : Points(n) \in Seq(LinePoint)
    BY <1>1, <1>4, PointsAreOK DEF LinePoint
  <2> QED BY <1>2, <1>4, <2>1
<1>6. Pieces(line, pts, added)
  BY <1>1, <1>2, <1>4, NewestIsPieces
<1>7. PICK k \in 0 .. Len(line) :
        /\ line' = SubSeq(line, 1, k) \o pts[added + 1]
        /\ \A n \in DOMAIN line :
             (pts[added + 1] # <<>> => line[n].step < pts[added + 1][1].step) <=> n <= k
  <2>1. CASE pts[added + 1] = <<>>
    <3>1. line' = line
      BY <1>5, <2>1 DEF AddLineData
    <3>2. SubSeq(line, 1, Len(line)) \o <<>> = line
      BY <1>4
    <3>3. Len(line) \in 0 .. Len(line) /\ \A n \in DOMAIN line : n <= Len(line)
      BY <1>4
    <3> QED BY <2>1, <3>1, <3>2, <3>3
  <2>2. CASE pts[added + 1] # <<>>
    <3>1. PICK k \in KeptBefore(pts[added + 1][1].step) :
            line' = SubSeq(line, 1, k) \o pts[added + 1]
      BY <1>5, <2>2 DEF AddLineData
    <3> QED BY <2>2, <3>1 DEF KeptBefore
  <2> QED BY <2>1, <2>2
<1>8. Pieces(line', pts, added')
  BY <1>1, <1>4, <1>5, <1>6, <1>7, OnePieceMore
<1>9. added' \in Nat /\ added' <= Len(views) /\ \A n \in 1 .. added' : pts[n] = Points(n)'
  BY <1>1, <1>2, <1>3, <1>4
<1>10. \A n \in 1 .. added' : Survives(pts, added', n) = Surviving(n)'
  <2>1. \A n \in 1 .. added' : \A m \in n + 1 .. added' : m \in 1 .. added'
    BY <1>9
  <2> QED BY <1>9, <2>1 DEF Survives, Surviving
<1>11. PICK end \in [0 .. added' -> 0 .. Len(line')] :
         /\ end[0] = 0 /\ end[added'] = Len(line')
         /\ \A n \in 1 .. added' :
              /\ end[n - 1] <= end[n] /\ Survives(pts, added', n) = 1 .. end[n] - end[n - 1]
              /\ \A j \in Survives(pts, added', n) : line'[end[n - 1] + j] = pts[n][j]
  BY <1>8 DEF Pieces
<1>12. \A n \in 1 .. added' :
         /\ end[n - 1] <= end[n] /\ Surviving(n)' = 1 .. end[n] - end[n - 1]
         /\ \A j \in Surviving(n)' : line'[end[n - 1] + j] = Points(n)'[j]
  <2> SUFFICES ASSUME NEW n \in 1 .. added'
               PROVE  /\ end[n - 1] <= end[n] /\ Surviving(n)' = 1 .. end[n] - end[n - 1]
                      /\ \A j \in Surviving(n)' : line'[end[n - 1] + j] = Points(n)'[j]
    OBVIOUS
  <2>1. Survives(pts, added', n) = Surviving(n)' /\ pts[n] = Points(n)'
    BY <1>9, <1>10
  <2>2. /\ end[n - 1] <= end[n] /\ Survives(pts, added', n) = 1 .. end[n] - end[n - 1]
        /\ \A j \in Survives(pts, added', n) : line'[end[n - 1] + j] = pts[n][j]
    BY <1>11
  <2> QED BY <2>1, <2>2
<1> QED BY <1>11, <1>12 DEF LineIsNewest

LEMMA NextNewest ==
  ASSUME GraphLineConstantsOK, LineInv, LineInv', LineIsNewest, [Next]_vars
  PROVE  LineIsNewest'
<1>1. CASE GetData \/ Sample
  <2>1. UNCHANGED <<added, line>> /\ added = 0
    BY <1>1 DEF GetData, Sample, LineInv, Undrawn
  <2> QED BY <2>1 DEF LineIsNewest
<1>2. CASE GetLineData \/ UNCHANGED vars
  <2>1. UNCHANGED <<files, token, cof, views, sampled, added, line>>
    BY <1>2 DEF GetLineData, vars
  <2>2. \A n : Points(n)' = Points(n)
    BY <2>1 DEF Points, Point, TokenStep
  <2>3. \A n : Surviving(n)' = Surviving(n)
    BY <2>1, <2>2 DEF Surviving
  <2>4. PICK end \in [0 .. added -> 0 .. Len(line)] :
          /\ end[0] = 0 /\ end[added] = Len(line)
          /\ \A n \in 1 .. added :
               /\ end[n - 1] <= end[n] /\ Surviving(n) = 1 .. end[n] - end[n - 1]
               /\ \A j \in Surviving(n) : line[end[n - 1] + j] = Points(n)[j]
    BY DEF LineIsNewest
  <2>5. /\ end \in [0 .. added' -> 0 .. Len(line')] /\ end[0] = 0 /\ end[added'] = Len(line')
    BY <2>1, <2>4
  <2>6. ASSUME NEW n \in 1 .. added'
        PROVE  /\ end[n - 1] <= end[n] /\ Surviving(n)' = 1 .. end[n] - end[n - 1]
               /\ \A j \in Surviving(n)' : line'[end[n - 1] + j] = Points(n)'[j]
    <3>1. n \in 1 .. added /\ line' = line
      BY <2>1, <2>6
    <3> QED BY <2>2, <2>3, <2>4, <3>1
  <2> QED BY <2>5, <2>6 DEF LineIsNewest
<1> QED BY <1>1, <1>2, AddKeepsNewest DEF Next

(* "Files added later overwrite the data before": whatever the files and   *)
(* their overlaps, the line is one piece for each view in their order, and *)
(* of each view the points that no view added later reaches, all of them   *)
(* and no others (GraphLine::AddLineData).                                 *)
THEOREM NewestIsDrawn == ASSUME GraphLineConstantsOK PROVE Spec => []LineIsNewest
<1>1. Init => LineIsNewest
  <2> SUFFICES ASSUME Init PROVE LineIsNewest
    OBVIOUS
  <2>1. added = 0 /\ line = <<>>
    BY DEF Init
  <2> DEFINE end == [n \in 0 .. 0 |-> 0]
  <2>2. end \in [0 .. 0 -> 0 .. 0] /\ end[0] = 0
    OBVIOUS
  <2> HIDE DEF end
  <2> QED BY <2>1, <2>2 DEF LineIsNewest
<1> QED BY InitLine, NextLine, NextNewest, <1>1, PTL DEF Spec

-----------------------------------------------------------------------------
(* What is sampled is what the loop gathers.                               *)

LEMMA Remainder ==
  ASSUME NEW a \in Nat, NEW b \in Nat \ {0}
  PROVE  a % b = a - b * (a \div b)
  OBVIOUS

(* One turn of the loop in terms of what GatherElement divides.            *)
LEMMA OneTurn ==
  ASSUME NEW s \in Nat \ {0}, NEW step \in Nat \ {0}
  PROVE  /\ s < step => (s + step - 1) \div step = 1 /\ s % step # 0
         /\ step <= s => /\ (s + step - 1) \div step = (s - step + step - 1) \div step + 1
                         /\ s % step = (s - step) % step
<1>1. ASSUME s < step PROVE (s + step - 1) \div step = 1 /\ s % step # 0
  <2>1. s + step - 1 \in Nat /\ s + step - 1 < 1 * step + step /\ 1 * step <= s + step - 1
    BY <1>1
  <2>2. (s + step - 1) \div step <= 1 /\ 1 <= (s + step - 1) \div step
        /\ (s + step - 1) \div step \in Nat
    BY <2>1, QuotientBound, Quotient
  <2>3. s % step = s
    BY <1>1
  <2> QED BY <2>2, <2>3
<1>2. ASSUME step <= s
      PROVE  /\ (s + step - 1) \div step = (s - step + step - 1) \div step + 1
             /\ s % step = (s - step) % step
  <2>1. PICK a : a = s - step + step - 1
    OBVIOUS
  <2>2. a \in Nat /\ s + step - 1 = a + step /\ s - step + step - 1 = a
    BY <1>2, <2>1
  <2>3. PICK q : q = a \div step
    OBVIOUS
  <2>4. q \in Nat /\ q * step <= a /\ a < q * step + step
    BY <2>2, <2>3, Quotient
  <2>5. q + 1 \in Nat /\ (q + 1) * step = q * step + step /\ q * step \in Nat
    BY <2>4
  <2>6. (q + 1) * step <= a + step /\ a + step < (q + 1) * step + step
    BY <2>2, <2>4, <2>5
  <2>7. (a + step) \div step = q + 1
    <3>1. PICK c : c = a + step
      OBVIOUS
    <3>2. c \in Nat /\ (q + 1) * step <= c /\ c < (q + 1) * step + step
      BY <2>2, <2>6, <3>1
    <3>3. c \div step <= q + 1 /\ q + 1 <= c \div step /\ c \div step \in Nat
      BY <2>5, <3>2, QuotientBound, Quotient
    <3> QED BY <2>5, <3>1, <3>3
  <2>8. s % step = (s - step) % step
    <3>1. PICK b, p, r : b = s - step /\ p = b \div step /\ r = s \div step
      OBVIOUS
    <3>2. b \in Nat /\ s = b + step /\ s \in Nat
      BY <1>2, <3>1
    <3>3. p \in Nat /\ r \in Nat /\ p * step <= b /\ b < p * step + step
          /\ s % step = s - step * r /\ b % step = b - step * p
      <4>1. p \in Nat /\ step * p <= b /\ b < step * p + step
        BY <3>1, <3>2, Quotient
      <4>2. r \in Nat /\ s % step = s - step * r
        BY <3>1, <3>2, Quotient, Remainder
      <4>3. b % step = b - step * p
        BY <3>1, <3>2, Remainder
      <4>4. step * p = p * step
        BY <4>1
      <4> QED BY <4>1, <4>2, <4>3, <4>4
    <3>4. (p + 1) * step = p * step + step /\ p * step \in Nat /\ p + 1 \in Nat
      BY <3>3
    <3>5. (p + 1) * step <= s /\ s < (p + 1) * step + step
      BY <3>2, <3>3, <3>4
    <3>6. r <= p + 1 /\ p + 1 <= r
      BY <3>1, <3>2, <3>4, <3>5, QuotientBound
    <3>7. r = p + 1 /\ step * r = step * p + step
      BY <3>3, <3>4, <3>6
    <3> QED BY <3>1, <3>2, <3>3, <3>7
  <2> QED BY <2>2, <2>3, <2>7, <2>8
<1> QED BY <1>1, <1>2

LEMMA JoinThree ==
  ASSUME NEW x \in Int, NEW s \in Seq(Int), NEW t \in Seq(Int), NEW u \in Seq(Int),
         Len(s) = Len(t) + 1, s[1] = x, \A n \in 1 .. Len(t) : s[n + 1] = t[n]
  PROVE  s \o u = <<x>> \o (t \o u)
<1>1. PICK r : r = <<x>> \o t
  OBVIOUS
<1>2. r \in Seq(Int) /\ Len(r) = Len(t) + 1 /\ r[1] = x
      /\ \A n \in 2 .. Len(t) + 1 : r[n] = t[n - 1]
  BY <1>1
<1>3. \A n \in 1 .. Len(t) + 1 : r[n] = s[n]
  <2> SUFFICES ASSUME NEW n \in 1 .. Len(t) + 1 PROVE r[n] = s[n]
    OBVIOUS
  <2>1. CASE n = 1
    BY <1>2, <2>1
  <2>2. CASE n # 1
    <3>1. n \in 2 .. Len(t) + 1 /\ n - 1 \in 1 .. Len(t) /\ n - 1 + 1 = n
      BY <2>2
    <3> QED BY <1>2, <3>1
  <2> QED BY <2>1, <2>2
<1>4. r = s
  BY <1>2, <1>3
<1>5. (<<x>> \o t) \o u = <<x>> \o (t \o u)
  OBVIOUS
<1> QED BY <1>1, <1>4, <1>5

(* What the loop gathers from index on.                                    *)
From(size, step, index) ==
  IF index = size + 1 THEN <<size - 1>>
  ELSE [n \in 1 .. (size - index + step - 1) \div step |-> index + (n - 1) * step]
         \o (IF (size - index) % step = 0 THEN <<>> ELSE <<size - 1>>)

Turn(size, step, index, rest) ==
  LET last == IF index # size THEN <<size - 1>> ELSE <<>>
  IN IF size + 1 - index = 0 \/ index = size THEN last
     ELSE <<index>> \o (IF size + 1 - index < step THEN last ELSE rest)

LEMMA FromTurns ==
  ASSUME NEW size \in Nat, NEW step \in Nat \ {0}, NEW index \in 0 .. size + 1
  PROVE  From(size, step, index) = Turn(size, step, index, From(size, step, index + step))
<1> DEFINE Ticks(i) == [n \in 1 .. (size - i + step - 1) \div step |-> i + (n - 1) * step]
           End(i) == IF (size - i) % step = 0 THEN <<>> ELSE <<size - 1>>
<1>0. index \in Nat /\ index <= size + 1
  OBVIOUS
<1>1. ASSUME NEW i \in 0 .. size PROVE From(size, step, i) = Ticks(i) \o End(i)
  BY <1>1 DEF From
<1>2. ASSUME NEW i \in 0 .. size
      PROVE  /\ Ticks(i) \in Seq(Int) /\ End(i) \in Seq(Int)
             /\ (size - i + step - 1) \div step \in Nat
             /\ Len(Ticks(i)) = (size - i + step - 1) \div step
             /\ \A n \in 1 .. (size - i + step - 1) \div step : Ticks(i)[n] = i + (n - 1) * step
  <2>1. size - i + step - 1 \in Nat /\ i \in Nat
    OBVIOUS
  <2>2. (size - i + step - 1) \div step \in Nat
    BY <2>1, Quotient
  <2>3. PICK q : q = (size - i + step - 1) \div step
    OBVIOUS
  <2>4. Ticks(i) = [n \in 1 .. q |-> i + (n - 1) * step] /\ q \in Nat
    BY <2>2, <2>3
  <2>5. \A n \in 1 .. q : i + (n - 1) * step \in Int
    BY <2>1
  <2>6. Ticks(i) \in Seq(Int) /\ Len(Ticks(i)) = q
    BY <2>4, <2>5
  <2>7. End(i) \in Seq(Int)
    OBVIOUS
  <2>8. \A n \in 1 .. q : Ticks(i)[n] = i + (n - 1) * step
    BY <2>4
  <2> HIDE DEF Ticks, End
  <2> QED BY <2>2, <2>3, <2>6, <2>7, <2>8
<1>3. CASE index = size + 1
  BY <1>3 DEF From, Turn
<1>4. CASE index = size
  <2>1. (size - index + step - 1) \div step = 0
    <3>1. size - index + step - 1 = step - 1 /\ step - 1 \in Nat /\ step - 1 < 0 * step + step
      BY <1>4
    <3> QED BY <3>1, Quotient, QuotientBound
  <2>2. (size - index) % step = 0
    BY <1>4
  <2>3. Ticks(index) = <<>> /\ End(index) = <<>>
    BY <2>1, <2>2
  <2>4. From(size, step, index) = <<>>
    <3> HIDE DEF Ticks, End
    <3> QED BY <1>1, <1>4, <2>3
  <2> QED BY <1>4, <2>4 DEF Turn
<1>5. CASE index \in 0 .. size - 1
  <2>1. size - index \in Nat \ {0} /\ index \in 0 .. size
    BY <1>5
  <2>2. CASE size - index < step
    <3>1. (size - index + step - 1) \div step = 1 /\ (size - index) % step # 0
      BY <2>1, <2>2, OneTurn
    <3>2. Ticks(index) = <<index>>
      BY <3>1, <1>0
    <3>3. End(index) = <<size - 1>>
      BY <3>1
    <3>4. From(size, step, index) = <<index>> \o <<size - 1>>
      <4> HIDE DEF Ticks, End
      <4> QED BY <1>1, <2>1, <3>2, <3>3
    <3>5. CASE size + 1 - index < step
      BY <1>5, <3>4, <3>5 DEF Turn
    <3>6. CASE ~ (size + 1 - index < step)
      <4>1. index + step = size + 1
        BY <1>0, <2>2, <3>6
      <4>2. From(size, step, index + step) = <<size - 1>>
        BY <4>1 DEF From
      <4>3. size + 1 - index # 0 /\ index # size
        BY <1>0, <1>5
      <4>4. Turn(size, step, index, <<size - 1>>) = <<index>> \o <<size - 1>>
        BY <3>6, <4>3 DEF Turn
      <4> QED BY <3>4, <4>2, <4>4
    <3> QED BY <3>5, <3>6
  <2>3. CASE ~ (size - index < step)
    <3>1. PICK i : i = index + step
      OBVIOUS
    <3>2. i \in 0 .. size /\ size - index - step = size - i /\ step <= size - index
          /\ size - index \in Nat /\ ~ (size + 1 - index < step)
      BY <1>0, <2>1, <2>3, <3>1
    <3>3. PICK q : q = (size - i + step - 1) \div step
      OBVIOUS
    <3>4. (size - index + step - 1) \div step = q + 1 /\ (size - index) % step = (size - i) % step
      BY <2>1, <3>2, <3>3, OneTurn
    <3>5. q \in Nat /\ Len(Ticks(i)) = q /\ Len(Ticks(index)) = q + 1
      <4> HIDE DEF Ticks, End
      <4> QED BY <1>2, <2>1, <3>2, <3>3, <3>4
    <3>6. Ticks(index)[1] = index
      <4>1. 1 \in 1 .. q + 1 /\ index + (1 - 1) * step = index
        BY <1>0, <3>5
      <4> HIDE DEF Ticks, End
      <4> QED BY <1>2, <2>1, <3>4, <4>1
    <3>7. ASSUME NEW n \in 1 .. q PROVE Ticks(index)[n + 1] = Ticks(i)[n]
      <4>1. n + 1 \in 1 .. q + 1
        BY <3>5
      <4>2. index + (n + 1 - 1) * step = i + (n - 1) * step
        <5>1. n \in Nat /\ n + 1 - 1 = n /\ n * step = (n - 1) * step + step
          BY <3>5
        <5> QED BY <1>0, <3>1, <5>1
      <4>3. /\ \A m \in 1 .. q + 1 : Ticks(index)[m] = index + (m - 1) * step
            /\ \A m \in 1 .. q : Ticks(i)[m] = i + (m - 1) * step
        <5> HIDE DEF Ticks, End
        <5> QED BY <1>2, <2>1, <3>2, <3>3, <3>4
      <4> HIDE DEF Ticks, End
      <4> QED BY <4>1, <4>2, <4>3
    <3>8. End(index) = End(i)
      BY <3>4
    <3>9. From(size, step, index) = <<index>> \o From(size, step, i)
      <4> HIDE DEF Ticks, End
      <4>1. From(size, step, index) = Ticks(index) \o End(i) /\ From(size, step, i) = Ticks(i) \o End(i)
        BY <1>1, <2>1, <3>2, <3>8
      <4>2. Ticks(index) \in Seq(Int) /\ Ticks(i) \in Seq(Int) /\ End(i) \in Seq(Int) /\ index \in Int
        BY <1>0, <1>2, <2>1, <3>2
      <4>3. Ticks(index) \o End(i) = <<index>> \o (Ticks(i) \o End(i))
        BY <3>5, <3>6, <3>7, <4>2, JoinThree
      <4> QED BY <4>1, <4>3
    <3> QED BY <1>5, <3>1, <3>2, <3>9 DEF Turn
  <2> QED BY <2>2, <2>3
<1> QED BY <1>0, <1>3, <1>4, <1>5

LEMMA LoopGathers ==
  ASSUME NEW size \in Nat, NEW step \in Nat \ {0}
  PROVE  Gathered(size, step) = GatherElement(size, step)
<1> DEFINE D == 0 .. size + 1
           f == [index \in D |-> From(size, step, index)]
<1>1. ASSUME NEW index \in D PROVE f[index] = Turn(size, step, index, f[index + step])
  <2>1. f[index] = Turn(size, step, index, From(size, step, index + step))
    BY <1>1, FromTurns
  <2>2. CASE size + 1 - index < step
    BY <2>1, <2>2 DEF Turn
  <2>3. CASE ~ (size + 1 - index < step)
    <3>1. index + step \in D
      BY <1>1, <2>3
    <3> QED BY <2>1, <3>1
  <2> QED BY <2>2, <2>3
<1>2. f = [index \in D |-> f[index]]
  OBVIOUS
<1>3. PICK loop : /\ loop = [index \in D |-> Turn(size, step, index, loop[index + step])]
                  /\ Gathered(size, step) = loop[0]
  <2>1. PICK loop : loop = CHOOSE g : g = [index \in D |-> Turn(size, step, index, g[index + step])]
    OBVIOUS
  <2>2. f = [index \in D |-> Turn(size, step, index, f[index + step])]
    <3> HIDE DEF f, D
    <3> QED BY <1>1, <1>2
  <2>3. loop = [index \in D |-> Turn(size, step, index, loop[index + step])]
    <3> HIDE DEF f, D
    <3> QED BY <2>1, <2>2, Zenon
  <2>4. Gathered(size, step) = loop[0]
    BY <2>1 DEF Gathered, Turn
  <2> QED BY <2>3, <2>4
<1> HIDE DEF f
<1> DEFINE Agree(m) == \A index \in D : size + 1 - m <= index => loop[index] = f[index]
           S == {m \in 0 .. size + 1 : Agree(m)}
<1>4. Agree(0)
  <2> SUFFICES ASSUME NEW index \in D, size + 1 - 0 <= index PROVE loop[index] = f[index]
    OBVIOUS
  <2>1. size + 1 - index = 0
    OBVIOUS
  <2> QED BY <1>1, <1>3, <2>1 DEF Turn
<1>5. ASSUME NEW m \in 0 .. size, Agree(m) PROVE Agree(m + 1)
  <2> SUFFICES ASSUME NEW index \in D, size + 1 - (m + 1) <= index PROVE loop[index] = f[index]
    OBVIOUS
  <2>1. /\ loop[index] = Turn(size, step, index, loop[index + step])
        /\ f[index] = Turn(size, step, index, f[index + step])
    BY <1>1, <1>3
  <2>2. CASE size + 1 - index < step
    BY <2>1, <2>2 DEF Turn
  <2>3. CASE ~ (size + 1 - index < step)
    <3>1. index + step \in D /\ size + 1 - m <= index + step
      BY <2>3
    <3>2. loop[index + step] = f[index + step]
      BY <1>5, <3>1
    <3> QED BY <2>1, <3>2
  <2> QED BY <2>2, <2>3
<1>6. 0 \in S /\ \A m \in 0 .. size + 1 - 1 : m \in S => m + 1 \in S
  <2>1. \A m \in 0 .. size + 1 - 1 : m \in 0 .. size /\ m + 1 \in 0 .. size + 1
    OBVIOUS
  <2>2. 0 \in 0 .. size + 1
    OBVIOUS
  <2> HIDE DEF Agree
  <2> QED BY <1>4, <1>5, <2>1, <2>2
<1>7. size + 1 \in S
  <2> HIDE DEF S
  <2>1. 0 .. size + 1 \subseteq S
    BY <1>6, CountingUp
  <2> QED BY <2>1
<1>8. loop[0] = f[0]
  BY <1>7
<1>9. f[0] = GatherElement(size, step)
  <2>1. f[0] = From(size, step, 0)
    BY DEF f
  <2>2. From(size, step, 0) = [n \in 1 .. (size - 0 + step - 1) \div step |-> 0 + (n - 1) * step]
                                \o (IF (size - 0) % step = 0 THEN <<>> ELSE <<size - 1>>)
    BY DEF From
  <2>3. size - 0 = size /\ \A n \in Int : 0 + (n - 1) * step = (n - 1) * step
    OBVIOUS
  <2>4. [n \in 1 .. (size + step - 1) \div step |-> 0 + (n - 1) * step]
          = [n \in 1 .. (size + step - 1) \div step |-> (n - 1) * step]
    BY <2>3
  <2> QED BY <2>1, <2>2, <2>3, <2>4 DEF GatherElement
<1> QED BY <1>3, <1>8, <1>9

LEMMA GatheredFromInv ==
  ASSUME GraphLineConstantsOK, LineInv, SampledAre
  PROVE  SampleIsGathered
<1> SUFFICES ASSUME NEW n \in DOMAIN sampled
             PROVE  sampled[n] = Gathered(Size(views[n]), Step)
  BY DEF SampleIsGathered
<1>1. pc \in {"add", "done"} /\ n \in DOMAIN views
  BY DEF LineInv, TypeOK, SampledAre
<1>2. Size(views[n]) \in Nat /\ Step \in Nat \ {0}
  BY <1>1, SizesAreOK, StepIsPositive DEF LineInv
<1>3. sampled[n] = GatherElement(Size(views[n]), Step)
  BY <1>1 DEF SampledAre
<1> QED BY <1>2, <1>3, LoopGathers

(* Sampling: what is drawn of a view is what the loop of GatherElement      *)
(* pushes, turn by turn, for views of any size and any step.                *)
THEOREM SamplesAreGathered == ASSUME GraphLineConstantsOK PROVE Spec => []SampleIsGathered
<1>1. Init => SampledAre
  BY DEF Init, SampledAre
<1>2. LineInv /\ SampledAre => SampleIsGathered
  BY GatheredFromInv
<1> QED BY InitLine, NextLine, NextSampled, <1>1, <1>2, PTL DEF Spec

=============================================================================
