---------------------------- MODULE NumpyProofs ----------------------------
(***************************************************************************)
(* The theorems of NumpyArrays and NumpyDates, for arrays of any shape and *)
(* strides and datetime64 values of any unit: the walk reads every element *)
(* once and nothing else, an array is written whole or not at all, it is   *)
(* written exactly if its elements have dates, and a date or an offset is  *)
(* the one that was meant.                                                 *)
(***************************************************************************)
EXTENDS NumpyDates, SequenceTheorems, SetFacts, TLAPS

-----------------------------------------------------------------------------
(* What may be written: values and dates, and what stands between them.    *)
Objects == Arrays \cup Scalars
Values == {0} \cup UNION {{a.values[k] : k \in DOMAIN a.values} : a \in Objects}
Units == {None} \cup {ParseDt64(a.dtype) : a \in Objects}
Dates == {WriteDatetime(Dt64ToParts(v, u), offset, o) :
            v \in Values, u \in Units, offset \in {0, None}, o \in OptSets}
Tokens == {"before", "[", "]", ",", "null"} \cup {<<"newline", n>> : n \in Nat} \cup Values \cup Dates

Frame == [i : Nat, p : Int]
Spans == Bytes(obj)

(* The rows that loops fs are in follow each other in memory: each starts  *)
(* where the last element of the loop around it that was begun does.       *)
Chain(fs) ==
  /\ Len(fs) <= Rank
  /\ \A d \in 1 .. Len(fs) : obj.shape[d] # 0 /\ fs[d].i <= obj.shape[d]
  /\ \A d \in 1 .. Len(fs) - 1 : fs[d].i >= 1
  /\ ~Empty =>
       /\ \A d \in 1 .. Len(fs) : fs[d].p + Spans[d] <= Spans[1]
       /\ fs # <<>> => fs[1].p = 0
       /\ \A d \in 1 .. Len(fs) - 1 : fs[d + 1].p = fs[d].p + (fs[d].i - 1) * Spans[d + 1]

(* Where the innermost of them goes on: what is before it is read.         *)
Reached(fs) ==
  IF fs = <<>> THEN Spans[1] ELSE fs[Len(fs)].p + fs[Len(fs)].i * Spans[Len(fs) + 1]

ObjInv ==
  /\ obj \in Objects
  /\ pc \in {"array", "classify", "walk", "walking"} => obj \in Arrays
  /\ pc \in {"scalar", "value"} => obj \in Scalars
  /\ pc \in {"walk", "walking"} => Classify(obj) = "ok"
  /\ unit \in Units

OutInv ==
  /\ out \in Seq(Tokens)
  /\ pc \in {"walk", "walking"} => start = 1 /\ Len(out) >= 1 /\ out[1] = "before"
  /\ pc \notin {"walk", "walking", "written"} => out = <<"before">>

ReadsInv ==
  /\ reads \in Seq(Int)
  /\ \A k \in 1 .. Len(reads) : reads[k] = (k - 1) * Size
  /\ Len(reads) <= Len(obj.values)
  /\ pc \notin {"walking", "written", "declined"} => reads = <<>>
  /\ pc = "written" /\ IsArray => Len(reads) = Len(obj.values)

WalkInv ==
  /\ frames \in Seq(Frame)
  /\ pc # "walking" => frames = <<>>
  /\ pc = "walking" => /\ Chain(frames)
                       /\ ~Empty => Size * Len(reads) = Reached(frames)
                       /\ Empty => reads = <<>>

Inv == TypeOK /\ WholeOrNothing /\ ObjInv /\ OutInv /\ ReadsInv /\ WalkInv

-----------------------------------------------------------------------------
(* Arithmetic.                                                             *)

LEMMA Times ==
  ASSUME NEW i \in Nat, NEW n \in Nat, NEW b \in Nat
  PROVE  /\ i * b \in Nat /\ (i + 1) * b = i * b + b /\ 0 * b = 0 /\ 1 * b = b
         /\ i < n => i * b + b <= n * b
<1>1. i * b \in Nat /\ n * b \in Nat /\ (i + 1) * b = i * b + b /\ 0 * b = 0 /\ 1 * b = b
  OBVIOUS
<1>2. ASSUME i < n PROVE i * b + b <= n * b
  <2>1. PICK k \in Nat : n = (i + 1) + k
    <3>1. n - (i + 1) \in Nat /\ n = (i + 1) + (n - (i + 1))
      BY <1>2
    <3> QED BY <3>1
  <2>2. n * b = (i + 1) * b + k * b /\ k * b \in Nat
    BY <2>1
  <2> QED BY <1>1, <2>2
<1> QED BY <1>1, <1>2

LEMMA Cancels ==
  ASSUME NEW s \in Nat \ {0}, NEW m \in Nat, NEW n \in Nat
  PROVE  /\ s * m = s * n => m = n
         /\ s * m + s <= s * n => m + 1 <= n
         /\ s * m <= s * n => m <= n
<1>1. ASSUME n < m PROVE s * n + s <= s * m
  BY <1>1, Times
<1>2. s * m \in Nat /\ s * n \in Nat
  OBVIOUS
<1>3. s * m <= s * n => m <= n
  BY <1>1, <1>2
<1>4. s * m = s * n => m = n
  <2>1. ASSUME m < n PROVE s * m + s <= s * n
    BY <2>1, Times
  <2> QED BY <1>1, <1>2, <2>1
<1>5. s * m + s <= s * n => m + 1 <= n
  <2>1. s * (m + 1) = s * m + s
    OBVIOUS
  <2>2. ASSUME n < m + 1 PROVE s * n <= s * m
    <3>1. n = m \/ n < m
      BY <2>2
    <3>2. ASSUME n < m PROVE s * n + s <= s * m
      BY <3>2, Times
    <3> QED BY <1>2, <3>1, <3>2
  <2> QED BY <1>2, <2>2
<1> QED BY <1>3, <1>4, <1>5

-----------------------------------------------------------------------------
(* What an array is.                                                       *)

LEMMA ArrayIs ==
  ASSUME NEW a \in Arrays
  PROVE  /\ a.elem[2] \in Nat \ {0} /\ a.shape \in Seq(Nat) /\ a.strides \in Seq(Int)
         /\ Len(a.strides) = Len(a.shape)
         /\ Len(a.values) \in Nat /\ DOMAIN a.values = 1 .. Len(a.values)
         /\ "shape" \in DOMAIN a
         /\ a.contiguous =>
              /\ Bytes(a)[1] = a.elem[2] * Len(a.values)
              /\ \A d \in 1 .. Len(a.shape) :
                   \/ a.strides[d] = Bytes(a)[d + 1]
                   \/ a.shape[d] = 1 \/ \E e \in 1 .. Len(a.shape) : a.shape[e] = 0
BY NumpyAssumption DEF Array

(* The recursion that defines Bytes has a solution.                        *)
BytesRule(sh, size, b) ==
  /\ b \in [1 .. Len(sh) + 1 -> Nat] /\ b[Len(sh) + 1] = size
  /\ \A d \in 1 .. Len(sh) : b[d] = sh[d] * b[d + 1]

LEMMA BytesExist ==
  ASSUME NEW sh \in Seq(Nat), NEW size \in Nat
  PROVE  \E b : BytesRule(sh, size, b)
<1> DEFINE n == Len(sh)
           s == [p \in (1 .. n) \X Nat |-> sh[n + 1 - p[1]] * p[2]]
<1>1. n \in Nat /\ \A d \in 1 .. n : sh[d] \in Nat
  BY LenProperties
<1>2. \A k \in 1 .. n : \A v \in Nat : s[<<k, v>>] = sh[n + 1 - k] * v
  OBVIOUS
<1> HIDE DEF s, n
<1>3. StepOf(n, Nat, s)
  <2> SUFFICES ASSUME NEW k \in 1 .. n, NEW v \in Nat PROVE s[<<k, v>>] \in Nat
    BY DEF StepOf
  <2>1. n + 1 - k \in 1 .. n
    BY <1>1
  <2>2. sh[n + 1 - k] \in Nat
    BY <1>1, <2>1
  <2> QED BY <1>2, <2>2, SMTT(60)
<1>4. PICK f : RunOf(n, Nat, size, s, f)
  BY <1>1, <1>3, Recursion
<1>5. f \in [0 .. n -> Nat] /\ f[0] = size /\ \A k \in 1 .. n : f[k] = s[<<k, f[k - 1]>>]
  BY <1>4 DEF RunOf
<1> DEFINE b == [d \in 1 .. n + 1 |-> f[n + 1 - d]]
<1>6. b \in [1 .. n + 1 -> Nat] /\ b[n + 1] = size
  <2>1. \A d \in 1 .. n + 1 : n + 1 - d \in 0 .. n
    BY <1>1
  <2>2. n + 1 \in 1 .. n + 1 /\ n + 1 - (n + 1) = 0
    BY <1>1
  <2> QED BY <1>5, <2>1, <2>2
<1>7. ASSUME NEW d \in 1 .. n PROVE b[d] = sh[d] * b[d + 1]
  <2> DEFINE k == n + 1 - d
  <2>1. /\ k \in 1 .. n /\ k - 1 \in 0 .. n /\ k - 1 = n + 1 - (d + 1) /\ n + 1 - k = d
        /\ d \in 1 .. n + 1 /\ d + 1 \in 1 .. n + 1
    BY <1>1
  <2>2. b[d] = f[k] /\ b[d + 1] = f[k - 1]
    BY <2>1
  <2>3. f[k] = s[<<k, f[k - 1]>>] /\ f[k - 1] \in Nat
    BY <1>5, <2>1
  <2>4. s[<<k, f[k - 1]>>] = sh[n + 1 - k] * f[k - 1]
    BY <1>2, <2>1, <2>3
  <2> QED BY <2>1, <2>2, <2>3, <2>4
<1> HIDE DEF b
<1>8. BytesRule(sh, size, b)
  BY <1>6, <1>7 DEF BytesRule, n
<1> QED BY <1>8

LEMMA BytesAre ==
  ASSUME NEW a, a.shape \in Seq(Nat), a.elem[2] \in Nat
  PROVE  BytesRule(a.shape, a.elem[2], Bytes(a))
<1> DEFINE n == Len(a.shape)
           Rule(b) == [d \in 1 .. n + 1 |-> IF d = n + 1 THEN a.elem[2] ELSE a.shape[d] * b[d + 1]]
<1>1. PICK b : BytesRule(a.shape, a.elem[2], b)
  BY BytesExist
<1>2. n \in Nat
  BY LenProperties
<1>3. b = Rule(b)
  <2>1. \A d \in 1 .. n + 1 : b[d] = IF d = n + 1 THEN a.elem[2] ELSE a.shape[d] * b[d + 1]
    BY <1>1, <1>2 DEF BytesRule
  <2> QED BY <1>1, <2>1 DEF BytesRule
<1>4. Bytes(a) = CHOOSE c : c = Rule(c)
  BY DEF Bytes
<1>5. Bytes(a) = Rule(Bytes(a))
  <2> DEFINE c == CHOOSE c : c = Rule(c)
  <2>1. c = Rule(c)
    BY <1>3
  <2> QED BY <1>4, <2>1
<1> DEFINE c == Bytes(a)
           S == {k \in 0 .. n : c[n + 1 - k] \in Nat}
<1> HIDE DEF n
<1>6. c = [d \in 1 .. n + 1 |-> IF d = n + 1 THEN a.elem[2] ELSE a.shape[d] * c[d + 1]]
  BY <1>5
<1> HIDE DEF c
<1>7. c[n + 1] = a.elem[2] /\ \A d \in 1 .. n : c[d] = a.shape[d] * c[d + 1]
  <2>1. n + 1 \in 1 .. n + 1 /\ \A d \in 1 .. n : d \in 1 .. n + 1 /\ d # n + 1
    BY <1>2
  <2> QED BY <1>6, <2>1
<1>8. 0 .. n \subseteq S
  <2>1. 0 \in S
    BY <1>2, <1>7
  <2>2. ASSUME NEW k \in 0 .. n - 1, k \in S PROVE k + 1 \in S
    <3>1. n + 1 - (k + 1) \in 1 .. n /\ n + 1 - (k + 1) + 1 = n + 1 - k /\ k + 1 \in 0 .. n
      BY <1>2
    <3>2. a.shape[n + 1 - (k + 1)] \in Nat
      BY <3>1 DEF n
    <3>3. c[n + 1 - k] \in Nat
      BY <2>2
    <3>4. c[n + 1 - (k + 1)] = a.shape[n + 1 - (k + 1)] * c[n + 1 - k]
      BY <1>7, <3>1
    <3>5. c[n + 1 - (k + 1)] \in Nat
      BY <3>2, <3>3, <3>4
    <3> QED BY <3>1, <3>5
  <2> HIDE DEF S
  <2> QED BY <1>2, <2>1, <2>2, BoundedInduction
<1>9. \A d \in 1 .. n + 1 : c[d] \in Nat
  <2> SUFFICES ASSUME NEW d \in 1 .. n + 1 PROVE c[d] \in Nat
    OBVIOUS
  <2>1. n + 1 - d \in 0 .. n /\ n + 1 - (n + 1 - d) = d
    BY <1>2
  <2> QED BY <1>8, <2>1
<1>10. c \in [1 .. n + 1 -> Nat]
  BY <1>6, <1>9
<1> QED BY <1>7, <1>10 DEF BytesRule, c, n

(* In an array with an empty dimension there are no bytes.                 *)
LEMMA EmptyHasNoBytes ==
  ASSUME NEW sh \in Seq(Nat), NEW size \in Nat, NEW b, BytesRule(sh, size, b),
         \E d \in 1 .. Len(sh) : sh[d] = 0
  PROVE  b[1] = 0
<1> DEFINE n == Len(sh)
           T == {d \in 1 .. n : b[d] = 0}
<1>1. n \in Nat /\ (\A d \in 1 .. n : sh[d] \in Nat) /\ b \in [1 .. n + 1 -> Nat]
      /\ \A d \in 1 .. n : b[d] = sh[d] * b[d + 1]
  BY LenProperties DEF BytesRule
<1>2. PICK e \in 1 .. n : sh[e] = 0
  OBVIOUS
<1> HIDE DEF n
<1>3. e \in T
  <2>1. b[e] = 0 * b[e + 1] /\ b[e + 1] \in Nat
    BY <1>1, <1>2, SMTT(60)
  <2> QED BY <2>1
<1>4. T \subseteq Nat /\ T # {}
  BY <1>3
<1>5. PICK x \in T : \A y \in T : x <= y
  BY <1>4, LeastNumber
<1>6. CASE x = 1
  BY <1>6
<1>7. CASE x # 1
  <2>1. x \in 1 .. n /\ b[x] = 0
    OBVIOUS
  <2>2. x - 1 \in 1 .. n /\ (x - 1) + 1 = x
    BY <1>1, <1>7, <2>1
  <2>3. b[x - 1] = sh[x - 1] * 0 /\ sh[x - 1] \in Nat
    BY <1>1, <2>1, <2>2
  <2>4. x - 1 \in T
    BY <2>2, <2>3
  <2>5. x <= x - 1
    BY <1>5, <2>4
  <2> QED BY <1>1, <2>1, <2>5
<1> QED BY <1>6, <1>7

Walking == pc \in {"walk", "walking"}

LEMMA ObjFacts ==
  ASSUME Inv, Walking
  PROVE  /\ IsArray /\ Rank \in Nat /\ Rank >= 1 /\ obj.shape \in Seq(Nat)
         /\ \A d \in 1 .. Rank : obj.shape[d] \in Nat /\ obj.strides[d] \in Int
         /\ Size \in Nat \ {0} /\ Len(obj.values) \in Nat
         /\ Spans \in [1 .. Rank + 1 -> Nat] /\ Spans[Rank + 1] = Size
         /\ \A d \in 1 .. Rank : Spans[d] = obj.shape[d] * Spans[d + 1]
         /\ Spans[1] = Size * Len(obj.values)
         /\ \A d \in 1 .. Rank : obj.strides[d] = Spans[d + 1] \/ obj.shape[d] = 1 \/ Empty
         /\ Empty => Len(obj.values) = 0
<1>1. obj \in Arrays /\ Classify(obj) = "ok"
  BY DEF Inv, ObjInv, Walking
<1>2. obj.contiguous /\ obj.shape # <<>>
  BY <1>1 DEF Classify
<1>3. /\ obj.elem[2] \in Nat \ {0} /\ obj.shape \in Seq(Nat) /\ obj.strides \in Seq(Int)
      /\ Len(obj.strides) = Len(obj.shape)
      /\ Len(obj.values) \in Nat
      /\ "shape" \in DOMAIN obj
      /\ Bytes(obj)[1] = obj.elem[2] * Len(obj.values)
      /\ \A d \in 1 .. Len(obj.shape) :
           \/ obj.strides[d] = Bytes(obj)[d + 1]
           \/ obj.shape[d] = 1 \/ \E e \in 1 .. Len(obj.shape) : obj.shape[e] = 0
  BY <1>1, <1>2, ArrayIs
<1>4. BytesRule(obj.shape, obj.elem[2], Bytes(obj))
  BY <1>3, BytesAre
<1>5. /\ Rank \in Nat /\ Rank >= 1
      /\ \A d \in 1 .. Rank : obj.shape[d] \in Nat /\ obj.strides[d] \in Int
  BY <1>2, <1>3, LenProperties, EmptySeq DEF Rank
<1>6. Empty => Len(obj.values) = 0
  <2> SUFFICES ASSUME Empty PROVE Len(obj.values) = 0
    OBVIOUS
  <2>1. Bytes(obj)[1] = 0
    BY <1>3, <1>4, EmptyHasNoBytes DEF Empty, Rank
  <2>2. obj.elem[2] * Len(obj.values) = obj.elem[2] * 0
    BY <1>3, <2>1
  <2> QED BY <1>3, <2>2, Cancels
<1>7. /\ Spans \in [1 .. Rank + 1 -> Nat] /\ Spans[Rank + 1] = Size
      /\ \A d \in 1 .. Rank : Spans[d] = obj.shape[d] * Spans[d + 1]
  BY <1>4 DEF BytesRule, Spans, Rank, Size
<1> QED BY <1>3, <1>5, <1>6, <1>7 DEF IsArray, Spans, Rank, Size, Empty

(* The frames as they are used.                                            *)
LEMMA FrameFacts ==
  ASSUME Inv, InLoop
  PROVE  /\ Walking /\ frames \in Seq(Frame) /\ Dim \in 1 .. Rank /\ Dim \in Nat
         /\ Top.i \in Nat /\ Top.p \in Int /\ Chain(frames)
         /\ Advanced \in Seq(Frame) /\ Len(Advanced) = Dim /\ Advanced # <<>>
         /\ Advanced[Dim] = [i |-> Top.i + 1, p |-> Top.p]
         /\ \A d \in 1 .. Dim : d # Dim => Advanced[d] = frames[d]
<1>1. Walking /\ frames \in Seq(Frame) /\ frames # <<>> /\ Chain(frames)
  BY DEF Inv, WalkInv, InLoop, Walking
<1>2. Rank \in Nat
  BY <1>1, ObjFacts
<1>3. Len(frames) \in Nat /\ Len(frames) # 0 /\ Len(frames) <= Rank
      /\ frames \in [1 .. Len(frames) -> Frame]
  BY <1>1, LenProperties, EmptySeq DEF Chain
<1>4. Dim \in 1 .. Rank /\ Dim \in Nat /\ Dim \in 1 .. Len(frames)
  BY <1>2, <1>3 DEF Dim
<1>5. Top \in Frame
  BY <1>3, <1>4 DEF Top
<1>6. Top.i \in Nat /\ Top.p \in Int /\ Top = [i |-> Top.i, p |-> Top.p]
  BY <1>5 DEF Frame
<1> DEFINE g == [i |-> Top.i + 1, p |-> Top.p]
<1>7. g \in Frame
  BY <1>6 DEF Frame
<1>8. Advanced = [frames EXCEPT ![Dim] = g]
  <2>1. Advanced = [frames EXCEPT ![Dim] = [Top EXCEPT !.i = @ + 1]]
    BY DEF Advanced, Top
  <2>2. [Top EXCEPT !.i = @ + 1] = g
    BY <1>6
  <2> QED BY <2>1, <2>2
<1> HIDE DEF g
<1>9. /\ Advanced \in [1 .. Len(frames) -> Frame] /\ Advanced[Dim] = g
      /\ \A d \in 1 .. Dim : d # Dim => Advanced[d] = frames[d]
  BY <1>3, <1>4, <1>7, <1>8, Zenon DEF Dim
<1>10. Advanced \in Seq(Frame) /\ Len(Advanced) = Dim
  BY <1>1, <1>4, <1>7, <1>8, ExceptSeq DEF Dim
<1>11. Advanced # <<>>
  BY <1>4, <1>10, EmptySeq
<1> QED BY <1>1, <1>4, <1>6, <1>9, <1>10, <1>11 DEF g

(* The next address is where reading stopped, and what is there is inside. *)
LEMMA NextIs ==
  ASSUME Inv, InLoop, Top.i < obj.shape[Dim], ~Empty
  PROVE  /\ NextAddress \in Nat /\ NextAddress = Size * Len(reads)
         /\ NextAddress + Spans[Dim + 1] <= Spans[1]
         /\ Top.p + (Top.i + 1) * Spans[Dim + 1] = NextAddress + Spans[Dim + 1]
<1> DEFINE i == Top.i
           p == Top.p
           n == obj.shape[Dim]
           b == Spans[Dim + 1]
           stride == obj.strides[Dim]
<1>1. /\ Walking /\ Dim \in 1 .. Rank /\ Dim \in Nat /\ i \in Nat /\ p \in Int /\ Chain(frames)
      /\ frames \in Seq(Frame)
  BY FrameFacts
<1>2. /\ n \in Nat /\ b \in Nat /\ stride \in Int /\ Spans[Dim] = n * b /\ Spans[1] \in Nat
      /\ stride = b \/ n = 1
      /\ Size \in Nat \ {0} /\ Rank \in Nat
  <2>1. Dim + 1 \in 1 .. Rank + 1 /\ 1 \in 1 .. Rank + 1
    BY <1>1, ObjFacts
  <2> QED BY <1>1, <2>1, ObjFacts
<1>3. p + Spans[Dim] <= Spans[1] /\ Dim = Len(frames) /\ frames # <<>>
  BY <1>1 DEF Chain, Dim, Top, InLoop
<1>4. Size * Len(reads) = p + i * b
  BY <1>1, <1>3 DEF Inv, WalkInv, InLoop, Reached, Top, Dim
<1>5. Len(reads) \in Nat
  BY LenProperties DEF Inv, ReadsInv
<1>6. i * stride = i * b
  <2>1. CASE n = 1
    <3>1. i = 0
      BY <1>1, <2>1
    <3> QED BY <1>1, <1>2, <3>1
  <2> QED BY <1>2, <2>1
<1>7. NextAddress = p + i * b
  BY <1>6 DEF NextAddress
<1> HIDE DEF i, p, n, b, stride
<1>8. i * b \in Nat /\ (i + 1) * b = i * b + b /\ i * b + b <= n * b /\ n * b \in Nat
  <2>1. i < n
    BY DEF i, n
  <2> QED BY <1>1, <1>2, <2>1, Times
<1>9. Size * Len(reads) \in Nat
  BY <1>2, <1>5
<1>10. NextAddress = Size * Len(reads) /\ NextAddress \in Nat
  BY <1>4, <1>7, <1>9
<1>11. NextAddress + b <= Spans[1] /\ p + (i + 1) * b = NextAddress + b
  BY ONLY <1>1, <1>2, <1>3, <1>7, <1>8
<1> QED BY <1>10, <1>11 DEF i, p, b

-----------------------------------------------------------------------------
(* The text.                                                               *)

LEMMA AtIs ==
  ASSUME NEW p, obj \in Objects
  PROVE  At(p) \in Values
BY DEF At, Values

LEMMA LeafIs ==
  ASSUME NEW v \in Values, unit \in Units, opts \in OptSets
  PROVE  Leaf(v) \in Seq(Tokens)
<1>1. v \in Tokens /\ "null" \in Tokens
  BY DEF Tokens
<1> DEFINE w == WriteDatetime(Dt64ToParts(v, unit), IF "naive_utc" \in opts THEN 0 ELSE None, opts)
<1>2. w \in Tokens
  <2>1. w \in Dates
    BY DEF Dates
  <2> HIDE DEF w
  <2> QED BY <2>1 DEF Tokens
<1>3. <<v>> \in Seq(Tokens) /\ <<"null">> \in Seq(Tokens)
  BY <1>1
<1>4. CASE ~NeedsUnit
  BY <1>3, <1>4 DEF Leaf
<1>5. CASE NeedsUnit /\ Parts(v) = None
  BY <1>3, <1>5 DEF Leaf
<1>6. CASE NeedsUnit /\ Parts(v) # None
  <2>1. Leaf(v) = <<w>>
    BY <1>6 DEF Leaf, Parts
  <2> HIDE DEF w
  <2> QED BY <1>2, <2>1
<1> QED BY <1>4, <1>5, <1>6

LEMMA RowIs ==
  ASSUME NEW p, NEW n \in Nat, NEW stride, obj \in Objects
  PROVE  IntRow(p, n, stride) \in Seq(Tokens)
<1> DEFINE m == 2 * n + 1
           Tok(k) == IF k = 1 THEN "[" ELSE IF k = 2 * n + 1 THEN "]"
                     ELSE IF k % 2 = 1 THEN "," ELSE At(p + ((k \div 2) - 1) * stride)
<1>1. m \in Nat
  OBVIOUS
<1>2. \A k : Tok(k) \in Tokens
  <2> SUFFICES ASSUME NEW k PROVE Tok(k) \in Tokens
    OBVIOUS
  <2>1. At(p + ((k \div 2) - 1) * stride) \in Tokens
    BY AtIs DEF Tokens
  <2>2. "[" \in Tokens /\ "]" \in Tokens /\ "," \in Tokens
    BY DEF Tokens
  <2> QED BY <2>1, <2>2
<1>3. IntRow(p, n, stride) = [k \in 1 .. m |-> Tok(k)]
  BY DEF IntRow
<1> HIDE DEF Tok, m
<1>4. [k \in 1 .. m |-> Tok(k)] \in [1 .. m -> Tokens]
  BY <1>2
<1> QED BY <1>1, <1>3, <1>4, SeqDef

LEMMA BetweenAre ==
  /\ \A n \in Nat : Newline(n) \in Seq(Tokens)
  /\ \A i : Comma(i) \in Seq(Tokens)
  /\ <<>> \in Seq(Tokens) /\ <<"[">> \in Seq(Tokens) /\ <<"]">> \in Seq(Tokens)
  /\ <<"[", "]">> \in Seq(Tokens)
<1>1. "[" \in Tokens /\ "]" \in Tokens /\ "," \in Tokens /\ \A n \in Nat : <<"newline", n>> \in Tokens
  BY DEF Tokens
<1>2. ASSUME NEW n \in Nat PROVE Newline(n) \in Seq(Tokens)
  <2> DEFINE t == <<"newline", n>>
  <2>1. t \in Tokens
    BY <1>1
  <2>2. Newline(n) = IF Indent THEN <<t>> ELSE <<>>
    BY DEF Newline
  <2> HIDE DEF t
  <2> QED BY <2>1, <2>2
<1> DEFINE open == "["
           close == "]"
           comma == ","
<1>4. open \in Tokens /\ close \in Tokens /\ comma \in Tokens
  BY <1>1
<1>5. \A i : Comma(i) = <<comma>> \/ Comma(i) = <<>>
  BY DEF Comma
<1> HIDE DEF open, close, comma
<1>6. /\ <<>> \in Seq(Tokens) /\ <<open>> \in Seq(Tokens) /\ <<close>> \in Seq(Tokens)
      /\ <<comma>> \in Seq(Tokens) /\ <<open, close>> \in Seq(Tokens)
  BY <1>4
<1>7. \A i : Comma(i) \in Seq(Tokens)
  BY <1>5, <1>6
<1> QED BY <1>2, <1>6, <1>7 DEF open, close

(* Text is added behind the text before the array.                         *)
Behind(s) == s \in Seq(Tokens) /\ Len(s) >= 1 /\ s[1] = "before"

LEMMA Emits ==
  ASSUME NEW s, Behind(s), NEW ts \in Seq(Tokens)
  PROVE  Behind(s \o ts)
<1>1. /\ s \o ts \in Seq(Tokens) /\ Len(s \o ts) = Len(s) + Len(ts)
      /\ \A i \in 1 .. Len(s) + Len(ts) : (s \o ts)[i] = IF i <= Len(s) THEN s[i] ELSE ts[i - Len(s)]
  BY ConcatProperties DEF Behind
<1>2. Len(s) \in Nat /\ Len(ts) \in Nat
  BY LenProperties DEF Behind
<1> QED BY <1>1, <1>2 DEF Behind

-----------------------------------------------------------------------------
(* walk(dim, p).                                                           *)

(* It enters dimension dim at address p out of the loops fs.               *)
Place(dim, p, fs) ==
  /\ dim \in 1 .. Rank /\ p \in Int /\ fs \in Seq(Frame) /\ Chain(fs)
  /\ Len(fs) = dim - 1
  /\ fs # <<>> => fs[Len(fs)].i >= 1
  /\ ~Empty => /\ p = Size * Len(reads)
               /\ p + Spans[dim] = Reached(fs) /\ p + Spans[dim] <= Spans[1]
               /\ fs = <<>> => p = 0
  /\ Empty => reads = <<>>

(* What it has to keep: the loops and what they read.                      *)
Goes ==
  /\ frames \in Seq(Frame) /\ Chain(frames)
  /\ ~Empty => Size * Len(reads) = Reached(frames)
  /\ Empty => reads = <<>>
  /\ reads \in Seq(Int)
  /\ \A k \in 1 .. Len(reads) : reads[k] = (k - 1) * Size
  /\ Len(reads) <= Len(obj.values)

LEMMA ChainKept ==
  ASSUME obj' = obj, NEW fs
  PROVE  (Chain(fs) <=> Chain(fs)') /\ Reached(fs)' = Reached(fs) /\ (Empty' <=> Empty)
         /\ Size' = Size /\ Rank' = Rank /\ Spans' = Spans
<1>1. Rank' = Rank /\ Size' = Size /\ Spans' = Spans /\ (Empty' <=> Empty)
  BY DEF Rank, Size, Spans, Empty
<1> QED BY <1>1 DEF Chain, Reached

(* An empty row is written at once.                                        *)
LEMMA EntersEmpty ==
  ASSUME Inv, Walking, NEW dim, NEW p, NEW fs, Place(dim, p, fs), obj' = obj,
         obj.shape[dim] = 0, frames' = fs, reads' = reads
  PROVE  Goes'
<1>1. Empty
  BY DEF Place, Empty
<1>2. Chain(fs)' /\ Empty' /\ Size' = Size
  BY <1>1, ChainKept DEF Place
<1>3. /\ reads \in Seq(Int) /\ Len(reads) <= Len(obj.values)
      /\ \A k \in 1 .. Len(reads) : reads[k] = (k - 1) * Size
  BY DEF Inv, ReadsInv
<1>4. fs \in Seq(Frame) /\ reads = <<>>
  BY <1>1 DEF Place
<1>5. /\ frames' \in Seq(Frame) /\ Chain(frames)'
      /\ reads' = <<>>
      /\ reads' \in Seq(Int)
      /\ \A k \in 1 .. Len(reads') : reads'[k] = (k - 1) * Size'
      /\ Len(reads') <= Len(obj'.values)
  BY <1>2, <1>3, <1>4 DEF Chain
<1> QED BY <1>2, <1>5 DEF Goes

(* A row of integers is read at once.                                      *)
LEMMA EntersRow ==
  ASSUME Inv, Walking, NEW dim, NEW p, NEW fs, Place(dim, p, fs), obj' = obj,
         obj.shape[dim] # 0, dim = Rank, frames' = fs,
         reads' = reads \o [j \in 1 .. obj.shape[dim] |-> p + (j - 1) * obj.strides[dim]]
  PROVE  Goes'
<1> DEFINE n == obj.shape[dim]
           stride == obj.strides[dim]
           row == [j \in 1 .. n |-> p + (j - 1) * stride]
           m == Len(reads)
<1>1. /\ n \in Nat /\ n # 0 /\ stride \in Int /\ Size \in Nat \ {0} /\ Spans[dim] = n * Size
      /\ Spans[1] = Size * Len(obj.values) /\ Len(obj.values) \in Nat
      /\ stride = Size \/ n = 1 \/ Empty
      /\ dim = Len(obj.shape)
  BY ObjFacts DEF Place, Rank
<1>2. /\ reads \in Seq(Int) /\ m \in Nat /\ m <= Len(obj.values)
      /\ \A k \in 1 .. m : reads[k] = (k - 1) * Size
  BY LenProperties DEF Inv, ReadsInv
<1>3. ~Empty
  <2> SUFFICES ASSUME Empty PROVE FALSE
    OBVIOUS
  <2>1. PICK e \in 1 .. Rank : obj.shape[e] = 0
    BY DEF Empty
  <2>2. /\ \A d \in 1 .. Len(fs) : obj.shape[d] # 0
        /\ Len(fs) = dim - 1 /\ dim \in 1 .. Rank
    BY DEF Place, Chain
  <2>3. e \in 1 .. Len(fs) \/ e = dim
    BY <2>1, <2>2, ObjFacts
  <2> QED BY <2>1, <2>2, <2>3
<1>4. p = Size * m /\ p + n * Size = Reached(fs) /\ p + n * Size <= Size * Len(obj.values)
  BY <1>1, <1>3 DEF Place
<1>5. row \in Seq(Int) /\ Len(row) = n /\ \A j \in 1 .. n : row[j] = p + (j - 1) * Size
  <2>1. p \in Int
    BY DEF Place
  <2>2. \A j \in 1 .. n : p + (j - 1) * stride = p + (j - 1) * Size
    <3> SUFFICES ASSUME NEW j \in 1 .. n PROVE p + (j - 1) * stride = p + (j - 1) * Size
      OBVIOUS
    <3>1. CASE n = 1
      <4>1. j - 1 = 0
        BY <3>1
      <4>2. 0 * stride = 0 /\ 0 * Size = 0
        BY <1>1
      <4> QED BY <4>1, <4>2
    <3> QED BY <1>1, <1>3, <3>1
  <2>3. row = [j \in 1 .. n |-> p + (j - 1) * Size]
    BY <2>2
  <2>4. \A j \in 1 .. n : p + (j - 1) * Size \in Int
    BY <1>1, <2>1
  <2>5. row \in [1 .. n -> Int]
    BY <2>3, <2>4
  <2>6. \A j \in 1 .. n : row[j] = p + (j - 1) * Size
    BY <2>3
  <2> HIDE DEF row, n
  <2>7. row \in Seq(Int)
    BY <1>1, <2>5, SeqDef
  <2>8. DOMAIN row = 1 .. n
    BY <2>5
  <2>9. Len(row) = n
    BY <1>1, <2>7, <2>8, LenProperties
  <2> QED BY <2>6, <2>7, <2>9
<1>13. reads' = reads \o row
  OBVIOUS
<1> HIDE DEF n, stride, row, m
<1>6. /\ reads' \in Seq(Int) /\ Len(reads') = m + n
      /\ \A k \in 1 .. m + n : reads'[k] = IF k <= m THEN reads[k] ELSE row[k - m]
  <2>1. reads \in Seq(Int) /\ row \in Seq(Int)
    BY <1>2, <1>5
  <2>2. /\ reads \o row \in Seq(Int) /\ Len(reads \o row) = Len(reads) + Len(row)
        /\ \A k \in 1 .. Len(reads) + Len(row) :
             (reads \o row)[k] = IF k <= Len(reads) THEN reads[k] ELSE row[k - Len(reads)]
    BY ONLY <2>1, ConcatProperties
  <2>3. Len(reads) = m /\ Len(row) = n
    BY <1>5 DEF m
  <2> QED BY <1>13, <2>2, <2>3
<1>7. \A k \in 1 .. m + n : reads'[k] = (k - 1) * Size
  <2> SUFFICES ASSUME NEW k \in 1 .. m + n PROVE reads'[k] = (k - 1) * Size
    OBVIOUS
  <2>1. CASE k <= m
    <3>1. k \in 1 .. m
      BY <1>1, <1>2, <2>1
    <3> QED BY <1>2, <1>6, <2>1, <3>1
  <2>2. CASE ~(k <= m)
    <3> DEFINE j == k - m
    <3>1. j \in 1 .. n /\ k - 1 = m + (j - 1) /\ j - 1 \in Nat
      BY <1>1, <1>2, <2>2
    <3>2. reads'[k] = Size * m + (j - 1) * Size
      BY <1>4, <1>5, <1>6, <2>2, <3>1
    <3> HIDE DEF j
    <3>3. Size * m + (j - 1) * Size = (m + (j - 1)) * Size
      BY <1>1, <1>2, <3>1
    <3> QED BY <3>1, <3>2, <3>3
  <2> QED BY <2>1, <2>2
<1>8. Size * (m + n) = Reached(fs) /\ Size * (m + n) <= Size * Len(obj.values)
  <2>1. Size * (m + n) = Size * m + n * Size
    BY <1>1, <1>2
  <2> QED BY <1>4, <2>1
<1>9. m + n <= Len(obj.values)
  <2> DEFINE t == m + n
  <2>1. t \in Nat /\ Size * t <= Size * Len(obj.values)
    BY <1>1, <1>2, <1>8
  <2> HIDE DEF t
  <2>2. t <= Len(obj.values)
    BY <1>1, <2>1, Cancels
  <2> QED BY <2>2 DEF t
<1>10. /\ Chain(fs)' /\ ~Empty' /\ Size' = Size /\ Reached(fs)' = Reached(fs) /\ fs \in Seq(Frame)
  BY <1>3, ChainKept DEF Place
<1>11. Reached(frames)' = Reached(fs)' /\ (Chain(frames)' <=> Chain(fs)')
  BY DEF Reached, Chain
<1>12. Size' * Len(reads') = Reached(frames)'
  BY <1>6, <1>8, <1>10, <1>11
<1> QED BY <1>6, <1>7, <1>9, <1>10, <1>11, <1>12 DEF Goes

(* Any other row is a loop of its own.                                     *)
LEMMA EntersLoop ==
  ASSUME Inv, Walking, NEW dim, NEW p, NEW fs, Place(dim, p, fs), obj' = obj,
         obj.shape[dim] # 0, frames' = Append(fs, [i |-> 0, p |-> p]), reads' = reads
  PROVE  Goes'
<1>1. PICK e : e = [i |-> 0, p |-> p]
  OBVIOUS
<1>2. PICK gs : gs = Append(fs, e)
  OBVIOUS
<1>3. e \in Frame /\ e.i = 0 /\ e.p = p
  BY <1>1 DEF Frame, Place
<1>4. /\ gs \in Seq(Frame) /\ Len(gs) = dim /\ gs[dim] = e /\ gs # <<>>
      /\ \A d \in 1 .. dim - 1 : gs[d] = fs[d]
  <2>1. fs \in Seq(Frame) /\ Len(fs) = dim - 1 /\ dim \in 1 .. Rank /\ Rank \in Nat
    BY ObjFacts DEF Place
  <2>2. (dim - 1) + 1 = dim
    BY <2>1
  <2> QED BY <1>2, <1>3, <2>1, <2>2, AppendProperties
<1>5. dim \in 1 .. Rank /\ Rank \in Nat /\ obj.shape[dim] \in Nat /\ Spans[dim + 1] \in Nat /\ p \in Int
  <2>1. dim + 1 \in 1 .. Rank + 1
    BY ObjFacts, SMTT(60) DEF Place
  <2> QED BY <2>1, ObjFacts DEF Place
<1>6. Chain(fs) /\ Len(fs) = dim - 1
  BY DEF Place
<1>7. Chain(gs)
  <2>1. \A d \in 1 .. dim : obj.shape[d] # 0 /\ gs[d].i <= obj.shape[d]
    <3> SUFFICES ASSUME NEW d \in 1 .. dim PROVE obj.shape[d] # 0 /\ gs[d].i <= obj.shape[d]
      OBVIOUS
    <3>1. d = dim \/ d \in 1 .. dim - 1
      BY <1>5
    <3>2. CASE d = dim
      BY <1>3, <1>4, <1>5, <3>2
    <3>3. CASE d \in 1 .. dim - 1
      <4>1. d \in 1 .. Len(fs) /\ gs[d] = fs[d]
        BY <1>4, <1>6, <3>3
      <4> QED BY <1>6, <4>1 DEF Chain
    <3> QED BY <3>1, <3>2, <3>3
  <2>2. \A d \in 1 .. dim - 1 : gs[d].i >= 1
    <3> SUFFICES ASSUME NEW d \in 1 .. dim - 1 PROVE fs[d].i >= 1
      BY <1>4
    <3>1. d = Len(fs) \/ d \in 1 .. Len(fs) - 1
      BY <1>5, <1>6
    <3>2. d = Len(fs) => fs # <<>>
      BY <1>5, <1>6
    <3> QED BY <1>6, <3>1, <3>2 DEF Chain, Place
  <2>3. ASSUME ~Empty
        PROVE  /\ \A d \in 1 .. dim : gs[d].p + Spans[d] <= Spans[1]
               /\ gs[1].p = 0
               /\ \A d \in 1 .. dim - 1 : gs[d + 1].p = gs[d].p + (gs[d].i - 1) * Spans[d + 1]
    <3>1. \A d \in 1 .. dim : gs[d].p + Spans[d] <= Spans[1]
      <4> SUFFICES ASSUME NEW d \in 1 .. dim PROVE gs[d].p + Spans[d] <= Spans[1]
        OBVIOUS
      <4>1. d = dim \/ d \in 1 .. dim - 1
        BY <1>5
      <4> QED BY <1>3, <1>4, <1>6, <2>3, <4>1 DEF Chain, Place
    <3>2. gs[1].p = 0
      <4>1. CASE dim = 1
        <5>1. fs = <<>>
          BY <1>6, <4>1, EmptySeq DEF Place
        <5> QED BY <1>3, <1>4, <2>3, <4>1, <5>1 DEF Place
      <4>2. CASE dim # 1
        <5>1. 1 \in 1 .. dim - 1 /\ fs # <<>>
          BY <1>5, <1>6, <4>2
        <5> QED BY <1>4, <1>6, <2>3, <5>1 DEF Chain
      <4> QED BY <4>1, <4>2
    <3>3. ASSUME NEW d \in 1 .. dim - 1
          PROVE  gs[d + 1].p = gs[d].p + (gs[d].i - 1) * Spans[d + 1]
      <4>1. CASE d # dim - 1
        <5>1. d \in 1 .. Len(fs) - 1 /\ d + 1 \in 1 .. dim - 1
          BY <1>5, <1>6, <4>1
        <5> QED BY <1>4, <1>6, <2>3, <5>1 DEF Chain
      <4>2. CASE d = dim - 1
        <5>1. d = Len(fs) /\ d + 1 = dim /\ fs # <<>> /\ d \in 1 .. Len(fs)
          BY <1>5, <1>6, <4>2
        <5>2. p + Spans[dim] = fs[d].p + fs[d].i * Spans[dim]
          BY <2>3, <5>1 DEF Place, Reached
        <5>3. fs[d] \in Frame
          BY <5>1 DEF Place
        <5>4. fs[d].p \in Int /\ fs[d].i \in Nat
          BY <5>3 DEF Frame
        <5>5. Spans[dim] \in Nat
          BY <1>5, ObjFacts
        <5>6. fs[d].i * Spans[dim] = (fs[d].i - 1) * Spans[dim] + Spans[dim]
              /\ (fs[d].i - 1) * Spans[dim] \in Int
          <6> DEFINE j == fs[d].i - 1
          <6>1. fs[d].i >= 1
            BY <5>1 DEF Place
          <6>2. j \in Nat /\ fs[d].i = j + 1
            BY <5>4, <6>1
          <6> HIDE DEF j
          <6>3. (j + 1) * Spans[dim] = j * Spans[dim] + Spans[dim] /\ j * Spans[dim] \in Nat
            BY <5>5, <6>2, Times
          <6> QED BY <6>2, <6>3 DEF j
        <5>7. p = fs[d].p + (fs[d].i - 1) * Spans[dim]
          <6> DEFINE x == fs[d].i * Spans[dim]
                     y == (fs[d].i - 1) * Spans[dim]
                     z == Spans[dim]
                     q == fs[d].p
          <6>1. x = y + z /\ y \in Int /\ p + z = q + x /\ p \in Int /\ z \in Int /\ q \in Int
            BY <1>5, <5>2, <5>4, <5>5, <5>6
          <6> HIDE DEF x, y, z, q
          <6>2. p = q + y
            BY ONLY <6>1
          <6> QED BY <6>2 DEF y, q
        <5> QED BY <1>3, <1>4, <5>1, <5>7
      <4> QED BY <4>1, <4>2
    <3> QED BY <3>1, <3>2, <3>3
  <2> QED BY <1>4, <1>5, <2>1, <2>2, <2>3 DEF Chain
<1>8. ~Empty => Size * Len(reads) = Reached(gs)
  <2> SUFFICES ASSUME ~Empty PROVE Size * Len(reads) = p + 0 * Spans[dim + 1]
    BY <1>3, <1>4 DEF Reached
  <2>1. 0 * Spans[dim + 1] = 0 /\ p + 0 = p
    BY <1>5
  <2> QED BY <2>1 DEF Place
<1>9. frames' = gs
  BY <1>1, <1>2
<1>10. Chain(gs)' /\ Reached(gs)' = Reached(gs) /\ (Empty' <=> Empty) /\ Size' = Size
  BY <1>7, ChainKept
<1>11. Reached(frames)' = Reached(gs)' /\ (Chain(frames)' <=> Chain(gs)')
  BY <1>9 DEF Reached, Chain
<1>12. /\ reads \in Seq(Int) /\ Len(reads) <= Len(obj.values)
       /\ \A k \in 1 .. Len(reads) : reads[k] = (k - 1) * Size
  BY DEF Inv, ReadsInv
<1>13. Empty => reads = <<>>
  BY DEF Place
<1> QED BY <1>4, <1>8, <1>9, <1>10, <1>11, <1>12, <1>13 DEF Goes

LEMMA WalkKeeps ==
  ASSUME Inv, Walking, pc' = "walking", Goes', Behind(out'),
         UNCHANGED <<obj, opts, unit, start, held, reason>>
  PROVE  Inv'
<1>1. /\ frames' \in Seq(Frame) /\ Chain(frames)'
      /\ ~Empty' => Size' * Len(reads') = Reached(frames)'
      /\ Empty' => reads' = <<>>
      /\ reads' \in Seq(Int)
      /\ \A k \in 1 .. Len(reads') : reads'[k] = (k - 1) * Size'
      /\ Len(reads') <= Len(obj'.values)
  BY DEF Goes
<1>2. WalkInv'
  BY <1>1 DEF WalkInv
<1>3. ReadsInv'
  BY <1>1 DEF ReadsInv
<1>4. ObjInv'
  <2>1. (Classify(obj) = "ok") => (Classify(obj') = "ok")
    OBVIOUS
  <2> QED BY <2>1 DEF Inv, ObjInv, Walking
<1>5. OutInv'
  BY DEF Inv, OutInv, Walking, Behind
<1>6. WholeOrNothing'
  BY DEF Inv, WholeOrNothing, Walking
<1>7. TypeOK'
  <2>1. Len(frames') <= Rank'
    BY <1>1 DEF Chain
  <2> QED BY <1>1, <2>1 DEF Inv, TypeOK, Frame
<1> QED BY <1>2, <1>3, <1>4, <1>5, <1>6, <1>7 DEF Inv

LEMMA OutFacts ==
  ASSUME Inv, Walking
  PROVE  Behind(out) /\ obj \in Objects /\ unit \in Units /\ opts \in OptSets
BY DEF Inv, OutInv, ObjInv, TypeOK, Walking, Behind

LEMMA EnterKeeps ==
  ASSUME Inv, Walking, NEW dim, NEW p, NEW fs, NEW lead \in Seq(Tokens), Place(dim, p, fs),
         Enter(dim, p, fs, lead), pc' = "walking",
         UNCHANGED <<obj, opts, unit, start, held, reason>>
  PROVE  Inv'
<1>1. dim \in 1 .. Rank /\ obj.shape[dim] \in Nat
  BY ObjFacts DEF Place
<1> DEFINE n == obj.shape[dim]
           stride == obj.strides[dim]
<1>2. CASE n = 0
  <2>1. out' = out \o (lead \o <<"[", "]">>) /\ frames' = fs /\ reads' = reads
    BY <1>2 DEF Enter, Emit
  <2>2. lead \o <<"[", "]">> \in Seq(Tokens)
    BY BetweenAre, ConcatProperties
  <2>3. Behind(out')
    BY <2>1, <2>2, OutFacts, Emits
  <2>4. Goes'
    BY <1>2, <2>1, EntersEmpty
  <2> QED BY <2>3, <2>4, WalkKeeps
<1>3. CASE n # 0 /\ dim = Rank /\ ~Indent /\ obj.elem \in Integer
  <2>1. /\ out' = out \o (lead \o IntRow(p, n, stride)) /\ frames' = fs
        /\ reads' = reads \o [i \in 1 .. n |-> p + (i - 1) * stride]
    BY <1>3 DEF Enter, Emit
  <2>2. lead \o IntRow(p, n, stride) \in Seq(Tokens)
    <3>1. IntRow(p, n, stride) \in Seq(Tokens)
      BY <1>1, OutFacts, RowIs
    <3> QED BY <3>1, ConcatProperties
  <2>3. Behind(out')
    BY <2>1, <2>2, OutFacts, Emits
  <2>4. Goes'
    BY <1>3, <2>1, EntersRow
  <2> QED BY <2>3, <2>4, WalkKeeps
<1>4. CASE n # 0 /\ ~(dim = Rank /\ ~Indent /\ obj.elem \in Integer)
  <2>1. /\ out' = out \o (lead \o <<"[">>) /\ frames' = Append(fs, [i |-> 0, p |-> p])
        /\ reads' = reads
    BY <1>4 DEF Enter, Emit
  <2>2. lead \o <<"[">> \in Seq(Tokens)
    BY BetweenAre, ConcatProperties
  <2>3. Behind(out')
    BY <2>1, <2>2, OutFacts, Emits
  <2>4. Goes'
    BY <1>4, <2>1, EntersLoop
  <2> QED BY <2>3, <2>4, WalkKeeps
<1> QED BY <1>2, <1>3, <1>4

LEMMA WalkStarts ==
  ASSUME Inv, Walk
  PROVE  Inv'
<1> DEFINE none == <<>>
<1>1. pc = "walk" /\ pc' = "walking" /\ Enter(1, 0, none, none)
      /\ UNCHANGED <<obj, opts, unit, start, held, reason>>
  BY DEF Walk
<1>2. Walking /\ reads = <<>>
  BY <1>1 DEF Walking, Inv, ReadsInv
<1>3. none \in Seq(Frame) /\ none \in Seq(Tokens) /\ Len(none) = 0
  BY EmptySeq
<1>4. Rank \in Nat /\ Rank >= 1 /\ Size \in Nat \ {0} /\ Spans[1] \in Nat
  <2>1. 1 \in 1 .. Rank + 1
    BY <1>2, ObjFacts
  <2> QED BY <1>2, <2>1, ObjFacts
<1>5. Chain(none)
  <2>1. Len(none) <= Rank /\ (\A d \in 1 .. Len(none) : FALSE) /\ (\A d \in 1 .. Len(none) - 1 : FALSE)
    BY <1>3, <1>4
  <2> QED BY <2>1 DEF Chain
<1>6. Place(1, 0, none)
  <2>1. Size * Len(reads) = 0
    BY <1>2, <1>4, EmptySeq
  <2>2. Reached(none) = Spans[1]
    BY DEF Reached
  <2>3. 0 + Spans[1] = Spans[1] /\ 1 - 1 = 0 /\ 1 \in 1 .. Rank /\ Spans[1] <= Spans[1]
    BY <1>4
  <2> QED BY <1>2, <1>3, <1>5, <2>1, <2>2, <2>3 DEF Place
<1> HIDE DEF none
<1>7. PICK z : z = 0
  OBVIOUS
<1>8. PICK one : one = 1
  OBVIOUS
<1>9. Place(one, z, none) /\ Enter(one, z, none, none)
  BY <1>1, <1>6, <1>7, <1>8
<1> QED BY <1>1, <1>2, <1>3, <1>9, EnterKeeps

(* The innermost loop goes on after what it begins now.                    *)
LEMMA AdvancedIs ==
  ASSUME Inv, InLoop, Top.i < obj.shape[Dim]
  PROVE  /\ Chain(Advanced) /\ Advanced[Dim].i >= 1
         /\ ~Empty => Reached(Advanced) = NextAddress + Spans[Dim + 1]
         /\ NextAddress \in Int
<1> DEFINE i == Top.i
           p == Top.p
<1>1. /\ Walking /\ frames \in Seq(Frame) /\ Dim \in 1 .. Rank /\ Dim \in Nat
      /\ i \in Nat /\ p \in Int /\ Chain(frames)
      /\ Advanced \in Seq(Frame) /\ Len(Advanced) = Dim /\ Advanced # <<>>
      /\ Advanced[Dim] = [i |-> i + 1, p |-> p]
      /\ \A d \in 1 .. Dim : d # Dim => Advanced[d] = frames[d]
      /\ frames[Dim] = Top /\ Dim = Len(frames) /\ frames # <<>>
  BY FrameFacts DEF Top, Dim, InLoop
<1>2. Rank \in Nat /\ obj.shape[Dim] \in Nat /\ obj.strides[Dim] \in Int /\ i < obj.shape[Dim]
  BY <1>1, ObjFacts
<1>3. Advanced[Dim].i = i + 1 /\ Advanced[Dim].p = p
  BY <1>1
<1> DEFINE A == Advanced
<1> HIDE DEF A, i, p
<1>4. /\ Len(A) = Dim /\ A # <<>> /\ A[Dim].i = i + 1 /\ A[Dim].p = p
      /\ \A d \in 1 .. Dim : d # Dim => A[d] = frames[d]
  BY <1>1, <1>3 DEF A
<1>5. Chain(A)
  <2>1. \A d \in 1 .. Dim : obj.shape[d] # 0 /\ A[d].i <= obj.shape[d]
    <3> SUFFICES ASSUME NEW d \in 1 .. Dim PROVE obj.shape[d] # 0 /\ A[d].i <= obj.shape[d]
      OBVIOUS
    <3>1. CASE d = Dim
      BY <1>1, <1>2, <1>4, <3>1
    <3>2. CASE d # Dim
      BY <1>1, <1>4, <3>2 DEF Chain
    <3> QED BY <3>1, <3>2
  <2>2. \A d \in 1 .. Dim - 1 : d \in 1 .. Dim /\ d # Dim /\ A[d] = frames[d]
    BY <1>1, <1>4
  <2>3. \A d \in 1 .. Dim - 1 : A[d].i >= 1
    BY <1>1, <2>2 DEF Chain
  <2>4. \A d \in 1 .. Dim : A[d].p = frames[d].p
    <3> SUFFICES ASSUME NEW d \in 1 .. Dim PROVE A[d].p = frames[d].p
      OBVIOUS
    <3>1. CASE d = Dim
      BY <1>1, <1>4, <3>1 DEF p
    <3>2. CASE d # Dim
      BY <1>4, <3>2
    <3> QED BY <3>1, <3>2
  <2>5. ASSUME ~Empty
        PROVE  /\ \A d \in 1 .. Dim : A[d].p + Spans[d] <= Spans[1]
               /\ A[1].p = 0
               /\ \A d \in 1 .. Dim - 1 : A[d + 1].p = A[d].p + (A[d].i - 1) * Spans[d + 1]
    <3>1. \A d \in 1 .. Dim : frames[d].p + Spans[d] <= Spans[1]
      BY <1>1, <2>5 DEF Chain
    <3>2. frames[1].p = 0 /\ 1 \in 1 .. Dim
      BY <1>1, <2>5 DEF Chain
    <3>3. \A d \in 1 .. Dim - 1 : /\ frames[d + 1].p = frames[d].p + (frames[d].i - 1) * Spans[d + 1]
                                  /\ d + 1 \in 1 .. Dim
      BY <1>1, <2>5 DEF Chain
    <3> QED BY <2>2, <2>4, <3>1, <3>2, <3>3
  <2>6. Dim <= Rank
    BY <1>1
  <2> QED BY <1>4, <2>1, <2>3, <2>5, <2>6 DEF Chain
<1>6. Reached(A) = p + (i + 1) * Spans[Dim + 1]
  BY <1>4 DEF Reached
<1>7. ~Empty => p + (i + 1) * Spans[Dim + 1] = NextAddress + Spans[Dim + 1]
  BY <1>2, NextIs DEF p, i
<1>8. NextAddress \in Int
  BY <1>1, <1>2 DEF NextAddress, p, i
<1>9. i + 1 >= 1
  BY <1>1
<1> QED BY <1>4, <1>5, <1>6, <1>7, <1>8, <1>9 DEF A

LEMMA LeadIs ==
  ASSUME Inv, InLoop
  PROVE  Lead \in Seq(Tokens) /\ Newline(Level) \in Seq(Tokens)
<1>1. Dim \in Nat /\ Dim >= 1
  <2>1. Dim \in 1 .. Rank /\ Dim \in Nat
    BY FrameFacts
  <2> QED BY <2>1
<1>2. Level \in Nat /\ Level + 1 \in Nat
  BY <1>1, NumpyAssumption DEF Level
<1>3. Newline(Level) \in Seq(Tokens) /\ Newline(Level + 1) \in Seq(Tokens) /\ Comma(Top.i) \in Seq(Tokens)
  BY <1>2, BetweenAre
<1> QED BY <1>3, ConcatProperties DEF Lead

LEMMA WalkRowKeeps ==
  ASSUME Inv, WalkRow
  PROVE  Inv'
<1>1. /\ InLoop /\ Dim < Rank /\ Top.i < obj.shape[Dim] /\ pc' = "walking"
      /\ UNCHANGED <<obj, opts, unit, start, held, reason>>
      /\ Enter(Dim + 1, NextAddress, Advanced, Lead)
  BY DEF WalkRow, InLoop
<1>2. PICK fs : fs = Advanced
  OBVIOUS
<1>3. PICK dim : dim = Dim + 1
  OBVIOUS
<1>4. PICK p : p = NextAddress
  OBVIOUS
<1>5. /\ Walking /\ Dim \in 1 .. Rank /\ Dim \in Nat /\ fs \in Seq(Frame) /\ Len(fs) = Dim /\ fs # <<>>
      /\ Rank \in Nat
  BY <1>1, <1>2, FrameFacts, ObjFacts
<1>6. /\ Chain(fs) /\ fs[Dim].i >= 1 /\ p \in Int
      /\ ~Empty => Reached(fs) = p + Spans[dim]
  BY <1>1, <1>2, <1>3, <1>4, AdvancedIs
<1>7. ~Empty => p = Size * Len(reads) /\ p + Spans[dim] <= Spans[1]
  BY <1>1, <1>3, <1>4, NextIs
<1>8. Empty => reads = <<>>
  BY <1>1 DEF Inv, WalkInv, InLoop
<1>9. dim \in 1 .. Rank /\ dim - 1 = Dim
  BY <1>1, <1>3, <1>5
<1>10. Place(dim, p, fs)
  BY <1>5, <1>6, <1>7, <1>8, <1>9 DEF Place
<1>11. Enter(dim, p, fs, Lead) /\ Lead \in Seq(Tokens)
  BY <1>1, <1>2, <1>3, <1>4, LeadIs
<1> QED BY <1>1, <1>5, <1>10, <1>11, EnterKeeps

(* An element is read where the walk stands, inside the array.             *)
LEMMA ReadsNext ==
  ASSUME Inv, InLoop, Dim = Rank, Top.i < obj.shape[Dim], reads' = Append(reads, NextAddress)
  PROVE  /\ ~Empty /\ Size * Len(reads') = NextAddress + Spans[Dim + 1]
         /\ reads' \in Seq(Int)
         /\ \A k \in 1 .. Len(reads') : reads'[k] = (k - 1) * Size
         /\ Len(reads') <= Len(obj.values)
<1>1. Walking /\ Dim \in Nat /\ Chain(frames) /\ Dim = Len(frames)
  BY FrameFacts DEF Dim
<1>2. ~Empty
  BY <1>1 DEF Chain, Empty
<1>3. /\ NextAddress \in Nat /\ NextAddress = Size * Len(reads)
      /\ NextAddress + Spans[Dim + 1] <= Spans[1]
  BY <1>2, NextIs
<1>4. /\ Size \in Nat \ {0} /\ Len(obj.values) \in Nat /\ Spans[1] = Size * Len(obj.values)
      /\ Spans[Dim + 1] = Size
  BY <1>1, ObjFacts
<1>5. /\ reads \in Seq(Int) /\ Len(reads) \in Nat
      /\ \A k \in 1 .. Len(reads) : reads[k] = (k - 1) * Size
  BY LenProperties DEF Inv, ReadsInv
<1> DEFINE m == Len(reads)
<1>6. /\ reads' \in Seq(Int) /\ Len(reads') = m + 1 /\ reads'[m + 1] = NextAddress
      /\ \A k \in 1 .. m : reads'[k] = reads[k]
  BY <1>3, <1>5, AppendProperties
<1>7. m + 1 <= Len(obj.values) /\ m \in Nat /\ NextAddress = Size * m
  BY <1>3, <1>4, <1>5, Cancels
<1> HIDE DEF m
<1>8. \A k \in 1 .. m + 1 : reads'[k] = (k - 1) * Size
  <2> SUFFICES ASSUME NEW k \in 1 .. m + 1 PROVE reads'[k] = (k - 1) * Size
    OBVIOUS
  <2>1. CASE k = m + 1
    <3>1. k - 1 = m /\ Size * m = m * Size
      BY <1>4, <1>7, <2>1
    <3> QED BY <1>6, <1>7, <2>1, <3>1
  <2>2. CASE k # m + 1
    <3>1. k \in 1 .. m
      BY <1>7, <2>2
    <3> QED BY <1>5, <1>6, <3>1 DEF m
  <2> QED BY <2>1, <2>2
<1>9. Size * (m + 1) = NextAddress + Size
  BY <1>4, <1>7
<1> QED BY <1>2, <1>4, <1>6, <1>7, <1>8, <1>9

LEMMA WalkLeafKeeps ==
  ASSUME Inv, WalkLeaf
  PROVE  Inv'
<1>1. /\ InLoop /\ Dim = Rank /\ Top.i < obj.shape[Dim]
      /\ out' = out \o (Lead \o Leaf(At(NextAddress)))
      /\ frames' = Advanced /\ reads' = Append(reads, NextAddress)
      /\ UNCHANGED <<obj, pc, opts, unit, start, held, reason>>
  BY DEF WalkLeaf, Emit
<1>2. Walking /\ pc' = "walking"
  BY <1>1 DEF Walking, InLoop
<1>3. Behind(out')
  <2>1. Leaf(At(NextAddress)) \in Seq(Tokens)
    BY <1>2, OutFacts, AtIs, LeafIs
  <2>2. Lead \o Leaf(At(NextAddress)) \in Seq(Tokens)
    BY <1>1, <2>1, LeadIs, ConcatProperties
  <2> QED BY <1>1, <1>2, <2>2, OutFacts, Emits
<1>4. PICK fs : fs = Advanced
  OBVIOUS
<1>5. fs \in Seq(Frame) /\ Chain(fs) /\ (~Empty => Reached(fs) = NextAddress + Spans[Dim + 1])
  BY <1>1, <1>4, FrameFacts, AdvancedIs
<1>6. /\ ~Empty /\ Size * Len(reads') = NextAddress + Spans[Dim + 1]
      /\ reads' \in Seq(Int)
      /\ \A k \in 1 .. Len(reads') : reads'[k] = (k - 1) * Size
      /\ Len(reads') <= Len(obj.values)
  BY <1>1, ReadsNext
<1>7. Chain(fs)' /\ Reached(fs)' = Reached(fs) /\ ~Empty' /\ Size' = Size /\ frames' = fs
  BY <1>1, <1>4, <1>5, <1>6, ChainKept
<1>8. Reached(frames)' = Reached(fs)' /\ (Chain(frames)' <=> Chain(fs)')
  BY <1>7 DEF Reached, Chain
<1>9. Goes'
  BY <1>1, <1>5, <1>6, <1>7, <1>8 DEF Goes
<1> QED BY <1>1, <1>2, <1>3, <1>9, WalkKeeps

LEMMA CloseDimKeeps ==
  ASSUME Inv, CloseDim
  PROVE  Inv'
<1>1. /\ InLoop /\ Top.i = obj.shape[Dim]
      /\ out' = out \o (Newline(Level) \o <<"]">>)
      /\ frames' = SubSeq(frames, 1, Dim - 1)
      /\ UNCHANGED <<obj, pc, opts, unit, start, held, reason, reads>>
  BY DEF CloseDim, Emit
<1>2. Walking /\ pc' = "walking"
  BY <1>1 DEF Walking, InLoop
<1>3. Behind(out')
  <2>1. Newline(Level) \o <<"]">> \in Seq(Tokens)
    BY <1>1, LeadIs, BetweenAre, ConcatProperties
  <2> QED BY <1>1, <1>2, <2>1, OutFacts, Emits
<1>4. PICK gs : gs = SubSeq(frames, 1, Dim - 1)
  OBVIOUS
<1>5. /\ frames \in Seq(Frame) /\ Dim \in 1 .. Rank /\ Dim \in Nat /\ Chain(frames)
      /\ Dim = Len(frames) /\ frames # <<>> /\ Rank \in Nat /\ frames[Dim] = Top
      /\ Top.p \in Int /\ Top.i \in Nat
  BY <1>1, <1>2, FrameFacts, ObjFacts DEF Dim, InLoop, Top
<1>6. gs \in Seq(Frame) /\ Len(gs) = Dim - 1 /\ \A d \in 1 .. Dim - 1 : gs[d] = frames[d]
  <2>1. \A d \in 1 .. Dim - 1 : frames[d] \in Frame
    BY <1>5
  <2>2. 1 \in Int /\ Dim - 1 \in Int /\ (Dim - 1) - 1 + 1 = Dim - 1 /\ (1 <= Dim - 1 \/ Dim - 1 = 0)
    BY <1>5
  <2>3. \A d \in 1 .. Dim - 1 : 1 + d - 1 = d
    BY <1>5
  <2>4. /\ gs \in Seq(Frame)
        /\ Len(gs) = IF 1 <= Dim - 1 THEN (Dim - 1) - 1 + 1 ELSE 0
        /\ \A d \in 1 .. (Dim - 1) - 1 + 1 : gs[d] = frames[1 + d - 1]
    BY <1>4, <2>1, <2>2, SubSeqProperties
  <2> QED BY <2>2, <2>3, <2>4
<1>7. Chain(gs)
  <2>1. \A d \in 1 .. Dim - 1 : d \in 1 .. Dim
    BY <1>5
  <2>2. \A d \in 1 .. (Dim - 1) - 1 : d \in 1 .. Dim - 1 /\ d + 1 \in 1 .. Dim - 1
    BY <1>5
  <2>3. Dim - 1 <= Rank
    BY <1>5
  <2>4. gs # <<>> => 1 \in 1 .. Dim - 1
    BY <1>5, <1>6, EmptySeq
  <2> QED BY <1>5, <1>6, <2>1, <2>2, <2>3, <2>4 DEF Chain
<1>8. ~Empty => Size * Len(reads) = Reached(gs)
  <2> SUFFICES ASSUME ~Empty PROVE Size * Len(reads) = Reached(gs)
    OBVIOUS
  <2>1. Dim + 1 \in 1 .. Rank + 1 /\ Dim \in 1 .. Rank + 1
    BY <1>5
  <2>2. /\ Spans[Dim] \in Nat /\ Spans[Dim] = obj.shape[Dim] * Spans[Dim + 1]
    BY <1>2, <1>5, <2>1, ObjFacts
  <2>3. Size * Len(reads) = Top.p + Spans[Dim]
    <3>1. Size * Len(reads) = Top.p + Top.i * Spans[Dim + 1]
      BY <1>1, <1>5 DEF Inv, WalkInv, InLoop, Reached
    <3> QED BY <1>1, <2>2, <3>1
  <2>4. CASE Dim = 1
    <3>1. Top.p = 0 /\ gs = <<>>
      BY <1>5, <1>6, <2>4, EmptySeq DEF Chain
    <3>2. Reached(gs) = Spans[1] /\ Size * Len(reads) = 0 + Spans[1]
      BY <2>3, <2>4, <3>1 DEF Reached
    <3> QED BY <2>2, <2>4, <3>2
  <2>5. CASE Dim # 1
    <3> DEFINE d == Dim - 1
    <3>1. d \in 1 .. Dim - 1 /\ d + 1 = Dim /\ gs # <<>> /\ Len(gs) = d /\ gs[d] = frames[d]
      BY <1>5, <1>6, <2>5, EmptySeq
    <3>2. frames[d + 1].p = frames[d].p + (frames[d].i - 1) * Spans[d + 1] /\ frames[d].i >= 1
      BY <1>5, <3>1 DEF Chain
    <3>3. frames[d] \in Frame
      BY <1>5, <3>1
    <3>4. frames[d].i \in Nat /\ frames[d].p \in Int
      BY <3>3 DEF Frame
    <3>5. Reached(gs) = frames[d].p + frames[d].i * Spans[Dim]
      BY <3>1 DEF Reached
    <3> DEFINE j == frames[d].i - 1
    <3>6. j \in Nat /\ frames[d].i = j + 1
      BY <3>2, <3>4
    <3>7. Top.p = frames[d].p + j * Spans[Dim]
      BY <1>5, <3>1, <3>2
    <3> HIDE DEF j, d
    <3>8. (j + 1) * Spans[Dim] = j * Spans[Dim] + Spans[Dim] /\ j * Spans[Dim] \in Nat
      BY <2>2, <3>6, Times
    <3>9. Reached(gs) = frames[d].p + (j * Spans[Dim] + Spans[Dim])
      BY <3>5, <3>6, <3>8
    <3> DEFINE x == j * Spans[Dim]
               y == Spans[Dim]
               q == frames[d].p
    <3>10. q \in Int /\ x \in Int /\ y \in Int /\ Reached(gs) = q + (x + y)
           /\ Size * Len(reads) = (q + x) + y
      BY <2>2, <2>3, <3>4, <3>7, <3>8, <3>9
    <3> HIDE DEF x, y, q
    <3> QED BY <3>10
  <2> QED BY <2>4, <2>5
<1>9. Chain(gs)' /\ Reached(gs)' = Reached(gs) /\ (Empty' <=> Empty) /\ Size' = Size /\ frames' = gs
  BY <1>1, <1>4, <1>7, ChainKept
<1>10. Reached(frames)' = Reached(gs)' /\ (Chain(frames)' <=> Chain(gs)')
  BY <1>9 DEF Reached, Chain
<1>11. /\ reads \in Seq(Int) /\ Len(reads) <= Len(obj.values)
       /\ \A k \in 1 .. Len(reads) : reads[k] = (k - 1) * Size
       /\ Empty => reads = <<>>
  BY <1>1 DEF Inv, ReadsInv, WalkInv, InLoop
<1>12. Goes'
  BY <1>1, <1>6, <1>8, <1>9, <1>10, <1>11 DEF Goes
<1> QED BY <1>1, <1>2, <1>3, <1>12, WalkKeeps

-----------------------------------------------------------------------------
(* Before and after the walk.                                              *)

Outside == pc \notin {"walk", "walking", "written"}

(* A step that reads an attribute: nothing is written, read or begun.      *)
LEMMA AttributeKeeps ==
  ASSUME Inv, Outside, UNCHANGED <<obj, opts, frames, out, reads>>,
         pc \notin {"declined", "raised"},
         unit' \in Units, start' \in Nat, reason' \in Reasons,
         held' = IF pc' \in {"classify", "walk"} THEN 1 ELSE 0,
         \/ pc' \in {"declined", "raised"}
         \/ pc' = "classify" /\ pc = "array"
         \/ pc' = "walk" /\ pc = "classify" /\ Classify(obj) = "ok" /\ start' = 1
         \/ pc' = "value" /\ pc = "scalar"
  PROVE  Inv'
<1>1. /\ pc \notin {"walk", "walking", "written", "declined", "raised"}
      /\ pc \in {"array", "scalar", "classify", "value"}
      /\ pc' \in {"classify", "walk", "value", "declined", "raised"}
  BY DEF Outside, Inv, TypeOK
<1>2. ReadsInv'
  BY <1>1 DEF Inv, ReadsInv
<1>3. WalkInv'
  BY <1>1 DEF Inv, WalkInv
<1>4. out = <<"before">>
  BY <1>1 DEF Inv, OutInv
<1>5. OutInv'
  <2> DEFINE before == "before"
  <2>1. before \in Tokens
    BY DEF Tokens
  <2>2. out = <<before>> /\ out' = out
    BY <1>4
  <2> HIDE DEF before
  <2>3. out \in Seq(Tokens) /\ Len(out) >= 1 /\ out[1] = before
    BY <2>1, <2>2
  <2>4. pc' = "walk" => start' = 1
    BY <1>1
  <2> QED BY <1>1, <2>2, <2>3, <2>4 DEF OutInv, before
<1>6. ObjInv'
  <2>1. (Classify(obj) = "ok") => (Classify(obj') = "ok")
    OBVIOUS
  <2> QED BY <1>1, <2>1 DEF Inv, ObjInv
<1>7. WholeOrNothing'
  BY <1>1, <1>4 DEF WholeOrNothing
<1>8. TypeOK'
  BY <1>1 DEF Inv, TypeOK
<1> QED BY <1>2, <1>3, <1>5, <1>6, <1>7, <1>8 DEF Inv

LEMMA Classes ==
  ASSUME NEW a
  PROVE  Classify(a) \in {"NotContiguous", "NotNative", "ZeroDim", "UnsupportedDtype", "ok"}
BY DEF Classify

LEMMA UnitIs == ASSUME Inv PROVE ParseDt64(obj.dtype) \in Units
BY DEF Inv, ObjInv, Units

LEMMA GetArrayStructKeeps ==
  ASSUME Inv, GetArrayStruct
  PROVE  Inv'
<1>1. /\ pc = "array" /\ UNCHANGED <<obj, opts, unit, frames, out, start, reason, reads>>
      /\ \/ held' = held + 1 /\ pc' = "classify"
         \/ held' = held /\ pc' = "raised"
  BY DEF GetArrayStruct
<1>2. held = 0 /\ unit \in Units /\ start \in Nat /\ reason \in Reasons
  BY <1>1 DEF Inv, WholeOrNothing, ObjInv, TypeOK
<1>3. held' = IF pc' \in {"classify", "walk"} THEN 1 ELSE 0
  BY <1>1, <1>2
<1> QED BY <1>1, <1>2, <1>3, AttributeKeeps DEF Outside

LEMMA DeclineArrayKeeps ==
  ASSUME Inv, DeclineArray
  PROVE  Inv'
<1>1. /\ pc = "classify" /\ UNCHANGED <<obj, opts, unit, frames, out, start, reads>>
      /\ Classify(obj) # "ok" /\ held' = 0
      /\ \/ reason' = Classify(obj) /\ pc' = "declined"
         \/ pc' = "raised" /\ UNCHANGED reason
  BY DEF DeclineArray, Declined
<1>2. unit \in Units /\ start \in Nat /\ reason' \in Reasons
  BY <1>1, Classes DEF Inv, ObjInv, TypeOK, Reasons
<1> QED BY <1>1, <1>2, AttributeKeeps DEF Outside

LEMMA ReadUnitIs ==
  ASSUME Inv, NEW then, ReadUnit(then)
  PROVE  /\ unit' \in Units /\ reason' \in Reasons
         /\ \/ pc' = then /\ held' = held
            \/ pc' \in {"declined", "raised"} /\ held' = 0
<1>1. unit \in Units /\ reason \in Reasons /\ "UnparseableDtype" \in Reasons
  BY DEF Inv, ObjInv, TypeOK, Reasons
<1> QED BY <1>1, UnitIs DEF ReadUnit, Declined

LEMMA BeginKeeps ==
  ASSUME Inv, Begin
  PROVE  Inv'
<1>1. /\ pc = "classify" /\ Classify(obj) = "ok" /\ start' = Len(out)
      /\ UNCHANGED <<obj, opts, frames, out, reads>>
      /\ \/ ReadUnit("walk")
         \/ pc' = "walk" /\ UNCHANGED <<unit, reason, held>>
  BY DEF Begin
<1>2. held = 1 /\ out = <<"before">>
  BY <1>1 DEF Inv, WholeOrNothing, OutInv
<1>3. start' = 1
  BY <1>1, <1>2
<1>4. /\ unit' \in Units /\ reason' \in Reasons
      /\ \/ pc' = "walk" /\ held' = 1
         \/ pc' \in {"declined", "raised"} /\ held' = 0
  BY <1>1, <1>2, ReadUnitIs DEF Inv, ObjInv, TypeOK
<1> HIDE DEF Inv
<1> QED BY <1>1, <1>3, <1>4, AttributeKeeps DEF Outside

LEMMA ScalarUnitKeeps ==
  ASSUME Inv, ScalarUnit
  PROVE  Inv'
<1>1. pc = "scalar" /\ ReadUnit("value") /\ UNCHANGED <<obj, opts, frames, out, start, reads>>
  BY DEF ScalarUnit
<1>2. held = 0 /\ start \in Nat
  BY <1>1 DEF Inv, WholeOrNothing, TypeOK
<1>3. /\ unit' \in Units /\ reason' \in Reasons
      /\ \/ pc' = "value" /\ held' = 0
         \/ pc' \in {"declined", "raised"} /\ held' = 0
  BY <1>1, <1>2, ReadUnitIs
<1>4. Outside /\ pc = "scalar" /\ pc \notin {"declined", "raised"} /\ start' = start
  BY <1>1 DEF Outside
<1>5. start' \in Nat /\ UNCHANGED <<obj, opts, frames, out, reads>>
  BY <1>1, <1>2
<1>6. held' = IF pc' \in {"classify", "walk"} THEN 1 ELSE 0
  BY <1>3
<1> QED BY <1>3, <1>4, <1>5, <1>6, AttributeKeeps

LEMMA RejectedIs ==
  ASSUME NEW v, Rejected(v)
  PROVE  Parts(v).error \in Reasons
<1>1. Parts(v) = Unrepresentable \/ Parts(v) = GenericUnit
  BY DEF Rejected
<1>2. Unrepresentable.error \in Reasons
  BY DEF Unrepresentable, Reasons
<1>3. GenericUnit.error \in Reasons
  BY DEF GenericUnit, Reasons
<1> QED BY <1>1, <1>2, <1>3

(* What a roll back to the first token leaves.                             *)
LEMMA FirstOnly ==
  ASSUME NEW S, NEW s \in Seq(S), Len(s) >= 1
  PROVE  SubSeq(s, 1, 1) = <<s[1]>>
<1> DEFINE t == SubSeq(s, 1, 1)
           u == <<s[1]>>
<1>1. t \in Seq(S) /\ Len(t) = 1 /\ t[1] = s[1]
  OBVIOUS
<1>2. u \in Seq(S) /\ Len(u) = 1 /\ u[1] = s[1]
  OBVIOUS
<1> HIDE DEF t, u
<1>3. Len(t) = Len(u) /\ \A i \in 1 .. Len(t) : t[i] = u[i]
  BY <1>1, <1>2
<1>4. t = u
  BY <1>1, <1>2, <1>3, SeqEqual
<1> QED BY <1>4 DEF t, u

LEMMA LeafDeclinedKeeps ==
  ASSUME Inv, LeafDeclined
  PROVE  Inv'
<1>1. /\ InLoop /\ Dim = Rank /\ Top.i < obj.shape[Dim]
      /\ reason' = Parts(At(NextAddress)).error /\ pc' = "declined" /\ held' = 0
      /\ Rejected(At(NextAddress))
      /\ frames' = <<>> /\ reads' = Append(reads, NextAddress)
      /\ out' = SubSeq(out, 1, start)
      /\ UNCHANGED <<obj, opts, unit, start>>
  BY DEF LeafDeclined, Declined
<1>2. Walking /\ pc = "walking"
  BY <1>1 DEF Walking, InLoop
<1>3. reason' \in Reasons
  BY <1>1, RejectedIs
<1>4. out' = <<"before">> /\ out' \in Seq(Tokens)
  <2> DEFINE before == "before"
  <2>1. start = 1 /\ Len(out) >= 1 /\ out[1] = before /\ out \in Seq(Tokens) /\ before \in Tokens
    BY <1>2 DEF Inv, OutInv, Tokens
  <2> HIDE DEF before
  <2>2. SubSeq(out, 1, 1) = <<before>>
    BY <2>1, FirstOnly
  <2>3. <<before>> \in Seq(Tokens)
    BY <2>1
  <2> QED BY <1>1, <2>1, <2>2, <2>3 DEF before
<1>5. /\ reads' \in Seq(Int) /\ Len(reads') <= Len(obj.values)
      /\ \A k \in 1 .. Len(reads') : reads'[k] = (k - 1) * Size
  BY <1>1, ReadsNext
<1>6. Size' = Size
  BY <1>1 DEF Size
<1>7. ReadsInv'
  BY <1>1, <1>5, <1>6 DEF ReadsInv
<1>8. OutInv'
  BY <1>1, <1>4 DEF OutInv
<1>9. <<>> \in Seq(Frame)
  BY EmptySeq
<1>10. WalkInv'
  BY <1>1, <1>9 DEF WalkInv
<1>11. ObjInv'
  BY <1>1 DEF Inv, ObjInv
<1>12. WholeOrNothing'
  BY <1>1, <1>4 DEF WholeOrNothing
<1>13. TypeOK'
  <2>1. frames' \in Seq([i : Nat, p : Int])
    BY <1>1, <1>9 DEF Frame
  <2> QED BY <1>1, <1>3, <2>1 DEF Inv, TypeOK
<1> QED BY <1>7, <1>8, <1>10, <1>11, <1>12, <1>13 DEF Inv

LEMMA WrittenKeeps ==
  ASSUME Inv, Written
  PROVE  Inv'
<1>1. /\ pc = "walking" /\ frames = <<>> /\ pc' = "written" /\ held' = held - 1
      /\ UNCHANGED <<obj, opts, unit, frames, out, start, reason, reads>>
  BY DEF Written
<1>2. Walking
  BY <1>1 DEF Walking
<1>3. Len(reads) = Len(obj.values)
  <2>1. Size \in Nat \ {0} /\ Len(obj.values) \in Nat /\ Spans[1] = Size * Len(obj.values)
    BY <1>2, ObjFacts
  <2>2. Len(reads) \in Nat
    BY LenProperties DEF Inv, ReadsInv
  <2>3. CASE Empty
    <3>1. reads = <<>> /\ Len(obj.values) = 0
      BY <1>1, <1>2, <2>3, ObjFacts DEF Inv, WalkInv
    <3> QED BY <3>1, EmptySeq
  <2>4. CASE ~Empty
    <3>1. Size * Len(reads) = Size * Len(obj.values)
      BY <1>1, <2>1, <2>4 DEF Inv, WalkInv, Reached
    <3> DEFINE m == Len(reads)
               n == Len(obj.values)
               s == Size
    <3>2. s * m = s * n /\ s \in Nat \ {0} /\ m \in Nat /\ n \in Nat
      BY <2>1, <2>2, <3>1
    <3> HIDE DEF m, n, s
    <3>3. m = n
      BY <3>2, Cancels
    <3> QED BY <3>3 DEF m, n
  <2> QED BY <2>3, <2>4
<1>4. Size' = Size
  BY <1>1 DEF Size
<1>5. ReadsInv'
  BY <1>1, <1>3, <1>4 DEF Inv, ReadsInv
<1>6. OutInv' /\ WalkInv' /\ ObjInv'
  BY <1>1 DEF Inv, OutInv, WalkInv, ObjInv
<1>7. held' = 0
  BY <1>1 DEF Inv, WholeOrNothing
<1>8. WholeOrNothing'
  BY <1>1, <1>7 DEF WholeOrNothing
<1>9. TypeOK'
  BY <1>1, <1>7 DEF Inv, TypeOK
<1> QED BY <1>5, <1>6, <1>8, <1>9 DEF Inv

LEMMA ScalarValueKeeps ==
  ASSUME Inv, ScalarValue
  PROVE  Inv'
<1> DEFINE v == obj.values[1]
<1>1. /\ pc \in {"scalar", "value"}
      /\ \/ Rejected(v) /\ Declined(Parts(v).error) /\ UNCHANGED out
         \/ out' = out \o Leaf(v) /\ pc' = "written" /\ UNCHANGED <<held, reason>>
      /\ UNCHANGED <<obj, opts, unit, frames, start, reads>>
  BY DEF ScalarValue, Emit
<1>2. CASE Rejected(v) /\ Declined(Parts(v).error) /\ UNCHANGED out
  <2>1. reason' \in Reasons /\ pc' = "declined" /\ held' = 0
    BY <1>2, RejectedIs DEF Declined
  <2>2. unit \in Units /\ start \in Nat
    BY DEF Inv, ObjInv, TypeOK
  <2>3. Outside /\ pc \notin {"declined", "raised"}
    BY <1>1 DEF Outside
  <2> HIDE DEF v
  <2>4. UNCHANGED <<obj, opts, frames, out, reads>> /\ unit' = unit /\ start' = start
    BY <1>1, <1>2
  <2> QED BY <2>1, <2>2, <2>3, <2>4, AttributeKeeps
<1>3. CASE out' = out \o Leaf(v) /\ pc' = "written" /\ UNCHANGED <<held, reason>>
  <2>1. obj \in Scalars /\ obj \in Objects /\ unit \in Units /\ opts \in OptSets /\ out \in Seq(Tokens)
        /\ held = 0
    BY <1>1 DEF Inv, ObjInv, Objects, TypeOK, OutInv, WholeOrNothing
  <2>2. 1 \in DOMAIN obj.values /\ ~IsArray
    BY <2>1, NumpyAssumption DEF Scalar, IsArray
  <2>3. v \in Values
    BY <2>1, <2>2 DEF Values
  <2>4. Leaf(v) \in Seq(Tokens)
    BY <2>1, <2>3, LeafIs
  <2>5. out' \in Seq(Tokens)
    BY <1>3, <2>1, <2>4, ConcatProperties
  <2> HIDE DEF v
  <2>6. Size' = Size /\ ~IsArray'
    BY <1>1, <2>2 DEF Size, IsArray
  <2>7. ReadsInv'
    BY <1>1, <1>3, <2>6 DEF Inv, ReadsInv
  <2>8. OutInv'
    BY <1>3, <2>5 DEF OutInv
  <2>9. WalkInv' /\ ObjInv'
    BY <1>1, <1>3 DEF Inv, WalkInv, ObjInv
  <2>10. WholeOrNothing'
    BY <1>3, <2>1 DEF WholeOrNothing
  <2>11. TypeOK'
    BY <1>1, <1>3 DEF Inv, TypeOK
  <2> QED BY <2>7, <2>8, <2>9, <2>10, <2>11 DEF Inv
<1> QED BY <1>1, <1>2, <1>3

LEMMA InitInv == Init => Inv
<1> SUFFICES ASSUME Init PROVE Inv
  OBVIOUS
<1>1. /\ opts \in OptSets
      /\ \/ obj \in Arrays /\ pc = "array"
         \/ obj \in Scalars /\ pc = "scalar"
      /\ unit = None /\ frames = <<>> /\ out = <<"before">> /\ start = 0
      /\ held = 0 /\ reason = "none" /\ reads = <<>>
  BY DEF Init
<1>2. <<>> \in Seq(Frame) /\ <<>> \in Seq(Int) /\ Len(<<>>) = 0
  BY EmptySeq
<1>3. TypeOK
  BY <1>1, <1>2 DEF TypeOK, Frame, Reasons
<1>4. WholeOrNothing
  BY <1>1 DEF WholeOrNothing
<1>5. ObjInv
  BY <1>1 DEF ObjInv, Objects, Units
<1>6. OutInv
  <2> DEFINE before == "before"
  <2>1. before \in Tokens
    BY DEF Tokens
  <2> HIDE DEF before
  <2>2. <<before>> \in Seq(Tokens)
    BY <2>1
  <2> QED BY <1>1, <2>2 DEF OutInv, before
<1>7. ReadsInv
  <2>1. Len(obj.values) \in Nat \/ obj \in Scalars
    BY <1>1, ArrayIs
  <2> QED BY <1>1, <1>2, <2>1 DEF ReadsInv
<1>8. WalkInv
  BY <1>1, <1>2 DEF WalkInv
<1> QED BY <1>3, <1>4, <1>5, <1>6, <1>7, <1>8 DEF Inv

LEMMA NextInv == Inv /\ [Next]_vars => Inv'
<1> SUFFICES ASSUME Inv, [Next]_vars PROVE Inv'
  OBVIOUS
<1>1. CASE Next
  BY <1>1, GetArrayStructKeeps, DeclineArrayKeeps, BeginKeeps, WalkStarts, WalkRowKeeps,
     WalkLeafKeeps, LeafDeclinedKeeps, CloseDimKeeps, WrittenKeeps, ScalarUnitKeeps,
     ScalarValueKeeps DEF Next
<1>2. CASE UNCHANGED vars
  <2>1. obj' = obj /\ pc' = pc /\ opts' = opts /\ unit' = unit /\ frames' = frames /\ out' = out
        /\ start' = start /\ held' = held /\ reason' = reason /\ reads' = reads
    BY <1>2 DEF vars
  <2>2. TypeOK'
    BY <2>1 DEF Inv, TypeOK, Rank
  <2>3. WholeOrNothing' /\ ObjInv' /\ OutInv'
    BY <2>1 DEF Inv, WholeOrNothing, ObjInv, OutInv
  <2>4. ReadsInv'
    BY <2>1 DEF Inv, ReadsInv, Size, IsArray
  <2>5. WalkInv'
    <3>1. (Chain(frames) => Chain(frames)') /\ Reached(frames)' = Reached(frames)
          /\ (Empty' <=> Empty) /\ Size' = Size
      BY <2>1 DEF Chain, Reached, Empty, Size, Rank, Spans
    <3> QED BY <2>1, <3>1 DEF Inv, WalkInv
  <2> QED BY <2>2, <2>3, <2>4, <2>5 DEF Inv
<1> QED BY <1>1, <1>2

-----------------------------------------------------------------------------
(* Division.                                                               *)

LEMMA Division ==
  ASSUME NEW x \in Int, NEW k \in Nat \ {0}
  PROVE  /\ x \div k \in Int /\ x % k \in Nat /\ x % k < k
         /\ x = k * (x \div k) + (x % k)
BY SMT

LEMMA Quotient ==
  ASSUME NEW q \in Int, NEW r \in Int, NEW k \in Nat \ {0}, 0 <= r, r < k
  PROVE  (k * q + r) \div k = q /\ (k * q + r) % k = r
BY SMT

LEMMA Product ==
  ASSUME NEW a \in Nat \ {0}, NEW b \in Nat \ {0}
  PROVE  a * b \in Nat \ {0} /\ a <= a * b
BY SMT

LEMMA Monotone ==
  ASSUME NEW x \in Int, NEW y \in Int, NEW k \in Nat \ {0}
  PROVE  /\ x <= y <=> x * k <= y * k
         /\ x < y <=> x * k + k <= y * k
BY SMT

LEMMA Floor ==
  ASSUME NEW x \in Int, NEW m \in Int, NEW k \in Nat \ {0}
  PROVE  /\ m <= x \div k <=> m * k <= x
         /\ x \div k < m <=> x < m * k
BY Division, Monotone, SMT

LEMMA Nested ==
  ASSUME NEW x \in Int, NEW a \in Nat \ {0}, NEW b \in Nat \ {0}
  PROVE  x \div (a * b) = (x \div b) \div a
<1> DEFINE q == x \div b
           r == x % b
           p == q \div a
           s == q % a
<1>1. q \in Int /\ r \in Nat /\ r < b /\ x = b * q + r
  BY Division
<1> HIDE DEF q, r
<1>2. p \in Int /\ s \in Nat /\ s < a /\ q = a * p + s
  BY <1>1, Division
<1> HIDE DEF p, s
<1>3. b * s + r \in Nat /\ b * s + r < a * b
  <2>1. s * b + b <= a * b
    BY <1>2, Monotone
  <2> QED BY <1>1, <1>2, <2>1, SMT
<1>4. x = (a * b) * p + (b * s + r)
  <2>1. b * q = (a * b) * p + b * s
    BY <1>2, SMT
  <2> QED BY <1>1, <1>2, <2>1, SMT
<1>5. a * b \in Nat \ {0}
  BY Product
<1>6. x \div (a * b) = p
  <2> DEFINE k == a * b
             t == b * s + r
  <2> HIDE DEF k, t
  <2>1. k \in Nat \ {0} /\ t \in Nat /\ t < k /\ x = k * p + t
    BY <1>3, <1>4, <1>5 DEF k, t
  <2>2. (k * p + t) \div k = p
    BY <1>2, <2>1, Quotient
  <2> QED BY <2>1, <2>2 DEF k
<1> QED BY <1>6 DEF p, q

(* x is so many d-hours of n m-minutes of n seconds, and a rest.           *)
ClockOf(x, s, n, d, m, h) ==
  /\ x \div h \in Nat /\ x \div h < d
  /\ (x \div m) % n \in Nat /\ (x \div m) % n < n
  /\ (x \div s) % n \in Nat /\ (x \div s) % n < n
  /\ x % s \in Nat /\ x % s < s
  /\ x = (x \div h) * h + ((x \div m) % n) * m + ((x \div s) % n) * s + (x % s)

LEMMA Clocked ==
  ASSUME NEW x \in Nat, NEW s \in Nat \ {0}, NEW n \in Nat \ {0}, NEW d \in Nat \ {0},
         NEW m \in Nat \ {0}, NEW h \in Nat \ {0},
         m = n * s, h = n * m, x < d * h
  PROVE  ClockOf(x, s, n, d, m, h)
<1>1. m \in Nat \ {0} /\ h \in Nat \ {0}
  BY Product
<1> DEFINE sec == x \div s
           min == x \div m
           hrs == x \div h
<1>2. /\ sec \in Int /\ x % s \in Nat /\ x % s < s /\ x = s * sec + (x % s)
      /\ min \in Int /\ hrs \in Int
  BY <1>1, Division
<1>3. min = sec \div n /\ hrs = min \div n
  <2>0. x \in Int
    OBVIOUS
  <2>1. x \div (n * s) = (x \div s) \div n
    BY <2>0, Nested, Zenon
  <2>2. x \div (n * m) = (x \div m) \div n
    BY <1>1, <2>0, Nested, Zenon
  <2> QED BY <2>1, <2>2
<1>4. sec % n \in Nat /\ sec % n < n /\ sec = n * min + (sec % n)
  <2>1. sec % n \in Nat /\ sec % n < n /\ sec = n * (sec \div n) + (sec % n)
    BY <1>2, Division, Zenon
  <2> QED BY <1>3, <2>1, Zenon
<1>5. min % n \in Nat /\ min % n < n /\ min = n * hrs + (min % n)
  <2>1. min % n \in Nat /\ min % n < n /\ min = n * (min \div n) + (min % n)
    BY <1>2, Division, Zenon
  <2> QED BY <1>3, <2>1, Zenon
<1>6. 0 <= hrs /\ hrs < d
  <2>1. 0 * h <= x /\ x < d * h
    BY <1>1
  <2> HIDE DEF hrs
  <2> QED BY <1>1, <2>1, Floor DEF hrs
<1> HIDE DEF sec, min, hrs
<1>7. s * sec = min * m + (sec % n) * s
  <2>1. s * sec = s * (n * min) + s * (sec % n)
    <3> DEFINE t == sec % n
    <3>1. t \in Int /\ sec = n * min + t
      BY <1>4
    <3> HIDE DEF t
    <3>2. s * (n * min + t) = s * (n * min) + s * t
      BY <1>2, <3>1, SMT
    <3> QED BY <3>1, <3>2 DEF t
  <2>2. s * (n * min) = min * m
    BY <1>2, SMT
  <2> QED BY <1>4, <2>1, <2>2, SMT
<1>8. min * m = hrs * h + (min % n) * m
  <2>1. min * m = (n * hrs) * m + (min % n) * m
    <3> DEFINE t == min % n
    <3>1. t \in Int /\ min = n * hrs + t
      BY <1>5
    <3> HIDE DEF t
    <3>2. (n * hrs + t) * m = (n * hrs) * m + t * m
      BY <1>1, <1>2, <3>1, SMT
    <3> QED BY <3>1, <3>2 DEF t
  <2>2. (n * hrs) * m = hrs * h
    BY <1>1, <1>2, SMT
  <2> QED BY <2>1, <2>2
<1>9. x = hrs * h + (min % n) * m + (sec % n) * s + (x % s)
  BY <1>1, <1>2, <1>4, <1>5, <1>7, <1>8, SMT
<1> QED BY <1>2, <1>4, <1>5, <1>6, <1>9, SMT DEF ClockOf, sec, min, hrs

-----------------------------------------------------------------------------
(* The calendar.                                                           *)

(* Days from 1 March of a year to the first of the month mp after March.   *)
Before(mp) == ((153 * mp) + 2) \div 5

(* The year of a day in its era, the day of that year, and whether the year*)
(* ends in a leap day, as CivilFromDays has them.  Years start in March.   *)
YearOfEra(doe) == (doe - (doe \div 1460) + (doe \div 36524) - (doe \div 146096)) \div 365
DayOfYear(doe) ==
  doe - (365 * YearOfEra(doe) + (YearOfEra(doe) \div 4) - (YearOfEra(doe) \div 100))
LeapYearOfEra(y) == y % 4 = 3 /\ (y % 100 = 99 => y = 399)

(* A day but the last of an era is day n of year y of a group of four years*)
(* q of a century b.                                                       *)
LEMMA EraDay ==
  ASSUME NEW doe \in Nat, doe < 146096
  PROVE  \E b \in 0 .. 3, q \in 0 .. 24, y \in 0 .. 3, n \in Nat :
            /\ n <= 365 /\ doe = 36524 * b + 1461 * q + 365 * y + n
            /\ n = 365 => y = 3 /\ q # 24
            /\ doe \div 36524 = b
            /\ YearOfEra(doe) = 100 * b + 4 * q + y
<1> DEFINE b == doe \div 36524
           r == doe - 36524 * b
           q == r \div 1461
           s == r - 1461 * q
           y == IF s < 365 THEN 0 ELSE IF s < 730 THEN 1 ELSE IF s < 1095 THEN 2 ELSE 3
           n == s - 365 * y
           c == IF 24 * b + q + s >= 1460 THEN 1 ELSE 0
<1>1. b \in 0 .. 3 /\ r \in Nat /\ r < 36524 /\ doe = 36524 * b + r
  BY SMT
<1> HIDE DEF b, r
<1>2. q \in 0 .. 24 /\ s \in Nat /\ s <= 1460 /\ r = 1461 * q + s /\ (q = 24 => s <= 1459)
  BY <1>1, SMT
<1> HIDE DEF q, s
<1>3. y \in 0 .. 3 /\ n \in Nat /\ n <= 365 /\ (n = 365 => y = 3 /\ q # 24) /\ s = 365 * y + n
  BY <1>2, SMT
<1>4. doe \div 1460 = 25 * b + q + c
  BY <1>1, <1>2, SMT
<1>5. doe \div 146096 = 0
  BY SMT
<1>6. doe - (doe \div 1460) + (doe \div 36524) - (doe \div 146096)
        = 365 * (100 * b + 4 * q + y) + (n - c)
  BY <1>1, <1>2, <1>3, <1>4, <1>5, SMT DEF b
<1>7. n - c \in Nat /\ n - c < 365
  BY <1>1, <1>2, <1>3, SMT
<1> HIDE DEF y, n, c
<1>8. YearOfEra(doe) = 100 * b + 4 * q + y
  BY <1>1, <1>2, <1>3, <1>6, <1>7, SMT DEF YearOfEra
<1>9. doe = 36524 * b + 1461 * q + 365 * y + n
  BY <1>1, <1>2, <1>3, SMT
<1> QED BY <1>1, <1>2, <1>3, <1>8, <1>9, SMT DEF b

LEMMA DayOfYearIs ==
  \A doe, w : YearOfEra(doe) = w => DayOfYear(doe) = doe - (365 * w + (w \div 4) - (w \div 100))
BY ZenonT(40) DEF DayOfYear

(* The year and the day of a day of an era; its last day is the leap day of*)
(* year 399.                                                               *)
LEMMA EraYear ==
  ASSUME NEW doe \in Nat, doe <= 146096
  PROVE  /\ YearOfEra(doe) \in Nat /\ YearOfEra(doe) < 400
         /\ DayOfYear(doe) \in Nat /\ DayOfYear(doe) <= 365
         /\ DayOfYear(doe) = 365 => LeapYearOfEra(YearOfEra(doe))
         /\ doe >= 146037 => YearOfEra(doe) = 399 /\ DayOfYear(doe) >= 306
         /\ doe <= 146036 => YearOfEra(doe) < 399 \/ DayOfYear(doe) <= 305
<1>1. CASE doe = 146096
  BY <1>1, SMT DEF YearOfEra, DayOfYear, LeapYearOfEra
<1>2. CASE doe # 146096
  <2>1. PICK b \in 0 .. 3, q \in 0 .. 24, y \in 0 .. 3, n \in Nat :
            /\ n <= 365 /\ doe = 36524 * b + 1461 * q + 365 * y + n
            /\ n = 365 => y = 3 /\ q # 24
            /\ YearOfEra(doe) = 100 * b + 4 * q + y
    BY <1>2, EraDay
  <2> DEFINE w == 100 * b + 4 * q + y
  <2>2. /\ w \div 4 = 25 * b + q /\ w \div 100 = b /\ w % 4 = y /\ w % 100 = 4 * q + y
        /\ w \in Nat /\ w < 400
    BY SMT
  <2>3. DayOfYear(doe) = n
    <3>1. YearOfEra(doe) = w
      BY <2>1, SMT
    <3>3. DayOfYear(doe) = doe - (365 * w + (w \div 4) - (w \div 100))
      BY <3>1, DayOfYearIs, SMT
    <3>2. doe - (365 * w + (w \div 4) - (w \div 100)) = n
      BY <2>1, <2>2, SMT
    <3> QED BY <3>2, <3>3, SMT
  <2>4. n = 365 => LeapYearOfEra(w)
    BY <2>1, <2>2, SMT DEF LeapYearOfEra
  <2>5. doe >= 146037 => w = 399 /\ n >= 306
    BY <1>2, <2>1, SMT
  <2>6. doe <= 146036 => w < 399 \/ n <= 305
    BY <2>1, SMT
  <2> QED BY <2>1, <2>2, <2>3, <2>4, <2>5, <2>6, SMT
<1> QED BY <1>1, <1>2, SMT

(* The month after March of a day of the year.                             *)
LEMMA MonthOfYear ==
  ASSUME NEW n \in Nat, n <= 365
  PROVE  /\ ((5 * n) + 2) \div 153 \in 0 .. 11
         /\ Before(((5 * n) + 2) \div 153) <= n
         /\ n < Before((((5 * n) + 2) \div 153) + 1)
<1> DEFINE mp == ((5 * n) + 2) \div 153
<1>1. mp \in 0 .. 11 /\ 153 * mp <= 5 * n + 2 /\ 5 * n + 2 < 153 * (mp + 1)
  BY SMT
<1> HIDE DEF mp
<1>2. Before(mp) <= n /\ n < Before(mp + 1)
  BY <1>1, SMT DEF Before
<1> QED BY <1>1, <1>2, SMT DEF mp

(* DaysBeforeMonth in closed form.                                         *)
MonthsRule(y, b) == b = [i \in 1 .. 12 |-> IF i = 1 THEN 0 ELSE b[i - 1] + MonthLength(y, i - 1)]
LeapDay(y) == IF Leap(y) THEN 1 ELSE 0
MonthStart(y, m) == IF m > 2 THEN 59 + LeapDay(y) + Before(m - 3) ELSE 31 * (m - 1)

LEMMA MonthLengths ==
  ASSUME NEW y \in Int
  PROVE  /\ \A m \in 1 .. 11 : MonthStart(y, m + 1) = MonthStart(y, m) + MonthLength(y, m)
         /\ MonthStart(y, 1) = 0
         /\ MonthLength(y, 1) = 31 /\ MonthLength(y, 2) = 28 + LeapDay(y)
         /\ \A m \in 3 .. 12 : m # 12 => MonthLength(y, m) = Before(m - 2) - Before(m - 3)
         /\ MonthLength(y, 12) = 31
BY SMT DEF MonthStart, MonthLength, Before, LeapDay

LEMMA MonthsAre ==
  ASSUME NEW y \in Int, NEW m \in 1 .. 12
  PROVE  DaysBeforeMonth(y, m) = MonthStart(y, m)
<1> DEFINE Rule(b) == [i \in 1 .. 12 |-> IF i = 1 THEN 0 ELSE b[i - 1] + MonthLength(y, i - 1)]
           w == [i \in 1 .. 12 |-> MonthStart(y, i)]
           c == CHOOSE b : b = Rule(b)
<1>1. w = Rule(w)
  <2> SUFFICES ASSUME NEW i \in 1 .. 12
               PROVE  MonthStart(y, i) = IF i = 1 THEN 0 ELSE w[i - 1] + MonthLength(y, i - 1)
    OBVIOUS
  <2>1. CASE i = 1
    BY <2>1, MonthLengths
  <2>2. CASE i # 1
    <3>1. i - 1 \in 1 .. 11 /\ i - 1 \in 1 .. 12 /\ i - 1 + 1 = i
      BY <2>2, SMT
    <3>2. MonthStart(y, i - 1 + 1) = MonthStart(y, i - 1) + MonthLength(y, i - 1)
      BY <3>1, MonthLengths
    <3> QED BY <2>2, <3>1, <3>2
  <2> QED BY <2>1, <2>2
<1>2. c = Rule(c)
  <2> HIDE DEF Rule, w
  <2> QED BY <1>1
<1>3. DaysBeforeMonth(y, m) = c[m]
  BY DEF DaysBeforeMonth
<1> HIDE DEF c
<1>4. ASSUME NEW i \in 1 .. 12 PROVE c[i] = IF i = 1 THEN 0 ELSE c[i - 1] + MonthLength(y, i - 1)
  BY <1>2
<1> DEFINE Right(i) == c[i] = MonthStart(y, i)
<1>5. Right(1)
  BY <1>4, MonthLengths
<1>6. ASSUME NEW i \in 1 .. 11, Right(i) PROVE Right(i + 1)
  <2>1. i + 1 \in 1 .. 12 /\ i + 1 # 1 /\ i + 1 - 1 = i
    BY SMT
  <2>2. c[i + 1] = c[i + 1 - 1] + MonthLength(y, i + 1 - 1)
    BY <1>4, <2>1
  <2> QED BY <1>6, <2>1, <2>2, MonthLengths
<1> HIDE DEF Right
<1>7. /\ Right(2) /\ Right(3) /\ Right(4) /\ Right(5) /\ Right(6) /\ Right(7)
      /\ Right(8) /\ Right(9) /\ Right(10) /\ Right(11) /\ Right(12)
  BY <1>5, <1>6, SMT
<1>8. Right(m)
  BY <1>5, <1>7, SMT
<1> QED BY <1>3, <1>8 DEF Right

(* The leap years up to year y of the calendar, and those of an era.       *)
LeapCount(y) == (y \div 4) - (y \div 100) + (y \div 400) + 1

LEMMA LeapsAre ==
  ASSUME NEW y \in Int
  PROVE  /\ LeapDay(y) \in {0, 1}
         /\ LeapsBefore(y) + LeapDay(y) = LeapCount(y)
         /\ LeapsBefore(y + 1) = LeapCount(y)
BY SMT DEF LeapDay, Leap, LeapsBefore, LeapCount

LEMMA EraLeaps ==
  ASSUME NEW era \in Int, NEW y \in Nat, y < 400
  PROVE  /\ (y + era * 400) \div 4 = (y \div 4) + 100 * era
         /\ (y + era * 400) \div 100 = (y \div 100) + 4 * era
         /\ (y + era * 400) \div 400 = era
         /\ LeapYearOfEra(y) => Leap(y + era * 400 + 1)
BY SMT DEF LeapYearOfEra, Leap

(* civil_from_days: the date of every day of the years 0 to 9999 is a date *)
(* of the calendar, and counting days up to it gives that day.             *)
THEOREM CivilRight ==
  ASSUME NEW days \in Int, MinDays <= days, days <= MaxDays
  PROVE  LET date == CivilFromDays(days)
         IN  Valid(<<date.y, date.mo, date.d>>) /\ DayNumber(<<date.y, date.mo, date.d>>) = days
<1> DEFINE z   == days + 719468
           era == z \div 146097
           doe == z - era * 146097
           yoe == YearOfEra(doe)
           n   == DayOfYear(doe)
           mp  == ((5 * n) + 2) \div 153
           mo  == IF mp < 10 THEN mp + 3 ELSE mp - 9
           Y   == yoe + era * 400
           y   == Y + (IF mo <= 2 THEN 1 ELSE 0)
           d   == n - Before(mp) + 1
<1>1. CivilFromDays(days) = [y |-> y, mo |-> mo, d |-> d]
  BY SMT DEF CivilFromDays, YearOfEra, DayOfYear, Before
<1>2. z \in Int /\ -60 <= z /\ z <= 3652364
  BY SMT DEF MinDays, MaxDays
<1>3. /\ era \in Int /\ doe \in Nat /\ doe <= 146096 /\ z = 146097 * era + doe
      /\ -1 <= era /\ era <= 24
      /\ era = -1 => doe >= 146037
      /\ era = 24 => doe <= 146036
  <2> HIDE DEF z
  <2> QED BY <1>2, SMT
<1> HIDE DEF era, doe
<1>4. /\ yoe \in Nat /\ yoe < 400 /\ n \in Nat /\ n <= 365
      /\ n = 365 => LeapYearOfEra(yoe)
      /\ doe >= 146037 => yoe = 399 /\ n >= 306
      /\ doe <= 146036 => yoe < 399 \/ n <= 305
  BY <1>3, EraYear, SMT
<1>5. doe = n + 365 * yoe + (yoe \div 4) - (yoe \div 100)
  <2>1. n = doe - (365 * yoe + (yoe \div 4) - (yoe \div 100))
    BY DayOfYearIs
  <2> QED BY <1>3, <1>4, <2>1, SMT
<1> HIDE DEF yoe, n
<1>6. mp \in 0 .. 11 /\ Before(mp) <= n /\ n < Before(mp + 1)
  BY <1>4, MonthOfYear, SMT
<1> HIDE DEF mp
<1>7. /\ mo \in 1 .. 12 /\ (mo > 2 <=> mp < 10)
      /\ (mo > 2 => mo - 3 = mp) /\ (mo <= 2 => mo = mp - 9)
      /\ n >= 306 => mp >= 10
      /\ n <= 305 => mp < 10
  BY <1>4, <1>6, SMT DEF Before
<1> HIDE DEF mo
<1>8. Y \in Int /\ /\ Y \div 4 = (yoe \div 4) + 100 * era
                   /\ Y \div 100 = (yoe \div 100) + 4 * era
                   /\ Y \div 400 = era
                   /\ n = 365 => LeapDay(Y + 1) = 1
  <2>1. LeapYearOfEra(yoe) => Leap(Y + 1)
    BY <1>3, <1>4, EraLeaps, SMT
  <2> QED BY <1>3, <1>4, <2>1, EraLeaps, SMT DEF LeapDay
<1>9. days = 365 * Y + (Y \div 4) - (Y \div 100) + (Y \div 400) + n - 719468
  BY <1>3, <1>4, <1>5, <1>8, SMT DEF z
<1>10. y \in Nat /\ y <= 9999
  BY <1>3, <1>4, <1>7, SMT
<1> HIDE DEF Y
<1>11. y = Y + (IF mo <= 2 THEN 1 ELSE 0)
  OBVIOUS
<1>12. d \in Int /\ 1 <= d /\ d <= MonthLength(y, mo)
  <2>1. d \in Int /\ 1 <= d
    BY <1>4, <1>6, SMT DEF Before
  <2>2. CASE mo > 2
    <3>1. MonthLength(y, mo) = Before(mp + 1) - Before(mp)
      <4>1. CASE mo = 12
        BY <1>7, <1>10, <4>1, MonthLengths, SMT DEF Before
      <4>2. CASE mo # 12
        <5>1. mo \in 3 .. 12 /\ mo - 2 = mp + 1 /\ mo - 3 = mp
          BY <1>6, <1>7, <2>2, SMT
        <5> QED BY <1>10, <4>2, <5>1, MonthLengths, SMT
      <4> QED BY <4>1, <4>2
    <3> QED BY <1>4, <1>6, <3>1, SMT DEF Before
  <2>3. CASE mo = 1
    BY <1>4, <1>6, <1>7, <1>10, <2>3, MonthLengths, SMT DEF Before
  <2>4. CASE mo = 2
    <3>1. y = Y + 1 /\ mp = 11
      BY <1>7, <1>8, <1>11, <2>4, SMT
    <3>2. n <= 364 \/ LeapDay(y) = 1
      BY <1>4, <1>8, <3>1, SMT
    <3>3. LeapDay(y) \in {0, 1} /\ MonthLength(y, mo) = 28 + LeapDay(y)
      BY <1>10, <2>4, LeapsAre, MonthLengths, SMT
    <3> QED BY <1>4, <2>1, <3>1, <3>2, <3>3, SMT DEF Before
  <2> QED BY <1>7, <2>1, <2>2, <2>3, <2>4, SMT
<1>13. DayNumber(<<y, mo, d>>) = days
  <2>1. DayNumber(<<y, mo, d>>) = MinDays + 365 * y + LeapsBefore(y) + MonthStart(y, mo) + d - 1
    BY <1>7, <1>10, MonthsAre, SMT DEF DayNumber
  <2>2. CASE mo > 2
    <3>1. y = Y /\ MonthStart(y, mo) = 59 + LeapDay(y) + Before(mp)
      BY <1>7, <1>8, <1>11, <2>2, SMT DEF MonthStart
    <3>2. LeapsBefore(y) + LeapDay(y) = LeapCount(Y)
      <4>1. Y \in Int
        BY <1>8
      <4>2. LeapsBefore(Y) + LeapDay(Y) = LeapCount(Y)
        BY <4>1, LeapsAre
      <4> QED BY <3>1, <4>2
    <3> QED BY <1>4, <1>6, <1>8, <1>9, <2>1, <3>1, <3>2, SMT
            DEF LeapCount, MinDays, Before, LeapsBefore, LeapDay
  <2>3. CASE mo <= 2
    <3>1. y = Y + 1 /\ MonthStart(y, mo) = Before(mp) - 306 /\ mo - 1 = mp - 10
      BY <1>6, <1>7, <1>8, <1>11, <2>3, SMT DEF MonthStart, Before
    <3>2. LeapsBefore(y) = LeapCount(Y)
      <4>1. Y \in Int
        BY <1>8
      <4>2. LeapsBefore(Y + 1) = LeapCount(Y)
        BY <4>1, LeapsAre
      <4> QED BY <3>1, <4>2
    <3> QED BY <1>4, <1>6, <1>8, <1>9, <2>1, <3>1, <3>2, SMT DEF LeapCount, MinDays, Before
  <2> QED BY <1>7, <2>2, <2>3, SMT
<1> HIDE DEF y, d
<1>14. Valid(<<y, mo, d>>)
  BY <1>7, <1>10, <1>12, SMT DEF Valid, LastYear
<1> QED BY <1>1, <1>13, <1>14

-----------------------------------------------------------------------------
(* Times of day and offsets.                                               *)

(* checked_mul fails exactly if the product is out of range.               *)
LEMMA OverflowsIs ==
  ASSUME NEW a \in Int, NEW k \in Nat \ {0}, NEW max \in Nat
  PROVE  Overflows(a, k, max) <=> (a * k > max \/ a * k < -max - 1)
<1>1. CASE a >= 0
  BY <1>1, Floor, SMT DEF Overflows
<1>2. CASE a < 0
  <2>1. (-a > (max + 1) \div k) <=> max + 1 < (-a) * k
    BY Floor, SMT
  <2>2. (-a) * k = -(a * k) /\ a * k < 0
    BY <1>2, SMT
  <2> QED BY <1>2, <2>1, <2>2, SMT DEF Overflows
<1> QED BY <1>1, <1>2

LEMMA UnitsAre ==
  /\ UsPerSecond \in Nat \ {0} /\ UsPerMinute \in Nat \ {0}
  /\ UsPerHour \in Nat \ {0} /\ UsPerDay \in Nat \ {0}
<1>1. UsPerSecond \in Nat \ {0}
  BY CalendarAssumption, Product DEF UsPerSecond
<1>2. UsPerMinute \in Nat \ {0}
  BY <1>1, CalendarAssumption, Product DEF UsPerMinute
<1>3. UsPerHour \in Nat \ {0}
  BY <1>2, CalendarAssumption, Product DEF UsPerHour
<1>4. UsPerDay \in Nat \ {0}
  BY <1>3, CalendarAssumption, Product DEF UsPerDay
<1> QED BY <1>1, <1>2, <1>3, <1>4

Hours(x) == x \div UsPerHour
Minutes(x) == (x \div UsPerMinute) % Sixty
Seconds(x) == (x \div UsPerSecond) % Sixty
Micros(x) == x % UsPerSecond

(* The fields of a time of day.                                            *)
LEMMA ClockIs ==
  ASSUME NEW x \in Nat, x < UsPerDay
  PROVE  /\ Hours(x) \in Nat /\ Hours(x) < TwentyFour
         /\ Minutes(x) \in Nat /\ Minutes(x) < Sixty
         /\ Seconds(x) \in Nat /\ Seconds(x) < Sixty
         /\ Micros(x) \in Nat /\ Micros(x) < UsPerSecond
         /\ x = Hours(x) * UsPerHour + Minutes(x) * UsPerMinute
                + Seconds(x) * UsPerSecond + Micros(x)
<1>1. /\ UsPerMinute = Sixty * UsPerSecond /\ UsPerHour = Sixty * UsPerMinute
      /\ x < TwentyFour * UsPerHour
  BY DEF UsPerMinute, UsPerHour, UsPerDay
<1>2. UsPerSecond \in Nat \ {0} /\ Sixty \in Nat \ {0} /\ TwentyFour \in Nat \ {0}
  BY UnitsAre, CalendarAssumption
<1>4. UsPerMinute \in Nat \ {0} /\ UsPerHour \in Nat \ {0}
  BY UnitsAre
<1>3. ClockOf(x, UsPerSecond, Sixty, TwentyFour, UsPerMinute, UsPerHour)
  BY <1>1, <1>2, <1>4, Clocked, Zenon
<1> QED BY <1>3, Zenon DEF ClockOf, Hours, Minutes, Seconds, Micros

LEMMA Fourth ==
  ASSUME NEW a, NEW b, NEW c, NEW d
  PROVE  <<a, b, c>> \o <<d>> = <<a, b, c, d>>
<1> DEFINE S == {a, b, c, d}
           s == <<a, b, c>>
           t == <<d>>
           r == <<a, b, c, d>>
<1>1. /\ s \in Seq(S) /\ t \in Seq(S) /\ r \in Seq(S) /\ Len(r) = 4 /\ Len(s) = 3 /\ Len(t) = 1
      /\ s[1] = a /\ s[2] = b /\ s[3] = c /\ t[1] = d
      /\ r[1] = a /\ r[2] = b /\ r[3] = c /\ r[4] = d
  OBVIOUS
<1> HIDE DEF s, t, r, S
<1>2. /\ s \o t \in Seq(S) /\ Len(s \o t) = Len(s) + Len(t)
      /\ \A i \in 1 .. Len(s) + Len(t) : (s \o t)[i] = IF i <= Len(s) THEN s[i] ELSE t[i - Len(s)]
  <2>1. s \in Seq(S) /\ t \in Seq(S)
    BY <1>1
  <2> QED BY <2>1, ConcatProperties
<1>3. \A i \in 1 .. 4 : (s \o t)[i] = r[i]
  <2>1. (s \o t)[4] = t[1]
    BY <1>1, <1>2
  <2> QED BY <1>1, <1>2, <2>1
<1>4. s \o t = r
  <2>1. Len(s \o t) = Len(r) /\ \A i \in 1 .. Len(s \o t) : (s \o t)[i] = r[i]
    BY <1>1, <1>2, <1>3
  <2> QED BY <1>1, <1>2, <2>1, SeqEqual
<1> QED BY <1>4 DEF s, t, r
LEMMA Fifth ==
  ASSUME NEW a, NEW b, NEW c, NEW d, NEW e
  PROVE  <<a, b, c>> \o <<d, e>> = <<a, b, c, d, e>>
<1> DEFINE S == {a, b, c, d, e}
           s == <<a, b, c>>
           t == <<d, e>>
           r == <<a, b, c, d, e>>
<1>1. /\ s \in Seq(S) /\ t \in Seq(S) /\ r \in Seq(S) /\ Len(r) = 5 /\ Len(s) = 3 /\ Len(t) = 2
      /\ s[1] = a /\ s[2] = b /\ s[3] = c /\ t[1] = d /\ t[2] = e
      /\ r[1] = a /\ r[2] = b /\ r[3] = c /\ r[4] = d /\ r[5] = e
  OBVIOUS
<1> HIDE DEF s, t, r, S
<1>2. /\ s \o t \in Seq(S) /\ Len(s \o t) = Len(s) + Len(t)
      /\ \A i \in 1 .. Len(s) + Len(t) : (s \o t)[i] = IF i <= Len(s) THEN s[i] ELSE t[i - Len(s)]
  <2>1. s \in Seq(S) /\ t \in Seq(S)
    BY <1>1
  <2> QED BY <2>1, ConcatProperties
<1>3. \A i \in 1 .. 5 : (s \o t)[i] = r[i]
  <2>1. (s \o t)[4] = t[1] /\ (s \o t)[5] = t[2]
    BY <1>1, <1>2
  <2> QED BY <1>1, <1>2, <2>1
<1>4. s \o t = r
  <2>1. Len(s \o t) = Len(r) /\ \A i \in 1 .. Len(s \o t) : (s \o t)[i] = r[i]
    BY <1>1, <1>2, <1>3
  <2> QED BY <1>1, <1>2, <2>1, SeqEqual
<1> QED BY <1>4 DEF s, t, r

LEMMA Tails ==
  ASSUME NEW a, NEW b, NEW c, NEW d, NEW e
  PROVE  /\ <<a, b, c>> \o <<>> = <<a, b, c>>
         /\ Tail(<<a, b, c>>) = <<b, c>> /\ <<a, b, c>> # <<"Z">>
         /\ Tail(<<a, b, c, d>>) = <<b, c, d>> /\ <<a, b, c, d>> # <<"Z">>
         /\ Tail(<<a, b, c, d, e>>) = <<b, c, d, e>> /\ <<a, b, c, d, e>> # <<"Z">>
OBVIOUS

OffsetReads(us, o) ==
  LET t == FmtOffset(us, o)
      f == Tail(t)
  IN  IF t = <<"Z">> THEN us = 0 /\ "utc_z" \in o
      ELSE /\ t[1] \in {"+", "-"} /\ Clock(f)
           /\ us = (IF t[1] = "-" THEN -TimeOf(f) ELSE TimeOf(f))
           /\ Len(f) = 3 => f[3] # 0

(* What FmtOffset writes of an offset reads as that offset.                *)
LEMMA OffsetIs ==
  ASSUME NEW us \in Int, -UsPerDay < us, us < UsPerDay, NEW o
  PROVE  OffsetReads(us, o)
<1> DEFINE m == IF us < 0 THEN -us ELSE us
           t == FmtOffset(us, o)
           sign == IF us < 0 THEN "-" ELSE "+"
           hh == Hours(m)
           mm == Minutes(m)
           ss == Seconds(m)
           rest == Micros(m)
<1>1. m \in Nat /\ m < UsPerDay
  BY UnitsAre
<1>2. /\ hh \in Nat /\ hh < TwentyFour /\ mm \in Nat /\ mm < Sixty
      /\ ss \in Nat /\ ss < Sixty /\ rest \in Nat /\ rest < UsPerSecond
      /\ m = hh * UsPerHour + mm * UsPerMinute + ss * UsPerSecond + rest
  BY <1>1, ClockIs
<1>3. us # 0 =>
        t = <<sign, hh, mm>> \o IF ss = 0 /\ rest = 0 THEN <<>>
                                ELSE IF rest = 0 THEN <<ss>> ELSE <<ss, rest>>
  BY DEF FmtOffset, Hours, Minutes, Seconds, Micros
<1>4. us = 0 => t = IF "utc_z" \in o THEN <<"Z">> ELSE <<"+", 0, 0>>
  BY DEF FmtOffset
<1> HIDE DEF t, hh, mm, ss, rest
<1>5. us = (IF sign = "-" THEN -m ELSE m) /\ sign \in {"+", "-"}
  OBVIOUS
<1> HIDE DEF m, sign
<1>12. /\ UsPerSecond \in Nat /\ UsPerMinute \in Nat /\ UsPerHour \in Nat
       /\ Sixty \in Nat \ {0} /\ TwentyFour \in Nat \ {0}
  BY UnitsAre, CalendarAssumption
<1>6. CASE us = 0 /\ "utc_z" \in o
  BY <1>4, <1>6 DEF OffsetReads, t
<1>7. ASSUME NEW f, NEW g, t = g, g # <<"Z">>, Tail(g) = f, g[1] \in {"+", "-"}, Clock(f),
             us = (IF g[1] = "-" THEN -TimeOf(f) ELSE TimeOf(f)), Len(f) = 3 => f[3] # 0
      PROVE  OffsetReads(us, o)
  BY <1>7 DEF OffsetReads, t
<1>8. CASE us = 0 /\ "utc_z" \notin o
  <2> DEFINE g == <<"+", 0, 0>>
             f == <<0, 0>>
  <2>1. t = g
    BY <1>4, <1>8
  <2>2. Tail(g) = f /\ g # <<"Z">> /\ g[1] \in {"+", "-"} /\ g[1] = "+"
    BY <1>5, Tails
  <2>3. Clock(f) /\ TimeOf(f) = 0 /\ (Len(f) = 3 => f[3] # 0)
    BY <1>2, <1>8, <1>12 DEF Clock, TimeOf
  <2>4. TimeOf(f) = 0
    BY <1>2, <1>8, <1>12, <2>3
  <2> HIDE DEF f, g
  <2> QED BY <1>5, <1>7, <1>8, <2>1, <2>2, <2>3, <2>4
<1>9. CASE us # 0 /\ ss = 0 /\ rest = 0
  <2> DEFINE g == <<sign, hh, mm>>
             f == <<hh, mm>>
  <2>1. t = g
    BY <1>3, <1>9, Tails
  <2>2. Tail(g) = f /\ g # <<"Z">> /\ g[1] \in {"+", "-"} /\ g[1] = sign
    BY <1>5, Tails
  <2>3. Clock(f) /\ TimeOf(f) = hh * UsPerHour + mm * UsPerMinute /\ (Len(f) = 3 => f[3] # 0)
    BY <1>2, <1>9, <1>12 DEF Clock, TimeOf
  <2>4. TimeOf(f) = m
    BY <1>2, <1>9, <1>12, <2>3
  <2> HIDE DEF f, g
  <2> QED BY <1>5, <1>7, <1>9, <2>1, <2>2, <2>3, <2>4
<1>10. CASE us # 0 /\ ss # 0 /\ rest = 0
  <2> DEFINE g == <<sign, hh, mm, ss>>
             f == <<hh, mm, ss>>
  <2>1. t = g
    BY <1>3, <1>10, Fourth
  <2>2. Tail(g) = f /\ g # <<"Z">> /\ g[1] \in {"+", "-"} /\ g[1] = sign
    BY <1>5, Tails
  <2>3. /\ Clock(f) /\ TimeOf(f) = hh * UsPerHour + mm * UsPerMinute + ss * UsPerSecond
        /\ Len(f) = 3 => f[3] # 0
    BY <1>2, <1>10, <1>12 DEF Clock, TimeOf
  <2>4. TimeOf(f) = m
    BY <1>2, <1>10, <1>12, <2>3
  <2> HIDE DEF f, g
  <2> QED BY <1>5, <1>7, <1>10, <2>1, <2>2, <2>3, <2>4
<1>11. CASE us # 0 /\ rest # 0
  <2> DEFINE g == <<sign, hh, mm, ss, rest>>
             f == <<hh, mm, ss, rest>>
  <2>1. t = g
    BY <1>3, <1>11, Fifth
  <2>2. Tail(g) = f /\ g # <<"Z">> /\ g[1] \in {"+", "-"} /\ g[1] = sign
    BY <1>5, Tails
  <2>3. /\ Clock(f) /\ TimeOf(f) = hh * UsPerHour + mm * UsPerMinute + ss * UsPerSecond + rest
        /\ Len(f) = 3 => f[3] # 0
    BY <1>2, <1>11, <1>12 DEF Clock, TimeOf
  <2>4. TimeOf(f) = m
    BY <1>2, <1>11, <1>12, <2>3
  <2> HIDE DEF f, g
  <2> QED BY <1>5, <1>7, <1>11, <2>1, <2>2, <2>3, <2>4
<1> QED BY <1>6, <1>8, <1>9, <1>10, <1>11

-----------------------------------------------------------------------------
(* Units.                                                                  *)

Digits(a, m) == IF a = None \/ Overflows(a, 10, MaxI64) THEN None
                ELSE IF a * 10 > MaxI64 - m THEN None ELSE a * 10 + m

LEMMA DigitsType ==
  ASSUME NEW a \in Nat \cup {None}, NEW m \in 0 .. 9
  PROVE  Digits(a, m) \in Nat \cup {None}
<1>1. a # None => a \in Nat
  OBVIOUS
<1>2. a \in Nat => a * 10 + m \in Nat
  OBVIOUS
<1> QED BY <1>1, <1>2, Zenon DEF Digits

LEMMA MultiplierType ==
  ASSUME NEW digits \in Seq(0 .. 9)
  PROVE  Multiplier(digits) \in Nat \cup {None}
<1> DEFINE n == Len(digits)
           V == Nat \cup {None}
           Rule(f) == [k \in 0 .. n |-> IF k = 0 THEN 0 ELSE Digits(f[k - 1], digits[k])]
           Full(f) == [k \in 0 .. n |->
                          IF k = 0 THEN 0
                          ELSE IF f[k - 1] = None \/ Overflows(f[k - 1], 10, MaxI64) THEN None
                          ELSE IF f[k - 1] * 10 > MaxI64 - digits[k] THEN None
                          ELSE f[k - 1] * 10 + digits[k]]
           c == CHOOSE f : f = Full(f)
           s == [p \in (1 .. n) \X V |-> Digits(p[2], digits[p[1]])]
<1>1. n \in Nat /\ \A k \in 1 .. n : digits[k] \in 0 .. 9
  OBVIOUS
<1> HIDE DEF n
<1>2. ASSUME NEW k \in 1 .. n, NEW v \in V
      PROVE  s[<<k, v>>] = Digits(v, digits[k]) /\ s[<<k, v>>] \in V
  <2>1. s[<<k, v>>] = Digits(v, digits[k])
    OBVIOUS
  <2> QED BY <1>1, <2>1, DigitsType
<1> HIDE DEF s
<1>3. PICK f : RunOf(n, V, 0, s, f)
  <2>1. StepOf(n, V, s)
    BY <1>2 DEF StepOf
  <2>2. 0 \in V
    OBVIOUS
  <2> HIDE DEF V
  <2> QED BY <1>1, <2>1, <2>2, Recursion
<1>4. \A g : Full(g) = Rule(g)
  BY DEF Digits
<1>5. f = Full(f)
  <2>1. f \in [0 .. n -> V] /\ f[0] = 0
    BY <1>3 DEF RunOf
  <2>2. ASSUME NEW k \in 0 .. n, k # 0 PROVE f[k] = Digits(f[k - 1], digits[k])
    <3>1. k \in 1 .. n /\ k - 1 \in 0 .. n
      BY <1>1, <2>2
    <3>2. f[k] = s[<<k, f[k - 1]>>] /\ f[k - 1] \in V
      BY <1>3, <2>1, <3>1 DEF RunOf
    <3> QED BY <1>2, <3>1, <3>2
  <2>3. f = Rule(f)
    <3> HIDE DEF V
    <3> QED BY <2>1, <2>2
  <2> QED BY <1>4, <2>3
<1> HIDE DEF Full
<1>6. c = Rule(c)
  <2>1. c = Full(c)
    BY <1>5
  <2> QED BY <1>4, <2>1
<1>7. Multiplier(digits) = c[n]
  BY DEF Multiplier, n, Full
<1> HIDE DEF c
<1> DEFINE S == {k \in 0 .. n : c[k] \in V}
<1>8. 0 \in S
  <2>1. 0 \in 0 .. n
    BY <1>1
  <2> QED BY <1>6, <2>1
<1>9. ASSUME NEW k \in 0 .. n - 1, k \in S PROVE k + 1 \in S
  <2>1. k + 1 \in 0 .. n /\ k + 1 # 0 /\ k + 1 - 1 = k /\ k + 1 \in 1 .. n
    BY <1>1
  <2>2. c[k + 1] = Digits(c[k + 1 - 1], digits[k + 1])
    <3>1. ASSUME NEW i \in 0 .. n, i # 0 PROVE c[i] = Digits(c[i - 1], digits[i])
      BY <1>6, <3>1
    <3> DEFINE j == k + 1
    <3>2. j \in 0 .. n /\ j # 0
      BY <2>1
    <3> HIDE DEF j
    <3>3. c[j] = Digits(c[j - 1], digits[j])
      BY <3>1, <3>2
    <3> QED BY <3>3 DEF j
  <2>3. c[k + 1] = Digits(c[k], digits[k + 1]) /\ c[k] \in V
    BY <1>9, <2>1, <2>2
  <2>4. digits[k + 1] \in 0 .. 9
    BY <1>1, <2>1
  <2>5. Digits(c[k], digits[k + 1]) \in V
    BY <2>3, <2>4, DigitsType
  <2> QED BY <2>1, <2>3, <2>5
<1> HIDE DEF S
<1>10. 0 .. n \subseteq S
  BY <1>1, <1>8, <1>9, BoundedInduction
<1>11. n \in S
  BY <1>1, <1>10
<1> QED BY <1>7, <1>11 DEF S

UnitRecords == [base : Codes \cup {"generic"}, mult : Nat \ {0}]

(* What parse_dt64 gives is a unit.                                        *)
LEMMA UnitType ==
  ASSUME NEW a \in Arrays \cup Scalars, ParseDt64(a.dtype) # None
  PROVE  ParseDt64(a.dtype) \in UnitRecords
<1>1. a.dtype.good \in BOOLEAN /\ a.dtype.brackets \in BOOLEAN /\ a.dtype.digits \in Seq(0 .. 9)
  BY DatesAssumption
<1> DEFINE mult == IF a.dtype.digits = <<>> THEN 1 ELSE Multiplier(a.dtype.digits)
<1>2. mult \in Nat \cup {None}
  BY <1>1, MultiplierType
<1> HIDE DEF mult
<1>3. ParseDt64(a.dtype) =
        CASE ~a.dtype.good -> None
          [] a.dtype.good /\ ~a.dtype.brackets -> [base |-> "generic", mult |-> 1]
          [] OTHER -> IF mult \in {0, None} \/ a.dtype.code \notin Codes THEN None
                      ELSE [base |-> a.dtype.code, mult |-> mult]
  BY DEF ParseDt64, mult
<1>4. CASE a.dtype.good /\ ~a.dtype.brackets
  <2>1. ParseDt64(a.dtype) = [base |-> "generic", mult |-> 1]
    BY <1>3, <1>4
  <2> QED BY <2>1 DEF UnitRecords
<1>5. CASE a.dtype.good /\ a.dtype.brackets
  <2>1. /\ mult \notin {0, None} /\ a.dtype.code \in Codes
        /\ ParseDt64(a.dtype) = [base |-> a.dtype.code, mult |-> mult]
    BY <1>3, <1>5
  <2> QED BY <1>2, <2>1 DEF UnitRecords
<1> QED BY <1>1, <1>3, <1>4, <1>5

-----------------------------------------------------------------------------
(* The parts of a datetime64 value.                                        *)

Errors == {Unrepresentable, GenericUnit}
Fields == [y : Int, mo : Int, d : Int, h : Int, mi : Int, s : Int, us : Int]
Ymd(p) == <<p.y, p.mo, p.d>>
Time(p) == p.h * UsPerHour + p.mi * UsPerMinute + p.s * UsPerSecond + p.us

Proper(p) ==
  /\ p \in Fields /\ Valid(Ymd(p))
  /\ 0 <= p.h /\ p.h < TwentyFour /\ 0 <= p.mi /\ p.mi < Sixty
  /\ 0 <= p.s /\ p.s < Sixty /\ 0 <= p.us /\ p.us < UsPerSecond

LEMMA ValidType ==
  ASSUME NEW f, Valid(f)
  PROVE  f[1] \in Int /\ f[2] \in Int /\ f[3] \in Int
<1> DEFINE a == f[1]
           b == f[2]
           c == f[3]
           last == MonthLength(a, b)
<1>1. a \in 0 .. LastYear /\ b \in 1 .. 12 /\ c \in 1 .. last
  BY DEF Valid
<1> HIDE DEF a, b, c, last
<1>2. a \in Int /\ b \in Int /\ c \in Int
  BY <1>1
<1> QED BY <1>2 DEF a, b, c

LEMMA ProperIsNoError ==
  ASSUME NEW p, Proper(p)
  PROVE  p \notin Errors /\ p # None
<1>1. p \in Fields
  BY DEF Proper
<1>2. p # None
  BY <1>1, DatesAssumption DEF Fields
<1>3. "y" \in DOMAIN p
  BY <1>1 DEF Fields
<1>4. "y" \notin DOMAIN Unrepresentable /\ "y" \notin DOMAIN GenericUnit
  BY DEF Unrepresentable, GenericUnit
<1> QED BY <1>2, <1>3, <1>4 DEF Errors

(* The instants that have a date.                                          *)
Dated(us) == MinDays * UsPerDay <= us /\ us <= EndOfTime

(* An instant of the years 0 to 9999 has the parts that say it, any other  *)
(* has none.                                                               *)
LEMMA InstantIs ==
  ASSUME NEW us \in Int
  PROVE  /\ ~Dated(us) => Instant(us) = Unrepresentable
         /\ Dated(us) => /\ Proper(Instant(us))
                         /\ DayNumber(Ymd(Instant(us))) * UsPerDay + Time(Instant(us)) = us
<1> DEFINE days == us \div UsPerDay
           rem == us % UsPerDay
           date == CivilFromDays(days)
<1>1. UsPerDay \in Nat \ {0}
  BY UnitsAre
<1>2. days \in Int /\ rem \in Nat /\ rem < UsPerDay /\ us = UsPerDay * days + rem
  BY <1>1, Division
<1>3. Dated(us) <=> MinDays <= days /\ days <= MaxDays
  <2>1. MinDays \in Int /\ MaxDays + 1 \in Int
    BY DEF MinDays, MaxDays
  <2>2. (MinDays <= us \div UsPerDay <=> MinDays * UsPerDay <= us)
    BY <1>1, <2>1, Floor
  <2>3. (us \div UsPerDay < MaxDays + 1 <=> us < (MaxDays + 1) * UsPerDay)
    BY <1>1, <2>1, Floor
  <2> DEFINE e == (MaxDays + 1) * UsPerDay
             b == MinDays * UsPerDay
             q == us \div UsPerDay
             first == MinDays
             last == MaxDays
  <2>4. e \in Int /\ b \in Int /\ q \in Int /\ last \in Int /\ first \in Int
    BY <1>1, <1>2 DEF MinDays, MaxDays
  <2>5. Dated(us) <=> b <= us /\ us <= e - 1
    BY DEF Dated, EndOfTime
  <2> HIDE DEF e, b, q, first, last
  <2>6. (first <= q <=> b <= us) /\ (q < last + 1 <=> us < e)
    BY <2>2, <2>3 DEF e, b, q, first, last
  <2>7. Dated(us) <=> first <= q /\ q <= last
    BY <2>4, <2>5, <2>6
  <2> QED BY <2>7 DEF first, last, q
<1>4. Instant(us) =
        IF days \notin MinDays .. MaxDays THEN Unrepresentable
        ELSE [y |-> date.y, mo |-> date.mo, d |-> date.d,
              h |-> Hours(rem), mi |-> Minutes(rem), s |-> Seconds(rem), us |-> Micros(rem)]
  BY DEF Instant, Hours, Minutes, Seconds, Micros
<1> HIDE DEF days, rem, date
<1>5. days \in MinDays .. MaxDays <=> MinDays <= days /\ days <= MaxDays
  <2>1. MinDays \in Int /\ MaxDays \in Int
    BY DEF MinDays, MaxDays
  <2> QED BY <1>2, <2>1
<1>6. ASSUME Dated(us)
      PROVE  /\ Proper(Instant(us))
             /\ DayNumber(Ymd(Instant(us))) * UsPerDay + Time(Instant(us)) = us
  <2> DEFINE p == Instant(us)
             f == <<date.y, date.mo, date.d>>
  <2>1. p = [y |-> date.y, mo |-> date.mo, d |-> date.d,
              h |-> Hours(rem), mi |-> Minutes(rem), s |-> Seconds(rem), us |-> Micros(rem)]
    BY <1>3, <1>4, <1>5, <1>6
  <2>2. Valid(f) /\ DayNumber(f) = days
    BY <1>2, <1>3, <1>6, CivilRight DEF date
  <2>3. /\ Hours(rem) \in Nat /\ Hours(rem) < TwentyFour
        /\ Minutes(rem) \in Nat /\ Minutes(rem) < Sixty
        /\ Seconds(rem) \in Nat /\ Seconds(rem) < Sixty
        /\ Micros(rem) \in Nat /\ Micros(rem) < UsPerSecond
        /\ rem = Hours(rem) * UsPerHour + Minutes(rem) * UsPerMinute
                 + Seconds(rem) * UsPerSecond + Micros(rem)
    BY <1>2, ClockIs
  <2> HIDE DEF p
  <2>4. /\ p.y = date.y /\ p.mo = date.mo /\ p.d = date.d
        /\ p.h = Hours(rem) /\ p.mi = Minutes(rem) /\ p.s = Seconds(rem) /\ p.us = Micros(rem)
    BY <2>1, Zenon
  <2>5. Ymd(p) = f /\ Time(p) = rem
    BY <2>3, <2>4, Zenon DEF Ymd, Time
  <2>6. p \in Fields
    <3>1. date.y \in Int /\ date.mo \in Int /\ date.d \in Int
      <4>1. f[1] = date.y /\ f[2] = date.mo /\ f[3] = date.d
        OBVIOUS
      <4>2. f[1] \in Int /\ f[2] \in Int /\ f[3] \in Int
        <5> HIDE DEF f
        <5> QED BY <2>2, ValidType
      <4> QED BY <4>1, <4>2
    <3> QED BY <2>1, <2>3, <3>1 DEF Fields
  <2>7. Proper(p)
    BY <2>2, <2>3, <2>4, <2>5, <2>6 DEF Proper
  <2>8. DayNumber(Ymd(p)) * UsPerDay + Time(p) = us
    BY <1>1, <1>2, <2>2, <2>5
  <2> QED BY <2>7, <2>8 DEF p
<1>7. ~Dated(us) => Instant(us) = Unrepresentable
  BY <1>3, <1>4, <1>5
<1> QED BY <1>6, <1>7

(* What Within bounds, without the division.                               *)
LEMMA WithinIs ==
  ASSUME NEW v \in Int, NEW k \in Nat \ {0}, NEW first \in Int, NEW last \in Int
  PROVE  Within(v, k, first, last) <=> first <= v * k /\ v * k <= last
<1>1. v <= last \div k <=> v * k <= last
  BY Floor
<1>2. -v <= (-first) \div k <=> (-v) * k <= -first
  <2> DEFINE m == -v
             x == -first
  <2>1. m \in Int /\ x \in Int
    OBVIOUS
  <2> HIDE DEF m, x
  <2>2. m <= x \div k <=> m * k <= x
    BY <2>1, Floor
  <2> QED BY <2>2 DEF m, x
<1>3. (-v) * k = -(v * k)
  BY SMT
<1>4. -v <= (-first) \div k <=> first <= v * k
  <2>1. v * k \in Int
    OBVIOUS
  <2> QED BY <1>2, <1>3, <2>1
<1> QED BY <1>1, <1>4, Zenon DEF Within

LEMMA BasesAre ==
  /\ DOMAIN Coarse = {"W", "D", "h", "m", "s", "ms", "us"}
  /\ DOMAIN Fine = {"ns", "ps", "fs", "as"}
  /\ \A b \in DOMAIN Coarse : Coarse[b] \in Nat \ {0}
  /\ \A b \in DOMAIN Fine : Fine[b] \in Nat \ {0}
<1>1. /\ DOMAIN Coarse = {"W", "D", "h", "m", "s", "ms", "us"}
      /\ DOMAIN Fine = {"ns", "ps", "fs", "as"}
  BY DEF Coarse, Fine
<1>2. Thousand \in Nat \ {0} /\ UsPerSecond \in Nat \ {0}
  BY CalendarAssumption, UnitsAre
<1>3. /\ 7 * UsPerDay \in Nat \ {0} /\ Thousand * Thousand \in Nat \ {0}
      /\ Thousand * UsPerSecond \in Nat \ {0} /\ UsPerSecond * UsPerSecond \in Nat \ {0}
  <2>1. 7 \in Nat \ {0}
    OBVIOUS
  <2> QED BY <1>2, <2>1, UnitsAre, Product
<1>4. \A b \in DOMAIN Coarse : Coarse[b] \in Nat \ {0}
  BY <1>1, <1>2, <1>3, UnitsAre DEF Coarse
<1>5. \A b \in DOMAIN Fine : Fine[b] \in Nat \ {0}
  BY <1>1, <1>2, <1>3 DEF Fine
<1> QED BY <1>1, <1>4, <1>5

(* An i128 is wide enough for every date in every unit.                    *)
LEMMA Wide ==
  /\ EndOfTime + 1 = (MaxDays + 1) * UsPerDay /\ EndOfTime \in Nat /\ EndOfTime >= 2932896
  /\ MinDays * UsPerDay \in Int /\ -EndOfTime <= MinDays * UsPerDay
  /\ MaxI128 \in Nat /\ EndOfTime < MaxI128
  /\ \A b \in DOMAIN Fine : (EndOfTime + 1) * Fine[b] <= MaxI128
<1>1. UsPerDay \in Nat \ {0} /\ MaxI128 \in Nat
  BY UnitsAre, CalendarAssumption
<1>2. EndOfTime = 2932897 * UsPerDay - 1
  BY SMT DEF EndOfTime, MaxDays
<1>3. EndOfTime + 1 = (MaxDays + 1) * UsPerDay /\ EndOfTime \in Nat /\ EndOfTime >= 2932896
  BY <1>1, <1>2, SMT DEF MaxDays
<1>4. MinDays * UsPerDay \in Int /\ -EndOfTime <= MinDays * UsPerDay
  BY <1>1, <1>2, SMT DEF MinDays
<1>5. ASSUME NEW b \in DOMAIN Fine PROVE (EndOfTime + 1) * Fine[b] <= MaxI128
  <2> DEFINE f == Fine[b]
  <2>1. f \in Nat \ {0}
    BY BasesAre
  <2>2. EndOfTime < MaxI128 \div f
    BY DatesAssumption
  <2> HIDE DEF f
  <2>3. MaxI128 \div f \in Int
    BY <1>1, <2>1, Division
  <2>4. EndOfTime + 1 <= MaxI128 \div f
    BY <1>3, <2>2, <2>3
  <2>5. EndOfTime + 1 \in Int /\ MaxI128 \in Int
    BY <1>1, <1>3
  <2>6. (EndOfTime + 1) * f <= MaxI128
    BY <1>1, <2>1, <2>4, <2>5, Floor, Zenon
  <2> QED BY <2>6 DEF f
<1>6. EndOfTime < MaxI128
  <2> DEFINE f == Fine["ns"]
  <2>1. f \in Nat \ {0} /\ (EndOfTime + 1) * f <= MaxI128
    BY <1>5, BasesAre
  <2> HIDE DEF f
  <2>2. EndOfTime + 1 \in Nat \ {0}
    BY <1>3
  <2>3. EndOfTime + 1 <= (EndOfTime + 1) * f
    BY <2>1, <2>2, Product
  <2>4. (EndOfTime + 1) * f \in Nat
    BY <2>1, <2>2, Product
  <2> QED BY <1>1, <1>3, <2>1, <2>3, <2>4
<1> QED BY <1>1, <1>3, <1>4, <1>5, <1>6

(* The first day of a month.                                               *)
LEMMA MonthIs ==
  ASSUME NEW y \in Int, NEW mo \in 1 .. 12
  PROVE  /\ ~(0 <= y /\ y <= 9999) => Month(y, mo) = Unrepresentable
         /\ 0 <= y /\ y <= 9999 => /\ Proper(Month(y, mo)) /\ Ymd(Month(y, mo)) = <<y, mo, 1>>
                                   /\ Time(Month(y, mo)) = 0
<1> DEFINE p == [y |-> y, mo |-> mo, d |-> 1, h |-> 0, mi |-> 0, s |-> 0, us |-> 0]
<1>1. y \in 0 .. 9999 <=> 0 <= y /\ y <= 9999
  BY SMT
<1>2. Month(y, mo) = IF y \in 0 .. 9999 THEN p ELSE Unrepresentable
  BY SMTT(30) DEF Month
<1>3. y \in 0 .. 9999 => Valid(<<y, mo, 1>>)
  BY SMT DEF Valid, LastYear, MonthLength
<1>4. p \in Fields
  BY DEF Fields
<1>5. Ymd(p) = <<y, mo, 1>>
  BY DEF Ymd
<1>6. Time(p) = 0
  BY UnitsAre DEF Time
<1>7. y \in 0 .. 9999 => Proper(p)
  BY <1>3, <1>4, <1>5, CalendarAssumption, UnitsAre, SMT DEF Proper
<1> DEFINE in == y \in 0 .. 9999
           late == 0 <= y /\ y <= 9999
<1>8. in <=> late
  BY <1>1
<1>9. Month(y, mo) = IF in THEN p ELSE Unrepresentable
  BY <1>2
<1>10. in => Proper(p)
  BY <1>7
<1> HIDE DEF p, in
<1>11. /\ ~late => Month(y, mo) = Unrepresentable
       /\ late => Month(y, mo) = p /\ Proper(p)
  <2> HIDE DEF late
  <2> QED BY <1>8, <1>9, <1>10
<1> QED BY <1>5, <1>6, <1>11

(* v ticks of u.                                                           *)
Count(v, u) == v * u.mult

(* The parts p say the value of v ticks of u.                              *)
Says(p, v, u) ==
  LET n == Count(v, u)
      at == DayNumber(Ymd(p)) * UsPerDay + Time(p)
  IN  CASE u.base = "Y" -> Ymd(p) = <<1970 + n, 1, 1>> /\ Time(p) = 0
        [] u.base = "M" -> (p.y - 1970) * 12 + p.mo - 1 = n /\ p.d = 1 /\ Time(p) = 0
        [] u.base \in DOMAIN Coarse -> at = v * Scale(u)
        [] OTHER -> at = n \div Fine[u.base]

(* What dt64_to_parts gives is right.                                      *)
Decided(v, u) ==
  IF HasDate(v, u) THEN Proper(Dt64ToParts(v, u)) /\ Says(Dt64ToParts(v, u), v, u)
  ELSE Dt64ToParts(v, u) \in Errors

LEMMA CountIs ==
  ASSUME NEW v \in Int, NEW u \in UnitRecords
  PROVE  /\ u.mult \in Nat \ {0} /\ Count(v, u) \in Int /\ u.base \in Codes \cup {"generic"}
         /\ Overflows(v, u.mult, MaxI128) <=>
              Count(v, u) > MaxI128 \/ Count(v, u) < -MaxI128 - 1
<1> DEFINE k == u.mult
<1>1. k \in Nat \ {0} /\ u.base \in Codes \cup {"generic"}
  BY DEF UnitRecords
<1>2. MaxI128 \in Nat
  BY CalendarAssumption
<1> HIDE DEF k
<1>3. Overflows(v, k, MaxI128) <=> v * k > MaxI128 \/ v * k < -MaxI128 - 1
  BY <1>1, <1>2, OverflowsIs
<1>4. v * k \in Int
  BY <1>1
<1> QED BY <1>1, <1>3, <1>4 DEF k, Count

(* dt64_to_parts by the base of the unit.                                  *)
LEMMA Branches ==
  ASSUME NEW v \in Int, v # NaT, NEW u \in UnitRecords
  PROVE  LET b == u.base  n == Count(v, u)  P == Dt64ToParts(v, u)
         IN  /\ Overflows(v, u.mult, MaxI128) => P = Unrepresentable
             /\ ~Overflows(v, u.mult, MaxI128) =>
                  /\ b = "generic" => P = GenericUnit
                  /\ b = "Y" => P = Month(1970 + n, 1)
                  /\ b = "M" => P = Month(1970 + (n \div 12), (n % 12) + 1)
                  /\ b \in DOMAIN Coarse =>
                       P = IF Overflows(n, Coarse[b], MaxI128) THEN Unrepresentable
                           ELSE Instant(n * Coarse[b])
                  /\ b \in DOMAIN Fine => P = Instant(n \div Fine[b])
<1> DEFINE b == u.base
           n == Count(v, u)
           year == Month(1970 + n, 1)
           month == Month(1970 + (n \div 12), (n % 12) + 1)
           coarse == IF Overflows(n, Coarse[b], MaxI128) THEN Unrepresentable
                     ELSE Instant(n * Coarse[b])
           fine == Instant(n \div Fine[b])
           P == Dt64ToParts(v, u)
           over == Overflows(v, u.mult, MaxI128)
<1>1. P = CASE v = NaT -> None
            [] v # NaT /\ over -> Unrepresentable
            [] OTHER -> CASE b = "generic" -> GenericUnit
                          [] b = "Y" -> year
                          [] b = "M" -> month
                          [] b \in DOMAIN Coarse -> coarse
                          [] b \in DOMAIN Fine -> fine
  BY Zenon DEF Dt64ToParts, Count
<1> HIDE DEF b, n, year, month, coarse, fine, P, over
<1> DEFINE C == DOMAIN Coarse
           F == DOMAIN Fine
<1>2. /\ "generic" \notin C /\ "Y" \notin C /\ "M" \notin C
      /\ "generic" \notin F /\ "Y" \notin F /\ "M" \notin F
      /\ b \in C => b \notin F
  BY BasesAre
<1> HIDE DEF C, F
<1>3. P = CASE v = NaT -> None
            [] v # NaT /\ over -> Unrepresentable
            [] OTHER -> CASE b = "generic" -> GenericUnit
                          [] b = "Y" -> year
                          [] b = "M" -> month
                          [] b \in C -> coarse
                          [] b \in F -> fine
  BY <1>1 DEF C, F
<1>4. over => P = Unrepresentable
  BY <1>3
<1>5. ~over /\ b = "generic" => P = GenericUnit
  BY <1>2, <1>3
<1>6. ~over /\ b = "Y" => P = year
  BY <1>2, <1>3
<1>7. ~over /\ b = "M" => P = month
  BY <1>2, <1>3
<1>8. ~over /\ b \in C => P = coarse
  BY <1>2, <1>3
<1>9. ~over /\ b \in F => P = fine
  BY <1>2, <1>3
<1> QED BY <1>4, <1>5, <1>6, <1>7, <1>8, <1>9
           DEF b, n, year, month, coarse, fine, P, over, C, F

(* When there is a date, by the base of the unit.                          *)
LEMMA DatesAre ==
  ASSUME NEW v \in Int, NEW u \in UnitRecords
  PROVE  LET b == u.base  n == Count(v, u)
         IN  /\ b = "generic" => ~HasDate(v, u)
             /\ b = "Y" => (HasDate(v, u) <=> -1970 <= n /\ n <= 8029)
             /\ b = "M" => (HasDate(v, u) <=> -23640 <= n /\ n <= 96359)
             /\ b \in DOMAIN Coarse => (HasDate(v, u) <=> Dated(v * Scale(u)))
             /\ b \in DOMAIN Fine => (HasDate(v, u) <=> Dated(n \div Fine[b]))
<1> DEFINE b == u.base
           k == u.mult
           y0 == -1970
           y1 == 8029
           m0 == -1970 * 12
           m1 == (8030 * 12) - 1
           d0 == MinDays * UsPerDay
           year == Within(v, k, y0, y1)
           month == Within(v, k, m0, m1)
           coarse == Within(v, Scale(u), d0, EndOfTime)
           fine == (v * k) \div Fine[b] \in d0 .. EndOfTime
           C == DOMAIN Coarse
           F == DOMAIN Fine
           H == HasDate(v, u)
<1>1. H = CASE b = "Y" -> year
            [] b = "M" -> month
            [] b \in C -> coarse
            [] b \in F -> fine
            [] OTHER -> FALSE
  BY SMT DEF HasDate
<1>2. /\ "generic" \notin C /\ "Y" \notin C /\ "M" \notin C
      /\ "generic" \notin F /\ "Y" \notin F /\ "M" \notin F
      /\ b \in C => b \notin F
  BY BasesAre
<1>3. k \in Nat \ {0} /\ v * k = Count(v, u) /\ v * k \in Int
  BY CountIs, Zenon DEF Count
<1>4. y0 \in Int /\ y1 \in Int /\ m0 = -23640 /\ m1 = 96359 /\ d0 \in Int /\ EndOfTime \in Int
  BY Wide
<1>5. b \in C => Scale(u) \in Nat \ {0}
  BY <1>3, BasesAre, Product DEF Scale
<1>6. b \in F => (v * k) \div Fine[b] \in Int
  <2> DEFINE f == Fine[b]
             x == v * k
  <2>1. b \in F => f \in Nat \ {0}
    BY BasesAre
  <2>2. x \in Int
    BY <1>3
  <2> HIDE DEF f, x
  <2>3. b \in F => x \div f \in Int
    BY <2>1, <2>2, Division
  <2> QED BY <2>3 DEF f, x
<1>7. fine <=> (b \in F /\ fine) \/ (b \notin F /\ fine)
  OBVIOUS
<1>8. year <=> y0 <= Count(v, u) /\ Count(v, u) <= y1
  <2>1. y0 \in Int /\ y1 \in Int /\ k \in Nat \ {0}
    BY <1>3, <1>4
  <2> HIDE DEF y0, y1, k
  <2> QED BY <1>3, <2>1, WithinIs
<1>9. month <=> m0 <= Count(v, u) /\ Count(v, u) <= m1
  <2>1. m0 \in Int /\ m1 \in Int /\ k \in Nat \ {0}
    BY <1>3, <1>4
  <2> HIDE DEF m0, m1, k
  <2> QED BY <1>3, <2>1, WithinIs
<1>10. ASSUME b \in C PROVE coarse <=> Dated(v * Scale(u))
  <2> DEFINE s == Scale(u)
  <2>1. s \in Nat \ {0} /\ d0 \in Int /\ EndOfTime \in Int
    BY <1>4, <1>5, <1>10
  <2> HIDE DEF s, d0
  <2>2. Within(v, s, d0, EndOfTime) <=> d0 <= v * s /\ v * s <= EndOfTime
    BY <2>1, WithinIs
  <2> QED BY <2>2 DEF s, d0, Dated
<1>11. b \in F => (fine <=> Dated((v * k) \div Fine[b]))
  <2> DEFINE x == (v * k) \div Fine[b]
  <2>1. b \in F => x \in Int
    BY <1>6
  <2> HIDE DEF x, F, d0
  <2>2. b \in F => (x \in d0 .. EndOfTime <=> d0 <= x /\ x <= EndOfTime)
    BY <1>4, <2>1
  <2> QED BY <2>2 DEF x, d0, Dated
<1> HIDE DEF H, year, month, coarse, fine, C, F, b
<1>12. b = "generic" => ~H
  BY <1>1, <1>2
<1>13. b = "Y" => (H <=> year)
  BY <1>1, <1>2
<1>14. b = "M" => (H <=> month)
  BY <1>1, <1>2
<1>15. b \in C => (H <=> coarse)
  BY <1>1, <1>2
<1>16. b \in F => (H <=> fine)
  BY <1>1, <1>2
<1>17. b = "Y" => (H <=> -1970 <= Count(v, u) /\ Count(v, u) <= 8029)
  BY <1>8, <1>13
<1>18. b = "M" => (H <=> -23640 <= Count(v, u) /\ Count(v, u) <= 96359)
  BY <1>4, <1>9, <1>14
<1>19. b \in C => (H <=> Dated(v * Scale(u)))
  BY <1>10, <1>15
<1>20. b \in F => (H <=> Dated(Count(v, u) \div Fine[b]))
  BY <1>3, <1>11, <1>16
<1> QED BY <1>12, <1>17, <1>18, <1>19, <1>20 DEF b, C, F, H

LEMMA YearsAre ==
  ASSUME NEW v \in Int, v # NaT, NEW u \in UnitRecords, u.base = "Y"
  PROVE  Decided(v, u)
<1> DEFINE n == Count(v, u)
           P == Dt64ToParts(v, u)
           y == 1970 + n
           over == Overflows(v, u.mult, MaxI128)
           H == HasDate(v, u)
           late == 0 <= y /\ y <= 9999
<1>1. /\ over => P = Unrepresentable
      /\ ~over => P = Month(y, 1)
  BY Branches
<1>2. H <=> -1970 <= n /\ n <= 8029
  BY DatesAre
<1>3. n \in Int /\ (over <=> n > MaxI128 \/ n < -MaxI128 - 1)
  BY CountIs
<1> HIDE DEF P, over, H, n
<1>4. H <=> late
  BY <1>2, <1>3
<1>5. H => ~over
  <2>1. MaxI128 \in Nat /\ EndOfTime \in Nat /\ EndOfTime >= 2932896 /\ EndOfTime < MaxI128
    BY Wide
  <2> QED BY <1>2, <1>3, <2>1
<1>6. y \in Int /\ 1 \in 1 .. 12
  BY <1>3
<1> HIDE DEF y
<1>7. /\ ~late => Month(y, 1) = Unrepresentable
      /\ late => /\ Proper(Month(y, 1)) /\ Ymd(Month(y, 1)) = <<y, 1, 1>>
                 /\ Time(Month(y, 1)) = 0
  BY <1>6, MonthIs
<1> HIDE DEF late
<1>8. CASE H
  <2>1. Proper(P) /\ Ymd(P) = <<y, 1, 1>> /\ Time(P) = 0
    BY <1>1, <1>4, <1>5, <1>7, <1>8
  <2>2. Ymd(P) = <<1970 + Count(v, u), 1, 1>> /\ Time(P) = 0
    BY <2>1 DEF y, n
  <2>3. Says(P, v, u)
    BY <2>2, BasesAre DEF Says
  <2> QED BY <1>8, <2>1, <2>3 DEF Decided, P, H
<1>9. CASE ~H
  <2>1. P \in Errors
    BY <1>1, <1>4, <1>7, <1>9 DEF Errors
  <2> QED BY <1>9, <2>1 DEF Decided, P, H
<1> QED BY <1>8, <1>9

LEMMA MonthsAreRight ==
  ASSUME NEW v \in Int, v # NaT, NEW u \in UnitRecords, u.base = "M"
  PROVE  Decided(v, u)
<1> DEFINE n == Count(v, u)
           P == Dt64ToParts(v, u)
           q == n \div 12
           r == n % 12
           y == 1970 + q
           mo == r + 1
           over == Overflows(v, u.mult, MaxI128)
           H == HasDate(v, u)
           late == 0 <= y /\ y <= 9999
<1>1. /\ over => P = Unrepresentable
      /\ ~over => P = Month(y, mo)
  BY Branches
<1>2. H <=> -23640 <= n /\ n <= 96359
  BY DatesAre
<1>3. n \in Int /\ (over <=> n > MaxI128 \/ n < -MaxI128 - 1)
  BY CountIs
<1> HIDE DEF P, over, H, n
<1>4. q \in Int /\ r \in Int /\ 0 <= r /\ r < 12 /\ n = 12 * q + r
  BY <1>3
<1> HIDE DEF q, r
<1>5. H <=> late
  BY <1>2, <1>4
<1>6. H => ~over
  <2>1. MaxI128 \in Nat /\ EndOfTime \in Nat /\ EndOfTime >= 2932896 /\ EndOfTime < MaxI128
    BY Wide
  <2> QED BY <1>2, <1>3, <2>1
<1>7. y \in Int /\ mo \in 1 .. 12 /\ (y - 1970) * 12 + mo - 1 = n
  BY <1>4
<1> HIDE DEF y, mo
<1>8. /\ ~late => Month(y, mo) = Unrepresentable
      /\ late => /\ Proper(Month(y, mo)) /\ Ymd(Month(y, mo)) = <<y, mo, 1>>
                 /\ Time(Month(y, mo)) = 0
  BY <1>7, MonthIs, SMTT(60)
<1> HIDE DEF late
<1>9. CASE H
  <2>1. Proper(P) /\ Ymd(P) = <<y, mo, 1>> /\ Time(P) = 0
    BY <1>1, <1>5, <1>6, <1>8, <1>9
  <2>2. P.y = y /\ P.mo = mo /\ P.d = 1
    BY <2>1 DEF Ymd
  <2>3. (P.y - 1970) * 12 + P.mo - 1 = Count(v, u) /\ P.d = 1 /\ Time(P) = 0
    BY <1>7, <2>1, <2>2 DEF n
  <2>4. Says(P, v, u)
    BY <2>3, BasesAre DEF Says
  <2> QED BY <1>9, <2>1, <2>4 DEF Decided, P, H
<1>10. CASE ~H
  <2>1. P \in Errors
    BY <1>1, <1>5, <1>8, <1>10 DEF Errors
  <2> QED BY <1>10, <2>1 DEF Decided, P, H
<1> QED BY <1>9, <1>10

(* An instant has a date only if it fits an i128.                          *)
LEMMA DatedFits ==
  ASSUME NEW us \in Int, Dated(us)
  PROVE  -EndOfTime <= us /\ us <= EndOfTime /\ -MaxI128 <= us /\ us <= MaxI128
<1> DEFINE first == MinDays * UsPerDay
<1>1. /\ first \in Int /\ -EndOfTime <= first
      /\ EndOfTime \in Nat /\ MaxI128 \in Nat /\ EndOfTime < MaxI128
  BY Wide
<1>2. first <= us /\ us <= EndOfTime
  BY DEF Dated
<1> HIDE DEF first
<1> QED BY <1>1, <1>2

LEMMA Shorter ==
  ASSUME NEW n \in Int, NEW c \in Nat \ {0}, NEW x \in Nat, -x <= n * c, n * c <= x
  PROVE  -x <= n /\ n <= x
<1>1. CASE n >= 0
  BY <1>1, SMT
<1>2. CASE n < 0
  BY <1>2, SMT
<1> QED BY <1>1, <1>2

LEMMA CoarseAreRight ==
  ASSUME NEW v \in Int, v # NaT, NEW u \in UnitRecords, u.base \in DOMAIN Coarse
  PROVE  Decided(v, u)
<1> DEFINE n == Count(v, u)
           P == Dt64ToParts(v, u)
           c == Coarse[u.base]
           us == n * c
           over == Overflows(v, u.mult, MaxI128)
           over2 == Overflows(n, c, MaxI128)
           H == HasDate(v, u)
<1>1. /\ over => P = Unrepresentable
      /\ ~over => P = IF over2 THEN Unrepresentable ELSE Instant(us)
  BY Branches
<1>2. H <=> Dated(v * Scale(u))
  BY DatesAre
<1>3. n \in Int /\ u.mult \in Nat \ {0} /\ (over <=> n > MaxI128 \/ n < -MaxI128 - 1)
  BY CountIs
<1>4. c \in Nat \ {0}
  BY BasesAre
<1>5. v * Scale(u) = us
  <2> DEFINE k == u.mult
  <2>1. k \in Int /\ c \in Int
    BY <1>3, <1>4
  <2> HIDE DEF k, c
  <2>2. v * (k * c) = (v * k) * c
    BY <2>1, SMT
  <2> QED BY <2>2 DEF k, c, Count, Scale
<1>6. MaxI128 \in Nat /\ EndOfTime \in Nat /\ EndOfTime < MaxI128
  BY Wide
<1> HIDE DEF n, c
<1>7. us \in Int
  BY <1>3, <1>4
<1>8. over2 <=> us > MaxI128 \/ us < -MaxI128 - 1
  BY <1>3, <1>4, <1>6, OverflowsIs
<1>9. Dated(us) => ~over /\ ~over2
  <2> SUFFICES ASSUME Dated(us) PROVE ~over /\ ~over2
    OBVIOUS
  <2>1. -EndOfTime <= us /\ us <= EndOfTime
    BY <1>7, DatedFits
  <2>2. -EndOfTime <= n /\ n <= EndOfTime
    BY <1>3, <1>4, <1>6, <2>1, Shorter
  <2> HIDE DEF us, over, over2
  <2> QED BY <1>3, <1>6, <1>7, <1>8, <2>1, <2>2
<1> HIDE DEF us, over, over2, H, P
<1>10. /\ ~Dated(us) => Instant(us) = Unrepresentable
       /\ Dated(us) => /\ Proper(Instant(us))
                       /\ DayNumber(Ymd(Instant(us))) * UsPerDay + Time(Instant(us)) = us
  BY <1>7, InstantIs
<1>11. CASE H
  <2>1. P = Instant(us) /\ Proper(P) /\ DayNumber(Ymd(P)) * UsPerDay + Time(P) = us
    BY <1>1, <1>2, <1>5, <1>9, <1>10, <1>11
  <2>2. u.base # "Y" /\ u.base # "M"
    BY BasesAre
  <2>3. Says(P, v, u)
    BY <1>5, <2>1, <2>2 DEF Says
  <2> QED BY <1>11, <2>1, <2>3 DEF Decided, P, H
<1>12. CASE ~H
  <2>1. P \in Errors
    BY <1>1, <1>2, <1>5, <1>10, <1>12 DEF Errors
  <2> QED BY <1>12, <2>1 DEF Decided, P, H
<1> QED BY <1>11, <1>12

LEMMA FineAreRight ==
  ASSUME NEW v \in Int, v # NaT, NEW u \in UnitRecords, u.base \in DOMAIN Fine
  PROVE  Decided(v, u)
<1> DEFINE n == Count(v, u)
           P == Dt64ToParts(v, u)
           f == Fine[u.base]
           us == n \div f
           over == Overflows(v, u.mult, MaxI128)
           H == HasDate(v, u)
<1>1. /\ over => P = Unrepresentable
      /\ ~over => P = Instant(us)
  BY Branches
<1>2. H <=> Dated(us)
  BY DatesAre
<1>3. n \in Int /\ (over <=> n > MaxI128 \/ n < -MaxI128 - 1)
  BY CountIs
<1>4. f \in Nat \ {0} /\ (EndOfTime + 1) * f <= MaxI128
  BY BasesAre, Wide
<1>5. MaxI128 \in Nat /\ EndOfTime \in Nat /\ EndOfTime < MaxI128
  BY Wide
<1> HIDE DEF n, f
<1>6. us \in Int
  BY <1>3, <1>4, Division
<1>7. Dated(us) => ~over
  <2> SUFFICES ASSUME Dated(us) PROVE ~over
    OBVIOUS
  <2>1. -EndOfTime <= us /\ us <= EndOfTime
    BY <1>6, DatedFits
  <2> DEFINE e == EndOfTime
             q == n \div f
  <2>2. e \in Nat /\ q \in Int /\ -e <= q /\ q < e + 1 /\ (e + 1) * f <= MaxI128
    BY <1>4, <1>5, <1>6, <2>1
  <2>3. e + 1 \in Int /\ -e \in Int
    BY <2>2
  <2>4. (-e) * f <= n /\ n < (e + 1) * f
    <3> DEFINE a == -e
               b == e + 1
    <3>1. a \in Int /\ b \in Int /\ a <= q /\ q < b
      BY <2>2
    <3> HIDE DEF a, b, e, q
    <3>2. a * f <= n /\ n < b * f
      BY <1>3, <1>4, <3>1, Floor DEF q
    <3> QED BY <3>2 DEF a, b
  <2> HIDE DEF e, q, us, over
  <2>5. (-e) * f = f - (e + 1) * f
    BY <1>4, <2>2, SMT
  <2>6. (e + 1) * f \in Int
    BY <1>4, <2>2
  <2> QED BY <1>3, <1>4, <1>5, <2>2, <2>4, <2>5, <2>6
<1> HIDE DEF us, over, H, P
<1>10. /\ ~Dated(us) => Instant(us) = Unrepresentable
       /\ Dated(us) => /\ Proper(Instant(us))
                       /\ DayNumber(Ymd(Instant(us))) * UsPerDay + Time(Instant(us)) = us
  BY <1>6, InstantIs
<1>11. CASE H
  <2>1. P = Instant(us) /\ Proper(P) /\ DayNumber(Ymd(P)) * UsPerDay + Time(P) = us
    BY <1>1, <1>2, <1>7, <1>10, <1>11
  <2>2. u.base # "Y" /\ u.base # "M" /\ u.base \notin DOMAIN Coarse
    BY BasesAre
  <2>3. Says(P, v, u)
    BY <2>1, <2>2 DEF Says, us, f, n
  <2> QED BY <1>11, <2>1, <2>3 DEF Decided, P, H
<1>12. CASE ~H
  <2>1. P \in Errors
    BY <1>1, <1>2, <1>10, <1>12 DEF Errors
  <2> QED BY <1>12, <2>1 DEF Decided, P, H
<1> QED BY <1>11, <1>12

(* dt64_to_parts, of any value in any unit: parts that say the value if it *)
(* falls into the years 0 to 9999, and an error otherwise.                 *)
THEOREM PartsAre ==
  ASSUME NEW v \in Int, v # NaT, NEW u \in UnitRecords
  PROVE  Decided(v, u)
<1>1. u.base \in Codes \cup {"generic"}
  BY CountIs
<1>2. CASE u.base = "generic"
  <2>1. ~HasDate(v, u)
    BY <1>2, DatesAre
  <2>2. Dt64ToParts(v, u) = Unrepresentable \/ Dt64ToParts(v, u) = GenericUnit
    BY <1>2, Branches
  <2> QED BY <2>1, <2>2 DEF Decided, Errors
<1> QED BY <1>1, <1>2, YearsAre, MonthsAreRight, CoarseAreRight, FineAreRight DEF Codes

-----------------------------------------------------------------------------
(* The text of a datetime64 value.                                         *)

Zone == IF "naive_utc" \in opts THEN 0 ELSE None
Text(p) == WriteDatetime(p, Zone, opts)
Omitted(p) == IF "omit_microseconds" \in opts THEN p.us ELSE 0

LEMMA TextIs ==
  ASSUME NEW p
  PROVE  /\ Text(p).ymd = Ymd(p)
         /\ Text(p).hms = IF p.us = 0 \/ "omit_microseconds" \in opts THEN <<p.h, p.mi, p.s>>
                          ELSE <<p.h, p.mi, p.s, p.us>>
         /\ Text(p).offset = IF "naive_utc" \notin opts THEN <<>>
                             ELSE IF "utc_z" \in opts THEN <<"Z">> ELSE <<"+", 0, 0>>
<1>1. Text(p).ymd = Ymd(p)
  BY DEF Text, WriteDatetime, FmtYmd, Ymd
<1>2. Text(p).hms = FmtHms(p, opts)
  BY DEF Text, WriteDatetime
<1>3. Text(p).offset = IF Zone = None THEN <<>> ELSE FmtOffset(Zone, opts)
  BY DEF Text, WriteDatetime
<1>4. None # 0
  BY DatesAssumption
<1>5. FmtOffset(0, opts) = IF "utc_z" \in opts THEN <<"Z">> ELSE <<"+", 0, 0>>
  BY DEF FmtOffset
<1> QED BY <1>1, <1>2, <1>3, <1>4, <1>5 DEF FmtHms, Zone

(* The time of day in a text is that of the parts, without what is left    *)
(* out of it.                                                              *)
LEMMA HmsIs ==
  ASSUME NEW p, Proper(p)
  PROVE  LET f == Text(p).hms
         IN  Clock(f) /\ Len(f) > 2 /\ TimeOf(f) = Time(p) - Omitted(p)
<1> DEFINE f == Text(p).hms
           h == p.h
           mi == p.mi
           s == p.s
           us == p.us
           a == h * UsPerHour
           b == mi * UsPerMinute
           c == s * UsPerSecond
<1>1. /\ h \in Int /\ 0 <= h /\ h < TwentyFour /\ mi \in Int /\ 0 <= mi /\ mi < Sixty
      /\ s \in Int /\ 0 <= s /\ s < Sixty /\ us \in Int /\ 0 <= us /\ us < UsPerSecond
  BY DEF Proper, Fields
<1>2. UsPerSecond \in Nat \ {0} /\ UsPerMinute \in Nat \ {0} /\ UsPerHour \in Nat \ {0}
  BY UnitsAre
<1>3. TwentyFour \in Nat /\ Sixty \in Nat
  BY CalendarAssumption
<1>4. f = IF us = 0 \/ "omit_microseconds" \in opts THEN <<h, mi, s>> ELSE <<h, mi, s, us>>
  BY TextIs
<1>5. Time(p) = a + b + c + us
  BY DEF Time
<1> HIDE DEF h, mi, s, us
<1>6. a \in Int /\ b \in Int /\ c \in Int
  BY <1>1, <1>2
<1>7. CASE us = 0 \/ "omit_microseconds" \in opts
  <2>1. f = <<h, mi, s>>
    BY <1>4, <1>7
  <2>2. Len(f) = 3 /\ f[1] = h /\ f[2] = mi /\ f[3] = s
    BY <2>1
  <2> HIDE DEF f
  <2>3. Clock(f)
    BY <1>1, <1>2, <1>3, <2>2 DEF Clock
  <2>4. TimeOf(f) = a + b + c + 0
    <3>1. TimeOf(f) = a + b + (IF Len(f) > 2 THEN c ELSE 0) + (IF Len(f) > 3 THEN f[4] ELSE 0)
      BY <2>2 DEF TimeOf
    <3> HIDE DEF a, b, c
    <3> QED BY <1>6, <2>2, <3>1
  <2>5. Omitted(p) = us
    BY <1>7 DEF Omitted, us
  <2>6. TimeOf(f) = Time(p) - Omitted(p)
    <3> HIDE DEF a, b, c
    <3> QED BY <1>1, <1>5, <1>6, <2>4, <2>5
  <2> QED BY <2>2, <2>3, <2>6 DEF f
<1>8. CASE ~(us = 0 \/ "omit_microseconds" \in opts)
  <2>1. f = <<h, mi, s, us>>
    BY <1>4, <1>8
  <2>2. Len(f) = 4 /\ f[1] = h /\ f[2] = mi /\ f[3] = s /\ f[4] = us
    BY <2>1
  <2> HIDE DEF f
  <2>3. Clock(f)
    BY <1>1, <1>2, <1>3, <1>8, <2>2 DEF Clock
  <2>4. TimeOf(f) = a + b + c + us
    <3>1. TimeOf(f) = a + b + (IF Len(f) > 2 THEN c ELSE 0) + (IF Len(f) > 3 THEN us ELSE 0)
      BY <2>2 DEF TimeOf
    <3> HIDE DEF a, b, c
    <3> QED BY <1>6, <2>2, <3>1
  <2>5. Omitted(p) = 0
    BY <1>8 DEF Omitted
  <2>6. TimeOf(f) = Time(p) - Omitted(p)
    <3> HIDE DEF a, b, c
    <3> QED BY <1>1, <1>5, <1>6, <2>4, <2>5
  <2> QED BY <2>2, <2>3, <2>6 DEF f
<1> QED BY <1>7, <1>8

(* A time of day of nothing has nothing to leave out.                      *)
LEMMA Midnight ==
  ASSUME NEW p, Proper(p), Time(p) = 0
  PROVE  p.us = 0
<1> DEFINE h == p.h
           mi == p.mi
           s == p.s
           us == p.us
           a == h * UsPerHour
           b == mi * UsPerMinute
           c == s * UsPerSecond
<1>1. /\ h \in Int /\ 0 <= h /\ mi \in Int /\ 0 <= mi
      /\ s \in Int /\ 0 <= s /\ us \in Int /\ 0 <= us
  BY DEF Proper, Fields
<1>2. a + b + c + us = 0
  BY DEF Time
<1> HIDE DEF h, mi, s, us
<1>3. a \in Nat /\ b \in Nat /\ c \in Nat
  BY <1>1, UnitsAre, SMT
<1> HIDE DEF a, b, c
<1>4. us = 0
  BY <1>1, <1>2, <1>3
<1> QED BY <1>4 DEF us

(* The microseconds of the second are those of the time of day.            *)
LEMMA Subsecond ==
  ASSUME NEW p, Proper(p), NEW day \in Int
  PROVE  (day * UsPerDay + Time(p)) % UsPerSecond = p.us
<1> DEFINE h == p.h
           mi == p.mi
           s == p.s
           us == p.us
           S == UsPerSecond
<1>1. /\ h \in Int /\ mi \in Int /\ s \in Int /\ us \in Int /\ 0 <= us /\ us < S
  BY DEF Proper, Fields
<1>2. S \in Nat \ {0} /\ Sixty \in Int /\ TwentyFour \in Int
  BY UnitsAre, CalendarAssumption
<1>3. Time(p) = h * UsPerHour + mi * UsPerMinute + s * S + us
  BY DEF Time
<1>4. UsPerMinute = Sixty * S /\ UsPerHour = Sixty * (Sixty * S)
      /\ UsPerDay = TwentyFour * (Sixty * (Sixty * S))
  BY DEF UsPerMinute, UsPerHour, UsPerDay
<1> HIDE DEF h, mi, s, us, S
<1> DEFINE A == day * (TwentyFour * (Sixty * Sixty))
           B == h * (Sixty * Sixty)
           C == mi * Sixty
           q == A + B + C + s
<1>5. A \in Int /\ B \in Int /\ C \in Int
  BY <1>1, <1>2
<1>6. day * UsPerDay = S * A
  BY <1>2, <1>4, SMT
<1>7. h * UsPerHour = S * B
  BY <1>1, <1>2, <1>4, SMT
<1>8. mi * UsPerMinute = S * C
  BY <1>1, <1>2, <1>4, SMT
<1> HIDE DEF A, B, C
<1>9. S * q = S * A + S * B + S * C + s * S
  BY <1>1, <1>2, <1>5, SMT
<1>10. q \in Int
  BY <1>1, <1>5
<1>11. day * UsPerDay + Time(p) = S * q + us
  <2> DEFINE a == S * A
             b == S * B
             c == S * C
             d == s * S
             e == S * q
  <2>1. a \in Int /\ b \in Int /\ c \in Int /\ d \in Int /\ e = a + b + c + d
    BY <1>1, <1>2, <1>5, <1>9
  <2> HIDE DEF a, b, c, d, e, q
  <2>2. day * UsPerDay + Time(p) = a + (b + c + d + us)
    BY <1>3, <1>6, <1>7, <1>8 DEF a, b, c, d
  <2>3. day * UsPerDay + Time(p) = e + us
    BY <1>1, <2>1, <2>2
  <2> QED BY <2>3 DEF e
<1> HIDE DEF q
<1>12. (S * q + us) % S = us
  BY <1>1, <1>2, <1>10, Quotient
<1> QED BY <1>11, <1>12 DEF S, us

LEMMA DayNumberType ==
  ASSUME NEW f, Valid(f)
  PROVE  DayNumber(f) \in Int
<1> DEFINE y == f[1]
           mo == f[2]
           d == f[3]
<1>1. y \in Int /\ mo \in 1 .. 12 /\ d \in Int
  BY ValidType DEF Valid
<1>2. DayNumber(f) = MinDays + 365 * y + LeapsBefore(y) + DaysBeforeMonth(y, mo) + d - 1
  BY Zenon DEF DayNumber
<1> HIDE DEF y, mo, d
<1>3. DaysBeforeMonth(y, mo) \in Int
  <2>1. MonthStart(y, mo) \in Int
    BY <1>1, SMT DEF MonthStart, LeapDay, Before
  <2> QED BY <1>1, <2>1, MonthsAre
<1>4. LeapsBefore(y) \in Int /\ MinDays \in Int
  BY <1>1, SMT DEF LeapsBefore, MinDays
<1> QED BY <1>1, <1>2, <1>3, <1>4

(* The text of proper parts that say a value denotes it.                   *)
LEMMA TextDenotes ==
  ASSUME NEW v \in Int, NEW u \in UnitRecords, NEW p, Proper(p), Says(p, v, u)
  PROVE  Denotes(Text(p), v, u)
<1> DEFINE t == Text(p)
           f == Ymd(p)
           n == Count(v, u)
           day == DayNumber(f)
           m == day * UsPerDay
           tm == Time(p)
           at == m + tm
           cut(x) == IF "omit_microseconds" \in opts THEN x - (x % UsPerSecond) ELSE x
<1>1. t.ymd = f /\ Valid(f) /\ f[1] = p.y /\ f[2] = p.mo /\ f[3] = p.d
  BY TextIs DEF Proper, Ymd
<1>2. Clock(t.hms) /\ Len(t.hms) > 2 /\ TimeOf(t.hms) = tm - Omitted(p)
  BY HmsIs
<1>3. t.offset = IF "naive_utc" \notin opts THEN <<>>
                 ELSE IF "utc_z" \in opts THEN <<"Z">> ELSE <<"+", 0, 0>>
  BY TextIs
<1>4. day \in Int /\ at % UsPerSecond = p.us
  BY <1>1, DayNumberType, Subsecond
<1>5. tm \in Int /\ p.us \in Int
  BY UnitsAre DEF Time, Proper, Fields
<1>6. m \in Int /\ DayNumber(t.ymd) * UsPerDay = m
  BY <1>1, <1>4, UnitsAre
<1> HIDE DEF t, f, m, tm
<1>7. m + TimeOf(t.hms) = cut(at)
  <2>1. CASE "omit_microseconds" \in opts
    <3>1. Omitted(p) = at % UsPerSecond /\ cut(at) = at - (at % UsPerSecond)
      BY <1>4, <2>1 DEF Omitted
    <3>2. at % UsPerSecond \in Int
      BY <1>4, <1>5
    <3> DEFINE o == at % UsPerSecond
    <3> HIDE DEF o
    <3>3. o \in Int /\ TimeOf(t.hms) = tm - o /\ cut(at) = (m + tm) - o
      BY <1>2, <3>1, <3>2 DEF o
    <3> QED BY <1>5, <1>6, <3>3
  <2>2. CASE "omit_microseconds" \notin opts
    <3>1. TimeOf(t.hms) = tm - 0 /\ cut(at) = m + tm
      BY <1>2, <2>2 DEF Omitted
    <3> HIDE DEF cut
    <3> QED BY <1>5, <1>6, <3>1
  <2> QED BY <2>1, <2>2
<1>8. tm = 0 => TimeOf(t.hms) = 0
  <2>1. tm = 0 => Omitted(p) = 0
    BY Midnight DEF tm, Omitted
  <2> QED BY <1>2, <2>1
<1> DEFINE Right ==
      CASE u.base = "Y" -> t.ymd = <<1970 + n, 1, 1>> /\ TimeOf(t.hms) = 0
        [] u.base = "M" -> /\ (t.ymd[1] - 1970) * 12 + t.ymd[2] - 1 = n
                           /\ t.ymd[3] = 1 /\ TimeOf(t.hms) = 0
        [] u.base \in DOMAIN Coarse -> m + TimeOf(t.hms) = cut(v * Scale(u))
        [] OTHER -> m + TimeOf(t.hms) = cut(n \div Fine[u.base])
<1>9. Right
  <2> DEFINE C == DOMAIN Coarse
             b == u.base
             whole == n \div Fine[b]
             ticks == v * Scale(u)
             year == f = <<1970 + n, 1, 1>>
             month == (p.y - 1970) * 12 + p.mo - 1 = n /\ p.d = 1
  <2>1. (CASE b = "Y" -> year /\ tm = 0
           [] b = "M" -> month /\ tm = 0
           [] b \in C -> at = ticks
           [] OTHER -> at = whole)
    BY Zenon DEF Says, f, tm, m
  <2>2. Right <=> CASE b = "Y" -> year /\ TimeOf(t.hms) = 0
                    [] b = "M" -> month /\ TimeOf(t.hms) = 0
                    [] b \in C -> m + TimeOf(t.hms) = cut(ticks)
                    [] OTHER -> m + TimeOf(t.hms) = cut(whole)
    BY <1>1
  <2>3. "Y" \notin C /\ "M" \notin C
    BY BasesAre
  <2> DEFINE e == m + TimeOf(t.hms)
             z == TimeOf(t.hms)
  <2>4. at = ticks => e = cut(ticks)
    BY <1>7
  <2>5. at = whole => e = cut(whole)
    BY <1>7
  <2> HIDE DEF C, b, whole, ticks, year, month, Right, at, cut, e, z
  <2>6. Right <=> CASE b = "Y" -> year /\ z = 0
                    [] b = "M" -> month /\ z = 0
                    [] b \in C -> e = cut(ticks)
                    [] OTHER -> e = cut(whole)
    BY <2>2 DEF e, z
  <2>7. tm = 0 => z = 0
    BY <1>8 DEF z
  <2>8. CASE b = "Y"
    BY <2>1, <2>3, <2>6, <2>7, <2>8
  <2>9. CASE b = "M"
    BY <2>1, <2>3, <2>6, <2>7, <2>9
  <2>10. CASE b \in C
    BY <2>1, <2>3, <2>4, <2>6, <2>10
  <2>11. CASE b \notin C \cup {"Y", "M"}
    BY <2>1, <2>5, <2>6, <2>11
  <2> QED BY <2>8, <2>9, <2>10, <2>11
<1> QED BY <1>1, <1>2, <1>3, <1>6, <1>9 DEF Denotes, t, Count

-----------------------------------------------------------------------------
(* What is written, and what is declined.                                  *)

(* What is known of the unit, and of the elements read.                    *)
UnitRead == unit = ParseDt64(obj.dtype) /\ unit # None
ReadDateable == NeedsUnit => \A k \in 1 .. Len(reads) : Dateable(obj.values[k])

PossibleInv ==
  /\ pc \in {"walk", "walking"} /\ NeedsUnit /\ ~Empty => UnitRead
  /\ pc = "value" => NeedsUnit /\ UnitRead
  /\ pc = "walking" => ReadDateable
  /\ WrittenIffPossible /\ ScalarRight

LEMMA SupportedIs ==
  ASSUME obj \in Arrays, Classify(obj) = "ok"
  PROVE  Layout
BY DEF Classify, Layout

(* An array with a byte has an element, and with no empty dimension it has *)
(* a byte.                                                                 *)
LEMMA FullHasBytes ==
  ASSUME NEW sh \in Seq(Nat), NEW size \in Nat \ {0}, NEW b, BytesRule(sh, size, b),
         \A d \in 1 .. Len(sh) : sh[d] # 0
  PROVE  b[1] # 0
<1> DEFINE n == Len(sh)
           S == {k \in 0 .. n : b[n + 1 - k] # 0}
<1>1. n \in Nat /\ (\A d \in 1 .. n : sh[d] \in Nat \ {0}) /\ b \in [1 .. n + 1 -> Nat]
      /\ b[n + 1] = size /\ \A d \in 1 .. n : b[d] = sh[d] * b[d + 1]
  BY LenProperties DEF BytesRule
<1> HIDE DEF n
<1>2. 0 \in S
  BY <1>1
<1>3. ASSUME NEW k \in 0 .. n - 1, k \in S PROVE k + 1 \in S
  <2> DEFINE d == n + 1 - (k + 1)
  <2>1. d \in 1 .. n /\ d + 1 = n + 1 - k /\ d + 1 \in 1 .. n + 1 /\ k + 1 \in 0 .. n
    BY <1>1
  <2>2. b[d + 1] \in Nat \ {0} /\ sh[d] \in Nat \ {0} /\ b[d] = sh[d] * b[d + 1]
    BY <1>1, <1>3, <2>1
  <2>3. b[d] # 0
    BY <2>2, Product
  <2> QED BY <2>1, <2>3
<1> HIDE DEF S
<1>4. 0 .. n \subseteq S
  BY <1>1, <1>2, <1>3, BoundedInduction
<1>5. n \in S
  BY <1>1, <1>4
<1>6. b[n + 1 - n] # 0 /\ n + 1 - n = 1
  BY <1>1, <1>5 DEF S
<1> QED BY <1>6

LEMMA FullHasElements ==
  ASSUME obj \in Arrays, Classify(obj) = "ok", ~Empty
  PROVE  DOMAIN obj.values # {}
<1>1. obj.contiguous
  BY DEF Classify
<1>2. /\ obj.elem[2] \in Nat \ {0} /\ obj.shape \in Seq(Nat)
      /\ Len(obj.values) \in Nat /\ DOMAIN obj.values = 1 .. Len(obj.values)
      /\ Bytes(obj)[1] = obj.elem[2] * Len(obj.values)
  BY <1>1, ArrayIs
<1>3. BytesRule(obj.shape, obj.elem[2], Bytes(obj))
  BY <1>2, BytesAre
<1>4. Bytes(obj)[1] # 0
  BY <1>2, <1>3, FullHasBytes DEF Empty, Rank
<1> DEFINE n == Len(obj.values)
<1>5. n \in Nat /\ n # 0 /\ DOMAIN obj.values = 1 .. n
  BY <1>2, <1>4
<1> HIDE DEF n
<1>6. 1 \in 1 .. n
  BY <1>5
<1> QED BY <1>5, <1>6

LEMMA EmptyHasNoElements ==
  ASSUME obj \in Arrays, Classify(obj) = "ok", Empty
  PROVE  DOMAIN obj.values = {}
<1>1. obj.contiguous
  BY DEF Classify
<1>2. /\ obj.elem[2] \in Nat \ {0} /\ obj.shape \in Seq(Nat)
      /\ Len(obj.values) \in Nat /\ DOMAIN obj.values = 1 .. Len(obj.values)
      /\ Bytes(obj)[1] = obj.elem[2] * Len(obj.values)
  BY <1>1, ArrayIs
<1>3. BytesRule(obj.shape, obj.elem[2], Bytes(obj))
  BY <1>2, BytesAre
<1>4. Bytes(obj)[1] = 0
  BY <1>2, <1>3, EmptyHasNoBytes DEF Empty, Rank
<1>5. obj.elem[2] * Len(obj.values) = obj.elem[2] * 0
  BY <1>2, <1>4
<1>6. Len(obj.values) = 0
  BY <1>2, <1>5, Cancels
<1> QED BY <1>2, <1>6

(* What the parts decide of a value whose unit was read.                   *)
LEMMA RejectedIff ==
  ASSUME obj \in Objects, NeedsUnit, UnitRead, NEW k \in DOMAIN obj.values
  PROVE  /\ Rejected(obj.values[k]) <=> ~Dateable(obj.values[k])
         /\ ~Rejected(obj.values[k]) => /\ Len(Leaf(obj.values[k])) = 1
                                        /\ LeafDenotes(Leaf(obj.values[k])[1], obj.values[k])
<1> DEFINE v == obj.values[k]
           P == Dt64ToParts(v, unit)
<1>1. unit = ParseDt64(obj.dtype) /\ unit \in UnitRecords
  BY UnitType DEF UnitRead, Objects
<1>2. v \in Int
  <2>1. v \in NaT .. MaxI64
    BY DatesAssumption DEF Objects, NeedsUnit
  <2>2. NaT \in Int /\ MaxI64 \in Int
    BY CalendarAssumption DEF NaT
  <2> QED BY <2>1, <2>2
<1>3. Rejected(v) <=> P \in Errors
  BY DEF Rejected, Parts, Errors
<1>4. Dateable(v) <=> v = NaT \/ HasDate(v, unit)
  BY <1>1 DEF Dateable
<1> HIDE DEF v, P
<1>5. CASE v = NaT
  <2>1. P = None
    BY <1>5 DEF P, Dt64ToParts
  <2>2. P \notin Errors
    BY <2>1, DatesAssumption DEF Errors
  <2>3. Leaf(v) = <<"null">>
    BY <2>1 DEF Leaf, Parts, P
  <2>4. LeafDenotes("null", v)
    BY <1>5 DEF LeafDenotes
  <2>5. Len(Leaf(v)) = 1 /\ Leaf(v)[1] = "null"
    BY <2>3
  <2> QED BY <1>3, <1>4, <1>5, <2>2, <2>4, <2>5 DEF v
<1>6. CASE v # NaT /\ HasDate(v, unit)
  <2>1. Proper(P) /\ Says(P, v, unit)
    BY <1>1, <1>2, <1>6, PartsAre DEF Decided, P
  <2>2. P \notin Errors /\ P # None
    BY <2>1, ProperIsNoError
  <2>3. Denotes(Text(P), v, unit)
    BY <1>1, <1>2, <2>1, TextDenotes
  <2>4. Leaf(v) = <<Text(P)>>
    BY <2>2 DEF Leaf, Parts, P, Text, Zone
  <2>5. LeafDenotes(Text(P), v)
    BY <1>6, <2>3 DEF LeafDenotes
  <2> DEFINE t == Text(P)
  <2> HIDE DEF t
  <2>6. Len(Leaf(v)) = 1 /\ Leaf(v)[1] = t
    BY <2>4 DEF t
  <2> QED BY <1>3, <1>4, <1>6, <2>2, <2>5, <2>6 DEF v, t
<1>7. CASE v # NaT /\ ~HasDate(v, unit)
  <2>1. P \in Errors
    BY <1>1, <1>2, <1>7, PartsAre DEF Decided, P
  <2> QED BY <1>3, <1>4, <1>7, <2>1 DEF v
<1> QED BY <1>5, <1>6, <1>7

LEMMA ElementsKept ==
  ASSUME obj' = obj
  PROVE  /\ Layout' <=> Layout
         /\ Elements' <=> Elements
         /\ Empty' <=> Empty
         /\ NeedsUnit' <=> NeedsUnit
         /\ IsArray' <=> IsArray
         /\ \A v : Dateable(v)' <=> Dateable(v)
BY DEF Layout, Elements, Empty, Rank, NeedsUnit, IsArray, Dateable

(* What a unit that was read becomes.                                      *)
LEMMA ReadUnitDecides ==
  ASSUME Inv, NeedsUnit, DOMAIN obj.values # {}, NEW then, ReadUnit(then), obj' = obj
  PROVE  \/ pc' = then /\ UnitRead'
         \/ pc' = "declined" /\ ~Elements
         \/ pc' = "raised"
BY DEF ReadUnit, UnitRead, Elements, Declined

(* Each action keeps PossibleInv.                                          *)
LEMMA BeginDecides ==
  ASSUME Inv, PossibleInv, Begin
  PROVE  PossibleInv'
<1>1. /\ pc = "classify" /\ Classify(obj) = "ok" /\ obj' = obj /\ reads' = reads
      /\ \/ NeedsUnit /\ ~Empty /\ ReadUnit("walk")
         \/ ~(NeedsUnit /\ ~Empty) /\ pc' = "walk"
  BY DEF Begin
<1>2. obj \in Arrays
  BY <1>1 DEF Inv, ObjInv
<1>3. CASE NeedsUnit /\ ~Empty /\ ReadUnit("walk")
  <2>1. \/ pc' = "walk" /\ UnitRead'
        \/ pc' = "declined" /\ ~Elements
        \/ pc' = "raised"
    BY <1>1, <1>2, <1>3, FullHasElements, ReadUnitDecides
  <2> QED BY <1>1, <2>1, ElementsKept DEF PossibleInv, WrittenIffPossible, ScalarRight
<1>4. CASE ~(NeedsUnit /\ ~Empty) /\ pc' = "walk"
  BY <1>1, <1>4, ElementsKept DEF PossibleInv, WrittenIffPossible, ScalarRight
<1> QED BY <1>1, <1>3, <1>4

LEMMA DeclineArrayDecides ==
  ASSUME Inv, PossibleInv, DeclineArray
  PROVE  PossibleInv'
<1>1. /\ pc = "classify" /\ Classify(obj) # "ok" /\ obj' = obj
      /\ pc' \in {"declined", "raised"}
  BY DEF DeclineArray, Declined
<1>2. obj \in Arrays
  BY <1>1 DEF Inv, ObjInv
<1>3. IsArray
  BY <1>2, ArrayIs DEF IsArray
<1>4. ~Layout
  BY <1>1, <1>3 DEF Layout, Classify
<1> QED BY <1>1, <1>4, ElementsKept DEF PossibleInv, WrittenIffPossible, ScalarRight

(* A row of integers is read without a unit.                               *)
LEMMA EnterDecides ==
  ASSUME Inv, PossibleInv, pc \in {"walk", "walking"}, pc' = "walking",
         UNCHANGED <<obj, unit>>, pc = "walk" => reads = <<>>,
         NEW dim, NEW p, NEW fs, NEW lead, Enter(dim, p, fs, lead)
  PROVE  PossibleInv'
<1>1. NeedsUnit => reads' = reads
  <2>1. NeedsUnit => obj.elem \notin Integer
    BY DEF NeedsUnit, Integer
  <2> QED BY <2>1 DEF Enter
<1>2. ReadDateable
  <2>1. CASE pc = "walk"
    BY <2>1, EmptySeq DEF ReadDateable
  <2>2. CASE pc = "walking"
    BY <2>2 DEF PossibleInv
  <2> QED BY <2>1, <2>2
<1>3. ReadDateable'
  BY <1>1, <1>2, ElementsKept DEF ReadDateable
<1> QED BY <1>3, ElementsKept DEF PossibleInv, WrittenIffPossible, ScalarRight, UnitRead

LEMMA WalkDecides ==
  ASSUME Inv, PossibleInv, Walk
  PROVE  PossibleInv'
<1>1. pc = "walk" /\ pc' = "walking" /\ Enter(1, 0, <<>>, <<>>) /\ UNCHANGED <<obj, unit>>
  BY DEF Walk
<1>2. reads = <<>>
  BY <1>1 DEF Inv, ReadsInv
<1> QED BY <1>1, <1>2, EnterDecides

LEMMA WalkRowDecides ==
  ASSUME Inv, PossibleInv, WalkRow
  PROVE  PossibleInv'
<1>1. /\ pc = "walking" /\ pc' = pc /\ UNCHANGED <<obj, unit>>
      /\ Enter(Dim + 1, NextAddress, Advanced, Lead)
  BY DEF WalkRow, InLoop
<1> QED BY <1>1, EnterDecides

(* The element that a leaf reads is the next one.                          *)
LEMMA NextElement ==
  ASSUME Inv, InLoop, Dim = Rank, Top.i < obj.shape[Dim], reads' = Append(reads, NextAddress)
  PROVE  /\ ~Empty /\ Len(reads) \in Nat /\ Len(reads') = Len(reads) + 1
         /\ Len(reads) + 1 \in DOMAIN obj.values
         /\ At(NextAddress) = obj.values[Len(reads) + 1]
<1> DEFINE m == Len(reads)
           a == NextAddress
<1>1. Walking
  BY FrameFacts
<1>2. /\ Size \in Nat \ {0} /\ Len(obj.values) \in Nat
  BY <1>1, ObjFacts
<1>3. DOMAIN obj.values = 1 .. Len(obj.values)
  BY <1>1, ArrayIs DEF Inv, ObjInv, Walking
<1>4. /\ ~Empty /\ \A k \in 1 .. Len(reads') : reads'[k] = (k - 1) * Size
      /\ Len(reads') <= Len(obj.values)
  BY ReadsNext
<1>5. reads \in Seq(Int) /\ m \in Nat
  BY LenProperties DEF Inv, ReadsInv
<1>6. a = Size * m
  BY <1>1, <1>4, NextIs
<1>7. a \in Int /\ m \in Nat
  BY <1>2, <1>5, <1>6
<1>8. Len(reads') = m + 1
  BY <1>5, <1>7, AppendProperties
<1>9. m + 1 \in DOMAIN obj.values
  BY <1>2, <1>3, <1>4, <1>5, <1>8
<1> HIDE DEF m, a
<1>10. (Size * m + 0) \div Size = m
  BY <1>2, <1>7, Quotient
<1>11. a \div Size = m
  <2>1. Size * m + 0 = a
    BY <1>2, <1>6, <1>7
  <2> QED BY <1>10, <2>1
<1>12. At(a) = obj.values[m + 1]
  BY <1>9, <1>11 DEF At
<1> QED BY <1>4, <1>7, <1>8, <1>9, <1>12 DEF m, a

LEMMA WalkLeafDecides ==
  ASSUME Inv, PossibleInv, WalkLeaf
  PROVE  PossibleInv'
<1>1. /\ InLoop /\ Dim = Rank /\ Top.i < obj.shape[Dim]
      /\ ~Rejected(At(NextAddress)) /\ reads' = Append(reads, NextAddress)
      /\ UNCHANGED <<obj, pc, unit>>
  BY DEF WalkLeaf
<1> DEFINE m == Len(reads)
<1>2. /\ ~Empty /\ m \in Nat /\ Len(reads') = m + 1 /\ m + 1 \in DOMAIN obj.values
      /\ At(NextAddress) = obj.values[m + 1]
  BY <1>1, NextElement
<1>3. pc = "walking" /\ obj \in Objects
  BY <1>1 DEF InLoop, Inv, ObjInv
<1>4. NeedsUnit => UnitRead
  BY <1>2, <1>3 DEF PossibleInv
<1>5. NeedsUnit => Dateable(obj.values[m + 1])
  BY <1>1, <1>2, <1>3, <1>4, RejectedIff
<1>6. ReadDateable'
  <2> SUFFICES ASSUME NeedsUnit, NEW k \in 1 .. m + 1 PROVE Dateable(obj.values[k])
    BY <1>1, <1>2, ElementsKept DEF ReadDateable
  <2>1. k \in 1 .. m \/ k = m + 1
    BY <1>2
  <2> QED BY <1>3, <1>5, <2>1 DEF PossibleInv, ReadDateable
<1> QED BY <1>1, <1>3, <1>4, <1>6, ElementsKept
        DEF PossibleInv, WrittenIffPossible, ScalarRight, UnitRead

LEMMA LeafDeclinedDecides ==
  ASSUME Inv, PossibleInv, LeafDeclined
  PROVE  PossibleInv'
<1>1. /\ InLoop /\ Dim = Rank /\ Top.i < obj.shape[Dim] /\ pc' = "declined"
      /\ Rejected(At(NextAddress)) /\ reads' = Append(reads, NextAddress) /\ obj' = obj
  BY DEF LeafDeclined, Declined
<1> DEFINE k == Len(reads) + 1
<1>2. ~Empty /\ k \in DOMAIN obj.values /\ At(NextAddress) = obj.values[k]
  BY <1>1, NextElement
<1>3. pc = "walking" /\ obj \in Objects /\ NeedsUnit
  BY <1>1 DEF InLoop, Inv, ObjInv, Rejected
<1>4. UnitRead
  BY <1>2, <1>3 DEF PossibleInv
<1> HIDE DEF k
<1>5. ~Dateable(obj.values[k])
  BY <1>1, <1>2, <1>3, <1>4, RejectedIff
<1>6. ~Elements
  BY <1>2, <1>3, <1>5 DEF Elements
<1> QED BY <1>1, <1>6, ElementsKept DEF PossibleInv, WrittenIffPossible, ScalarRight

LEMMA WrittenDecides ==
  ASSUME Inv, PossibleInv, Written, Inv'
  PROVE  PossibleInv'
<1>1. /\ pc = "walking" /\ pc' = "written" /\ UNCHANGED <<obj, unit, reads>>
  BY DEF Written
<1>2. obj \in Arrays /\ Classify(obj) = "ok" /\ IsArray
  BY <1>1, ArrayIs DEF Inv, ObjInv, IsArray
<1>3. Len(reads) = Len(obj.values) /\ DOMAIN obj.values = 1 .. Len(obj.values)
  BY <1>1, <1>2, ElementsKept, ArrayIs DEF Inv, ReadsInv
<1>4. Elements
  <2>1. NeedsUnit /\ DOMAIN obj.values # {} => UnitRead
    BY <1>1, <1>2, EmptyHasNoElements DEF PossibleInv
  <2>2. NeedsUnit => \A k \in DOMAIN obj.values : Dateable(obj.values[k])
    BY <1>1, <1>3 DEF PossibleInv, ReadDateable
  <2> QED BY <2>1, <2>2 DEF Elements, UnitRead
<1>5. Layout
  BY <1>2, SupportedIs
<1> QED BY <1>1, <1>2, <1>4, <1>5, ElementsKept DEF PossibleInv, WrittenIffPossible, ScalarRight

LEMMA ScalarFacts ==
  ASSUME obj \in Scalars
  PROVE  ~IsArray /\ obj \in Objects /\ DOMAIN obj.values = {1}
BY NumpyAssumption, DatesAssumption DEF Scalar, IsArray, Objects

LEMMA ScalarUnitDecides ==
  ASSUME Inv, PossibleInv, ScalarUnit
  PROVE  PossibleInv'
<1>1. pc = "scalar" /\ NeedsUnit /\ ReadUnit("value") /\ obj' = obj
  BY DEF ScalarUnit
<1>2. DOMAIN obj.values # {}
  BY <1>1, ScalarFacts DEF Inv, ObjInv
<1>3. \/ pc' = "value" /\ UnitRead'
      \/ pc' = "declined" /\ ~Elements
      \/ pc' = "raised"
  BY <1>1, <1>2, ReadUnitDecides
<1> QED BY <1>1, <1>3, ElementsKept DEF PossibleInv, WrittenIffPossible, ScalarRight

LEMMA Pair == ASSUME NEW a, NEW b PROVE <<a>> \o <<b>> = <<a, b>>
<1> DEFINE S == {a, b}
           s == <<a>>
           t == <<b>>
           r == <<a, b>>
<1>1. s \in Seq(S) /\ t \in Seq(S) /\ r \in Seq(S) /\ Len(s) = 1 /\ Len(t) = 1 /\ Len(r) = 2
  OBVIOUS
<1>2. s[1] = a /\ t[1] = b /\ r[1] = a /\ r[2] = b
  OBVIOUS
<1> HIDE DEF S, s, t, r
<1>3. /\ s \o t \in Seq(S) /\ Len(s \o t) = Len(s) + Len(t)
      /\ \A i \in 1 .. Len(s) + Len(t) : (s \o t)[i] = IF i <= Len(s) THEN s[i] ELSE t[i - Len(s)]
  <2>1. s \in Seq(S) /\ t \in Seq(S)
    BY <1>1
  <2> QED BY <2>1, ConcatProperties
<1>4. \A i \in 1 .. 2 : (s \o t)[i] = r[i]
  <2>1. (s \o t)[2] = t[1]
    BY <1>1, <1>3
  <2> QED BY <1>1, <1>2, <1>3, <2>1
<1>5. s \o t = r
  <2>1. Len(s \o t) = Len(r) /\ \A i \in 1 .. Len(s \o t) : (s \o t)[i] = r[i]
    BY <1>1, <1>3, <1>4
  <2> QED BY <1>1, <1>3, <2>1, SeqEqual
<1> QED BY <1>5 DEF s, t, r

LEMMA DenotesKept ==
  ASSUME UNCHANGED <<obj, opts, unit>>
  PROVE  \A t, v : LeafDenotes(t, v)' <=> LeafDenotes(t, v)
<1>1. \A t, v, u : Denotes(t, v, u)' <=> Denotes(t, v, u)
  BY SMT DEF Denotes
<1>2. (NeedsUnit' <=> NeedsUnit) /\ unit' = unit
  BY DEF NeedsUnit
<1>3. \A t, v : Denotes(t, v, unit)' <=> Denotes(t, v, unit)
  BY <1>1, <1>2
<1> QED BY <1>2, <1>3, Zenon DEF LeafDenotes

LEMMA ScalarValueDecides ==
  ASSUME Inv, PossibleInv, ScalarValue
  PROVE  PossibleInv'
<1> DEFINE v == obj.values[1]
<1>1. /\ pc = (IF NeedsUnit THEN "value" ELSE "scalar") /\ UNCHANGED <<obj, opts, unit>>
      /\ \/ Rejected(v) /\ pc' = "declined"
         \/ ~Rejected(v) /\ out' = out \o Leaf(v) /\ pc' = "written"
  BY DEF ScalarValue, Declined, Emit
<1>2. obj \in Scalars /\ out = <<"before">>
  BY <1>1 DEF Inv, ObjInv, OutInv
<1>3. ~IsArray /\ obj \in Objects /\ DOMAIN obj.values = {1}
  BY <1>2, ScalarFacts
<1>4. NeedsUnit => UnitRead
  BY <1>1 DEF PossibleInv
<1>5. Layout
  BY <1>3 DEF Layout
<1>6. NeedsUnit => /\ Rejected(v) <=> ~Dateable(v)
                   /\ ~Rejected(v) => Len(Leaf(v)) = 1 /\ LeafDenotes(Leaf(v)[1], v)
  BY <1>3, <1>4, RejectedIff
<1>7. ~NeedsUnit => Leaf(v) = <<v>> /\ LeafDenotes(v, v) /\ ~Rejected(v)
  BY DEF Leaf, LeafDenotes, Rejected
<1>8. Elements <=> ~Rejected(v)
  <2> HIDE DEF v
  <2>1. Elements <=> (NeedsUnit => ParseDt64(obj.dtype) # None /\ Dateable(v))
    BY <1>3 DEF Elements, v
  <2> QED BY <1>4, <1>6, <1>7, <2>1 DEF UnitRead
<1> DEFINE l == Leaf(v)
<1>9. ~Rejected(v) => Len(l) = 1 /\ LeafDenotes(l[1], v) /\ l = <<l[1]>>
  <2>1. CASE NeedsUnit
    <3>1. ~Rejected(v) => \E t : l = <<t>>
      BY DEF Leaf
    <3> QED BY <1>6, <2>1, <3>1
  <2>2. CASE ~NeedsUnit
    BY <1>7, <2>2
  <2> QED BY <2>1, <2>2
<1>10. CASE Rejected(v) /\ pc' = "declined"
  BY <1>1, <1>8, <1>10, ElementsKept DEF PossibleInv, WrittenIffPossible, ScalarRight
<1>11. CASE ~Rejected(v) /\ out' = out \o l /\ pc' = "written"
  <2> DEFINE t == l[1]
             before == "before"
  <2>1. LeafDenotes(t, v) /\ l = <<t>>
    BY <1>9, <1>11
  <2>2. out = <<before>> /\ out' = out \o l
    BY <1>2, <1>11
  <2>3. obj'.values[1] = v
    BY <1>1
  <2> HIDE DEF t, v, l, before
  <2>4. out' = <<before, t>>
    BY <2>1, <2>2, Pair
  <2>5. out'[1] = before /\ Len(out') = 2 /\ out'[2] = t
    BY <2>4
  <2>6. LeafDenotes(out'[2], obj'.values[1])
    BY <2>1, <2>3, <2>5
  <2>7. LeafDenotes(out[2], obj.values[1])'
    BY <1>1, <2>6, DenotesKept
  <2> QED BY <1>1, <1>5, <1>8, <1>11, <2>5, <2>7, ElementsKept
          DEF PossibleInv, WrittenIffPossible, ScalarRight, before
<1> QED BY <1>1, <1>10, <1>11

LEMMA QuietDecides ==
  ASSUME Inv, PossibleInv, GetArrayStruct \/ CloseDim \/ UNCHANGED vars
  PROVE  PossibleInv'
<1>1. CASE GetArrayStruct
  <2>1. obj' = obj /\ pc' \in {"classify", "raised"}
    BY <1>1 DEF GetArrayStruct
  <2> QED BY <2>1 DEF PossibleInv, WrittenIffPossible, ScalarRight
<1>2. CASE CloseDim
  <2>1. pc = "walking" /\ UNCHANGED <<obj, pc, unit, reads>>
    BY <1>2 DEF CloseDim, InLoop
  <2> QED BY <2>1, ElementsKept
          DEF PossibleInv, WrittenIffPossible, ScalarRight, ReadDateable, UnitRead
<1>3. CASE UNCHANGED vars
  <2>1. UNCHANGED <<obj, pc, opts, unit, out, reads>>
    BY <1>3 DEF vars
  <2>2. ScalarRight'
    BY <2>1, ElementsKept, DenotesKept DEF PossibleInv, ScalarRight
  <2> QED BY <2>1, <2>2, ElementsKept DEF PossibleInv, WrittenIffPossible, ReadDateable, UnitRead
<1> QED BY <1>1, <1>2, <1>3

LEMMA PossibleInit == Init => PossibleInv
BY DEF Init, PossibleInv, WrittenIffPossible, ScalarRight

LEMMA PossibleNext == Inv /\ PossibleInv /\ [Next]_vars => (Inv /\ PossibleInv)'
<1> SUFFICES ASSUME Inv, PossibleInv, [Next]_vars PROVE (Inv /\ PossibleInv)'
  OBVIOUS
<1>1. Inv'
  BY NextInv
<1>2. PossibleInv'
  BY <1>1, QuietDecides, DeclineArrayDecides, BeginDecides, WalkDecides, WalkRowDecides,
     WalkLeafDecides, LeafDeclinedDecides, WrittenDecides, ScalarUnitDecides,
     ScalarValueDecides DEF Next
<1> QED BY <1>1, <1>2

-----------------------------------------------------------------------------
(* The theorems.                                                           *)

(* The inductive invariant of the writer: where each loop of the walk      *)
(* stands in the array's memory.                                           *)
THEOREM Invariance == Spec => []Inv
BY InitInv, NextInv, PTL DEF Spec

(* Every variable keeps its type; the walk is never deeper than the array. *)
THEOREM TypeCorrect == Spec => []TypeOK
<1>1. Inv => TypeOK
  BY DEF Inv
<1> QED BY <1>1, Invariance, PTL

(* An object is written whole or not at all, and its interface is released *)
(* once.                                                                   *)
THEOREM AlwaysWholeOrNothing == Spec => []WholeOrNothing
<1>1. Inv => WholeOrNothing
  BY DEF Inv
<1> QED BY <1>1, Invariance, PTL

(* The walk reads every element once, in row-major order, and nothing      *)
(* outside the array, for every shape and whatever is in the strides that  *)
(* numpy leaves unspecified.                                               *)
THEOREM AlwaysRowMajor == Spec => []ReadsRowMajor
<1>1. Inv => ReadsRowMajor
  BY LenProperties DEF Inv, ReadsInv, ReadsRowMajor
<1> QED BY <1>1, Invariance, PTL

(* The text of an offset of less than a day, of any sign and down to the   *)
(* microsecond, says that offset: fmt_offset.                              *)
THEOREM OffsetsCorrect == Spec => []OffsetsRead
<1>1. ASSUME NEW delta \in Deltas PROVE OffsetReads(DeltaUs(delta), opts)
  BY DatesAssumption, OffsetIs
<1>2. OffsetsRead
  BY <1>1, Zenon DEF OffsetsRead, OffsetReads
<1> QED BY <1>2, PTL

(* With Inv, what is known of the unit and of the elements read so far is  *)
(* inductive.                                                              *)
THEOREM PossibleInvariance == Spec => [](Inv /\ PossibleInv)
<1>1. Init => Inv /\ PossibleInv
  BY InitInv, PossibleInit
<1> QED BY <1>1, PossibleNext, PTL DEF Spec

(* An object is written if and only if its layout is one isojson reads and *)
(* every element of a datetime64 array is NaT or falls into the years 0 to *)
(* 9999 in a unit that its dtype names; otherwise it is declined, or an    *)
(* attribute raised.                                                       *)
THEOREM AlwaysWrittenIffPossible == Spec => []WrittenIffPossible
<1>1. Inv /\ PossibleInv => WrittenIffPossible
  BY DEF PossibleInv
<1> QED BY <1>1, PossibleInvariance, PTL

(* The text of a datetime64 scalar is null or its date, to the microsecond *)
(* below, in every unit.                                                   *)
THEOREM AlwaysScalarRight == Spec => []ScalarRight
<1>1. Inv /\ PossibleInv => ScalarRight
  BY DEF PossibleInv
<1> QED BY <1>1, PossibleInvariance, PTL
=============================================================================
