--------------------------- MODULE WritersProofs ---------------------------
(***************************************************************************)
(* The theorems of Writers, for every text, every buffer size and every    *)
(* width of the vector stores: what each writer reserves is enough for     *)
(* what it stores, the bytes object below the buffer is owned exactly once,*)
(* and the whole implements ByteSink.                                      *)
(***************************************************************************)
EXTENDS Writers, SequenceTheorems, SetFacts

Bytes == Byte \cup {Junk}

(* A buffer that a call writes to.                                         *)
Sized(b) == b \in Buffer /\ b.len <= Cap(b)
Owned(b) == b.obj \in {"bytes", "spill"} /\ b.live = IF b.obj = "bytes" THEN 1 ELSE 0
Good(b) == Sized(b) /\ Owned(b)

(* The first k bytes of both are the same.                                 *)
Agree(b, c, k) == \A j \in 1 .. k : b.mem[j] = c.mem[j]

-----------------------------------------------------------------------------
(* The buffer's operations. *)

LEMMA BufferFields ==
  ASSUME NEW b \in Buffer
  PROVE  /\ b.mem \in Seq(Bytes) /\ b.len \in Nat /\ b.live \in Nat /\ Cap(b) \in Nat
         /\ \A j \in 1 .. Cap(b) : b.mem[j] \in Bytes
  BY LenProperties, ElementOfSeq DEF Buffer, Bytes, Cap

LEMMA Rebuilt ==
  ASSUME NEW b \in Buffer, NEW k \in Nat, NEW f \in [1 .. k -> Bytes]
  PROVE  /\ f \in Seq(Bytes) /\ Len(f) = k
         /\ [b EXCEPT !.mem = f] \in Buffer
<1>1. f \in Seq(Bytes) /\ Len(f) = k
  OBVIOUS
<1> QED BY <1>1 DEF Buffer, Bytes

LEMMA StoreBuffer ==
  ASSUME NEW b \in Buffer, NEW at \in Nat, NEW s \in Seq(Bytes)
  PROVE  /\ Store(b, at, s) \in Buffer
         /\ Cap(Store(b, at, s)) = Cap(b) /\ Store(b, at, s).len = b.len
         /\ Store(b, at, s).obj = b.obj /\ Store(b, at, s).live = b.live
         /\ \A j \in 1 .. Cap(b) : j <= at => Store(b, at, s).mem[j] = b.mem[j]
<1> DEFINE f == [k \in 1 .. Cap(b) |-> IF k \in at + 1 .. at + Len(s) THEN s[k - at] ELSE b.mem[k]]
<1>1. Cap(b) \in Nat /\ Len(s) \in Nat /\ \A j \in 1 .. Cap(b) : b.mem[j] \in Bytes
  BY BufferFields, LenProperties
<1>2. \A j \in 1 .. Len(s) : s[j] \in Bytes
  BY ElementOfSeq
<1>3. \A k \in 1 .. Cap(b) : k \in at + 1 .. at + Len(s) => k - at \in 1 .. Len(s)
  BY <1>1
<1>4. f \in [1 .. Cap(b) -> Bytes]
  BY <1>1, <1>2, <1>3
<1>5. \A j \in 1 .. Cap(b) : j <= at => f[j] = b.mem[j]
  BY <1>1
<1>6. Store(b, at, s) = [b EXCEPT !.mem = f]
  BY DEF Store
<1> HIDE DEF f
<1>7. /\ [b EXCEPT !.mem = f] \in Buffer /\ Len(f) = Cap(b)
      /\ [b EXCEPT !.mem = f].mem = f /\ [b EXCEPT !.mem = f].len = b.len
      /\ [b EXCEPT !.mem = f].obj = b.obj /\ [b EXCEPT !.mem = f].live = b.live
  BY <1>1, <1>4, Rebuilt DEF Buffer
<1> QED BY <1>5, <1>6, <1>7 DEF Cap

LEMMA SetLenBuffer ==
  ASSUME NEW b \in Buffer, NEW k \in Nat
  PROVE  /\ SetLen(b, k) \in Buffer /\ SetLen(b, k).len = k /\ SetLen(b, k).mem = b.mem
         /\ Cap(SetLen(b, k)) = Cap(b)
         /\ SetLen(b, k).obj = b.obj /\ SetLen(b, k).live = b.live
  BY DEF SetLen, Buffer, Cap

LEMMA MovedBytes ==
  ASSUME NEW b \in Buffer, b.len <= Cap(b), NEW want \in Nat, want >= b.len
  PROVE  /\ Moved(b, want) \in [1 .. want -> Bytes]
         /\ \A j \in 1 .. b.len : Moved(b, want)[j] = b.mem[j]
<1>1. b.len \in Nat /\ Cap(b) \in Nat /\ \A j \in 1 .. Cap(b) : b.mem[j] \in Bytes
  BY BufferFields
<1>2. Junk \in Bytes
  BY DEF Bytes
<1>3. \A j \in 1 .. want : j <= Cap(b) => j \in 1 .. Cap(b)
  BY <1>1
<1>4. \A j \in 1 .. b.len : j \in 1 .. want /\ j <= Cap(b) /\ j <= b.len
  BY <1>1
<1> QED BY <1>1, <1>2, <1>3, <1>4 DEF Moved

(* Whatever grow answers has room for k bytes past the text, has kept the  *)
(* text, and is owned once.                                                *)
Roomy(b, c, k) ==
  /\ Good(c) /\ c.len = b.len /\ Cap(c) - c.len >= k /\ Agree(c, b, b.len)

LEMMA GrowRoom ==
  ASSUME NEW b, Good(b), NEW k \in Nat, NEW c \in Grow(b, k)
  PROVE  Roomy(b, c, k)
<1> DEFINE want == Larger(b.len + k, 2 * Cap(b))
           owned == IF b.obj = "bytes" THEN b.live - 1 ELSE b.live
<1>1. b \in Buffer /\ b.len \in Nat /\ Cap(b) \in Nat /\ b.len <= Cap(b)
      /\ b.obj \in {"bytes", "spill"} /\ owned = 0
  BY BufferFields DEF Good, Sized, Owned
<1>2. want \in Nat /\ want >= b.len + k
  BY <1>1 DEF Larger
<1>3. \/ \E s \in Spare : c = [b EXCEPT !.obj = "spill", !.mem = Moved(b, want + s), !.live = owned]
      \/ b.obj = "bytes" /\ c = [b EXCEPT !.mem = Moved(b, want), !.live = owned + 1]
  BY DEF Grow
<1> HIDE DEF want, owned
<1>4. CASE \E s \in Spare :
             c = [b EXCEPT !.obj = "spill", !.mem = Moved(b, want + s), !.live = owned]
  <2>1. PICK s \in Spare :
             c = [b EXCEPT !.obj = "spill", !.mem = Moved(b, want + s), !.live = owned]
    BY <1>4
  <2>2. want + s \in Nat /\ want + s >= b.len + k /\ want + s >= b.len
    BY <1>1, <1>2, BufferAssumption
  <2>3. /\ Moved(b, want + s) \in [1 .. want + s -> Bytes]
        /\ \A j \in 1 .. b.len : Moved(b, want + s)[j] = b.mem[j]
    BY <1>1, <2>2, MovedBytes
  <2>4. Moved(b, want + s) \in Seq(Bytes) /\ Len(Moved(b, want + s)) = want + s
    BY <1>1, <2>2, <2>3, Rebuilt
  <2>5. /\ c \in Buffer /\ c.mem = Moved(b, want + s) /\ c.len = b.len
        /\ c.obj = "spill" /\ c.live = 0
    BY <1>1, <2>1, <2>4 DEF Buffer, Bytes
  <2> QED BY <1>1, <2>2, <2>3, <2>4, <2>5 DEF Roomy, Good, Sized, Owned, Cap, Agree
<1>5. CASE b.obj = "bytes" /\ c = [b EXCEPT !.mem = Moved(b, want), !.live = owned + 1]
  <2>1. want >= b.len
    BY <1>1, <1>2
  <2>2. /\ Moved(b, want) \in [1 .. want -> Bytes]
        /\ \A j \in 1 .. b.len : Moved(b, want)[j] = b.mem[j]
    BY <1>1, <1>2, <2>1, MovedBytes
  <2>3. Moved(b, want) \in Seq(Bytes) /\ Len(Moved(b, want)) = want
    BY <1>1, <1>2, <2>2, Rebuilt
  <2>4. /\ c \in Buffer /\ c.mem = Moved(b, want) /\ c.len = b.len
        /\ c.obj = "bytes" /\ c.live = 1
    <3>1. owned + 1 = 1 /\ 1 \in Nat
      BY <1>1
    <3> HIDE <1>1
    <3>2. /\ c.mem = Moved(b, want) /\ c.len = b.len /\ c.obj = b.obj /\ c.live = 1
          /\ c = [obj |-> b.obj, mem |-> Moved(b, want), len |-> b.len, live |-> 1]
      BY <1>5, <3>1 DEF Good, Sized, Buffer
    <3>3. b.len \in Nat
      BY <1>1
    <3> QED BY <1>5, <2>3, <3>2, <3>3 DEF Buffer, Bytes
  <2> QED BY <1>1, <1>2, <2>1, <2>2, <2>3, <2>4 DEF Roomy, Good, Sized, Owned, Cap, Agree
<1> QED BY <1>3, <1>4, <1>5

LEMMA ReserveRoom ==
  ASSUME NEW b, Good(b), NEW k \in Nat, NEW c \in Reserve(b, k)
  PROVE  Roomy(b, c, k)
<1>1. CASE Cap(b) - b.len < k
  BY <1>1, GrowRoom DEF Reserve
<1>2. CASE ~(Cap(b) - b.len < k)
  <2>1. c = b /\ b.len \in Nat /\ Cap(b) \in Nat
    BY <1>2, BufferFields DEF Reserve, Good, Sized
  <2> QED BY <1>2, <2>1 DEF Roomy, Agree
<1> QED BY <1>1, <1>2

(* A store past the text, and the text then made longer over it.           *)
LEMMA StoreGood ==
  ASSUME NEW b, Good(b), NEW at \in Nat, at >= b.len, NEW s \in Seq(Bytes)
  PROVE  /\ Good(Store(b, at, s)) /\ Cap(Store(b, at, s)) = Cap(b)
         /\ Store(b, at, s).len = b.len /\ Agree(Store(b, at, s), b, b.len)
<1>1. b \in Buffer /\ b.len \in Nat /\ Cap(b) \in Nat /\ b.len <= Cap(b)
  BY BufferFields DEF Good, Sized
<1>2. \A j \in 1 .. b.len : j \in 1 .. Cap(b) /\ j <= at
  BY <1>1
<1> QED BY <1>1, <1>2, StoreBuffer, ZenonT(60) DEF Good, Sized, Owned, Agree

LEMMA SetLenGood ==
  ASSUME NEW b, Good(b), NEW k \in Nat, k <= Cap(b)
  PROVE  /\ Good(SetLen(b, k)) /\ Cap(SetLen(b, k)) = Cap(b) /\ SetLen(b, k).len = k
         /\ \A j : Agree(SetLen(b, k), b, j)
  BY SetLenBuffer DEF Good, Sized, Owned, Agree

LEMMA StoreSpansGood ==
  ASSUME NEW b, Good(b), NEW at \in Nat, at >= b.len, NEW s \in Seq(Bytes), NEW spans
  PROVE  /\ Good(StoreSpans(b, at, s, spans)) /\ Cap(StoreSpans(b, at, s, spans)) = Cap(b)
         /\ StoreSpans(b, at, s, spans).len = b.len
         /\ Agree(StoreSpans(b, at, s, spans), b, b.len)
<1> DEFINE copied == UNION {p[1] + 1 .. p[1] + p[2] : p \in spans}
           t == [k \in 1 .. Len(s) |-> IF k \in copied THEN s[k]
                                       ELSE IF at + k <= Cap(b) THEN b.mem[at + k] ELSE Junk]
<1>1. b \in Buffer /\ Cap(b) \in Nat /\ \A j \in 1 .. Cap(b) : b.mem[j] \in Bytes
  BY BufferFields DEF Good, Sized
<1>2. Len(s) \in Nat /\ Junk \in Bytes /\ \A k \in 1 .. Len(s) : s[k] \in Bytes
  BY LenProperties, ElementOfSeq DEF Bytes
<1>3. \A k \in 1 .. Len(s) : at + k <= Cap(b) => at + k \in 1 .. Cap(b)
  BY <1>1, <1>2
<1> HIDE DEF copied
<1>4. t \in [1 .. Len(s) -> Bytes]
  BY <1>1, <1>2, <1>3
<1>5. StoreSpans(b, at, s, spans) = Store(b, at, t)
  BY DEF StoreSpans, copied
<1> HIDE DEF t
<1>6. t \in Seq(Bytes)
  BY <1>1, <1>2, <1>4, Rebuilt
<1> QED BY <1>5, <1>6, StoreGood

-----------------------------------------------------------------------------
(* The bytes of one unit. *)

LEMMA ByteRange ==
  /\ \A x : x \in Byte <=> x \in Nat /\ x < 256
  /\ \A x \in Nat : x < 256 => x \in Bytes
  BY DEF Byte, Bytes

(* Every unit that is escaped is a byte.                                   *)
LEMMA SpecialUnit ==
  ASSUME NEW c \in Nat, Special(c)
  PROVE  c \in Byte
<1>1. CASE c < 93
  BY <1>1, ByteRange
<1>2. CASE c >= 93
  <2>1. c # 8 /\ c # 9 /\ c # 10 /\ c # 12 /\ c # 13 /\ c \notin {34, 92} /\ c \notin 0 .. 31
    BY <1>2
  <2>2. EscapeLetter(c) = 0
    BY <2>1 DEF EscapeLetter
  <2> QED BY <2>2 DEF Special
<1> QED BY <1>1, <1>2

LEMMA EscapeLetterByte ==
  ASSUME NEW c \in Byte
  PROVE  /\ EscapeLetter(c) \in Nat /\ EscapeLetter(c) < 256
         /\ EscapeLetter(c) = 117 => c < 32
<1>0. c \in Nat /\ c < 256
  BY ByteRange
<1>1. CASE c \in {8, 9, 10, 12, 13}
  BY <1>1 DEF EscapeLetter
<1>2. CASE c \in {34, 92}
  BY <1>2 DEF EscapeLetter
<1>3. CASE c < 32 /\ c \notin {8, 9, 10, 12, 13}
  <2>1. c \in 0 .. 31
    BY <1>0, <1>3
  <2> QED BY <1>3, <2>1 DEF EscapeLetter
<1>4. CASE c >= 32 /\ c \notin {34, 92}
  <2>1. c # 8 /\ c # 9 /\ c # 10 /\ c # 12 /\ c # 13 /\ c \notin 0 .. 31
    BY <1>4, <1>0
  <2> QED BY <1>4, <2>1 DEF EscapeLetter
<1> QED BY <1>0, <1>1, <1>2, <1>3, <1>4

(* An escape takes at most six bytes.                                      *)
LEMMA EscapeBytes ==
  ASSUME NEW c \in Byte
  PROVE  /\ PutEscape(c) \in Seq(Bytes) /\ Len(PutEscape(c)) \in Nat
         /\ Len(PutEscape(c)) >= 2 /\ Len(PutEscape(c)) <= 6
<1>0. c \in Nat /\ 92 \in Bytes /\ 117 \in Bytes /\ 48 \in Bytes
  BY ByteRange
<1>1. CASE EscapeLetter(c) = 117
  <2>1. c < 32
    BY <1>1, EscapeLetterByte
  <2>2. c \div 16 \in 0 .. 15 /\ c % 16 \in 0 .. 15
    BY <1>0, <2>1
  <2>3. \A d \in 0 .. 15 : Hex(d) \in Nat /\ Hex(d) < 256
    BY DEF Hex
  <2>4. Hex(c \div 16) \in Bytes /\ Hex(c % 16) \in Bytes
    BY <2>2, <2>3, ByteRange
  <2>5. PutEscape(c) = <<92, 117, 48, 48, Hex(c \div 16), Hex(c % 16)>>
    BY <1>1 DEF PutEscape
  <2> QED BY <1>0, <2>4, <2>5
<1>2. CASE EscapeLetter(c) # 117
  <2>1. EscapeLetter(c) \in Bytes
    BY EscapeLetterByte, ByteRange
  <2> QED BY <1>0, <1>2, <2>1 DEF PutEscape
<1> QED BY <1>1, <1>2

(* UTF-8 takes no more bytes than the width of the string's units says.    *)
LEMMA Utf8Bytes ==
  ASSUME NEW c \in Nat, c < 1114112
  PROVE  /\ Utf8(c) \in Seq(Bytes) /\ Len(Utf8(c)) \in 1 .. 4
         /\ c < 256 => Len(Utf8(c)) <= 2
         /\ c < 65536 => Len(Utf8(c)) <= 3
<1>1. CASE c < 128
  BY <1>1, ByteRange DEF Utf8
<1>2. CASE c >= 128 /\ c < 2048
  <2>1. 192 + (c \div 64) \in Bytes /\ 128 + (c % 64) \in Bytes
    BY <1>2, ByteRange
  <2> QED BY <1>2, <2>1 DEF Utf8
<1>3. CASE c >= 2048 /\ c < 65536
  <2>1. /\ 224 + (c \div 4096) \in Bytes /\ 128 + ((c \div 64) % 64) \in Bytes
        /\ 128 + (c % 64) \in Bytes
    BY <1>3, ByteRange
  <2> QED BY <1>3, <2>1 DEF Utf8
<1>4. CASE c >= 65536
  <2>1. /\ 240 + (c \div 262144) \in Bytes /\ 128 + ((c \div 4096) % 64) \in Bytes
        /\ 128 + ((c \div 64) % 64) \in Bytes /\ 128 + (c % 64) \in Bytes
    BY <1>4, ByteRange
  <2> QED BY <1>4, <2>1 DEF Utf8
<1> QED BY <1>1, <1>2, <1>3, <1>4

LEMMA UnitBytes ==
  ASSUME NEW w \in 2 .. 4, NEW c \in Units(w)
  PROVE  c \in Nat /\ Utf8(c) \in Seq(Bytes) /\ Len(Utf8(c)) \in 1 .. w
<1>1. c \in Nat /\ c < 1114112
  BY WritersAssumption DEF Units
<1>2. (w = 2 => c < 256) /\ (w = 3 => c < 65536)
  BY DEF Units
<1>3. w = 2 \/ w = 3 \/ w = 4
  OBVIOUS
<1>4. Utf8(c) \in Seq(Bytes) /\ Len(Utf8(c)) \in 1 .. 4
  BY <1>1, Utf8Bytes, SMT
<1>5. CASE w = 2
  <2>1. c < 256
    BY <1>2, <1>5
  <2>2. Len(Utf8(c)) <= 2
    BY <1>1, <2>1, Utf8Bytes
  <2> QED BY <1>1, <1>4, <1>5, <2>2, SMTT(60)
<1>6. CASE w = 3
  <2>1. c < 65536
    BY <1>2, <1>6, SMT
  <2>2. Len(Utf8(c)) <= 3
    BY <1>1, <2>1, Utf8Bytes, SMT
  <2> QED BY <1>1, <1>4, <1>6, <2>2, SMTT(60)
<1>7. CASE w = 4
  BY <1>1, <1>4, <1>7
<1> QED BY <1>3, <1>5, <1>6, <1>7

LEMMA SampleBytes ==
  ASSUME NEW len \in 1 .. 32
  PROVE  Sample(len) \in Seq(Bytes) /\ Len(Sample(len)) = len
<1>1. \A k \in 1 .. len : 128 + k \in Bytes
  BY ByteRange
<1> QED BY <1>1 DEF Sample

(* No fixed-size copy passes the text it copies.                           *)
LEMMA SmallCopyInside ==
  ASSUME NEW len \in Nat, NEW p \in SmallCopy(len)
  PROVE  p[1] \in Nat /\ p[2] \in Nat /\ p[1] + p[2] <= len
<1>1. \A s \in {16, 8, 4} : p \in Spans({s}, len) /\ len >= s =>
        p[1] \in Nat /\ p[2] \in Nat /\ p[1] + p[2] <= len
  BY DEF Spans
<1>2. p \in Bytewise(len) => p[1] \in Nat /\ p[2] \in Nat /\ p[1] + p[2] <= len
  BY DEF Bytewise
<1> QED BY <1>1, <1>2 DEF SmallCopy

LEMMA CopyDigitsInside ==
  ASSUME NEW len \in Nat, NEW p \in CopyDigits(len)
  PROVE  p[1] \in Nat /\ p[2] \in Nat /\ p[1] + p[2] <= len
<1>1. \A s \in {8, 4} : p \in Spans({s}, len) /\ len >= s =>
        p[1] \in Nat /\ p[2] \in Nat /\ p[1] + p[2] <= len
  BY DEF Spans
<1>2. p \in Bytewise(len) => p[1] \in Nat /\ p[2] \in Nat /\ p[1] + p[2] <= len
  BY DEF Bytewise
<1>3. p = <<8, 8>> /\ len > 16 => p[1] \in Nat /\ p[2] \in Nat /\ p[1] + p[2] <= len
  OBVIOUS
<1> QED BY <1>1, <1>2, <1>3 DEF CopyDigits

-----------------------------------------------------------------------------
(* The word test. *)

(* The borrows of a word's subtraction exist, and only a byte below c, or  *)
(* equal to it after a borrow, borrows.                                    *)
Borrows(w, c, b) ==
  /\ b \in [1 .. Len(w) + 1 -> {0, 1}]
  /\ b[1] = 0
  /\ \A k \in 1 .. Len(w) : b[k + 1] = IF w[k] < c + b[k] THEN 1 ELSE 0

LEMMA BorrowExists ==
  ASSUME NEW w \in Seq(Nat), NEW c \in Nat
  PROVE  \E b : /\ Borrows(w, c, b)
                /\ WrappingSub(w, c) = [k \in 1 .. Len(w) |-> (w[k] - c - b[k]) % 256]
<1> DEFINE m == Len(w)
           Rule(b) == [k \in 1 .. m + 1 |->
                         IF k = 1 THEN 0 ELSE IF w[k - 1] < c + b[k - 1] THEN 1 ELSE 0]
           V == {0, 1}
           s == [p \in (1 .. m) \X V |-> IF w[p[1]] < c + p[2] THEN 1 ELSE 0]
<1>1. m \in Nat
  BY LenProperties
<1> HIDE DEF m
<1>2. StepOf(m, V, s) /\ 0 \in V
  BY DEF StepOf
<1> HIDE DEF V
<1>3. PICK f : RunOf(m, V, 0, s, f)
  <2> HIDE DEF s
  <2> DEFINE z == 0
  <2>1. z \in V
    BY <1>2
  <2> HIDE DEF z
  <2>2. \E f : RunOf(m, V, z, s, f)
    BY ONLY <1>1, <1>2, <2>1, Recursion
  <2> QED BY <2>2 DEF z
<1>4. f[0] = 0 /\ \A k \in 1 .. m : f[k - 1] \in V /\ f[k] = IF w[k] < c + f[k - 1] THEN 1 ELSE 0
  <2>1. \A k \in 1 .. m : k \in 0 .. m /\ k - 1 \in 0 .. m /\ k # 0
    BY <1>1
  <2>2. 0 \in 0 .. m
    BY <1>1
  <2>3. f[0] = 0 /\ \A k \in 1 .. m : f[k - 1] \in V /\ f[k] = s[<<k, f[k - 1]>>]
    <3> HIDE DEF s
    <3> QED BY <1>3, <2>1, <2>2 DEF RunOf
  <2>4. \A k \in 1 .. m : \A v \in V : s[<<k, v>>] = IF w[k] < c + v THEN 1 ELSE 0
    OBVIOUS
  <2> HIDE DEF s
  <2> QED BY <2>3, <2>4
<1> HIDE DEF s
<1> DEFINE g == [k \in 1 .. m + 1 |-> f[k - 1]]
<1>5. g = Rule(g)
  <2>1. \A k \in 1 .. m + 1 : k # 1 => k - 1 \in 1 .. m + 1 /\ k - 1 \in 1 .. m /\ k - 1 - 1 = k - 2
    BY <1>1
  <2>2. \A k \in 1 .. m + 1 : k # 1 => g[k - 1] = f[k - 2]
    BY <2>1
  <2>3. \A k \in 1 .. m + 1 : k # 1 => f[k - 1] = IF w[k - 1] < c + f[k - 2] THEN 1 ELSE 0
    BY <1>4, <2>1
  <2>4. \A k \in 1 .. m + 1 :
          f[k - 1] = IF k = 1 THEN 0 ELSE IF w[k - 1] < c + g[k - 1] THEN 1 ELSE 0
    <3> TAKE k \in 1 .. m + 1
    <3>1. CASE k = 1
      BY <1>4, <3>1
    <3>2. CASE k # 1
      BY <2>2, <2>3, <3>2
    <3> QED BY <3>1, <3>2
  <2> QED BY <2>4
<1> HIDE DEF g
<1> DEFINE b == CHOOSE x : x = Rule(x)
<1>6. b = Rule(b)
  <2> HIDE DEF Rule
  <2> QED BY <1>5
<1>7. WrappingSub(w, c) = [k \in 1 .. m |-> (w[k] - c - b[k]) % 256]
  BY DEF WrappingSub, m
<1> HIDE DEF b
<1>8. b[1] = 0
  <2>1. 1 \in 1 .. m + 1
    BY <1>1
  <2> QED BY <1>6, <2>1
<1>9. \A k \in 1 .. m : b[k + 1] = IF w[k] < c + b[k] THEN 1 ELSE 0
  <2> TAKE k \in 1 .. m
  <2>1. k + 1 \in 1 .. m + 1 /\ k + 1 # 1 /\ k + 1 - 1 = k
    BY <1>1
  <2>2. \A j \in 1 .. m + 1 : b[j] = IF j = 1 THEN 0 ELSE IF w[j - 1] < c + b[j - 1] THEN 1 ELSE 0
    BY <1>6
  <2> QED BY <2>1, <2>2
<1>10. b \in [1 .. m + 1 -> {0, 1}]
  <2>1. \A k \in 1 .. m + 1 :
          (IF k = 1 THEN 0 ELSE IF w[k - 1] < c + b[k - 1] THEN 1 ELSE 0) \in {0, 1}
    OBVIOUS
  <2> QED BY <1>6, <2>1
<1> QED BY <1>7, <1>8, <1>9, <1>10, ZenonT(60) DEF Borrows, m

(* Nothing borrows before the first byte below c.                          *)
LEMMA NoBorrow ==
  ASSUME NEW w \in Seq(Nat), NEW c \in Nat, NEW b, Borrows(w, c, b),
         NEW m \in 1 .. Len(w) + 1, \A k \in 1 .. Len(w) : k < m => w[k] >= c
  PROVE  b[m] = 0
<1> DEFINE S == {k \in 0 .. m - 1 : b[k + 1] = 0}
<1>1. Len(w) \in Nat /\ m - 1 \in Nat /\ \A k \in 1 .. Len(w) : w[k] \in Nat
  BY LenProperties, ElementOfSeq
<1>2. 0 \in S
  BY <1>1 DEF Borrows
<1>3. \A k \in 0 .. (m - 1) - 1 : k \in S => k + 1 \in S
  <2> TAKE k \in 0 .. (m - 1) - 1
  <2> HAVE k \in S
  <2>1. k + 1 \in 1 .. Len(w) /\ k + 1 < m /\ k + 1 \in 0 .. m - 1
    BY <1>1
  <2>2. w[k + 1] >= c /\ w[k + 1] \in Nat /\ b[k + 1] = 0
    BY <1>1, <2>1
  <2>3. b[k + 1 + 1] = IF w[k + 1] < c + b[k + 1] THEN 1 ELSE 0
    BY <2>1 DEF Borrows
  <2>4. ~(w[k + 1] < c + b[k + 1])
    BY <2>2
  <2> QED BY <2>1, <2>3, <2>4
<1> HIDE DEF S
<1>4. m - 1 \in S
  <2>1. 0 .. m - 1 \subseteq S
    BY <1>1, <1>2, <1>3, BoundedInduction
  <2> QED BY <1>1, <2>1
<1>5. b[m - 1 + 1] = 0
  BY <1>4 DEF S
<1> QED BY <1>1, <1>5

(* A borrow may mark bytes above the first byte below c, but it needs one. *)
LEMMA AnyBelowExact ==
  ASSUME NEW w \in Seq(Nat), \A k \in 1 .. Len(w) : w[k] < 256, NEW c \in Nat, c <= 128
  PROVE  AnyBelow(w, c) <=> \E k \in 1 .. Len(w) : w[k] < c
<1>1. PICK b : /\ Borrows(w, c, b)
               /\ WrappingSub(w, c) = [k \in 1 .. Len(w) |-> (w[k] - c - b[k]) % 256]
  BY BorrowExists
<1>2. Len(w) \in Nat /\ \A k \in 1 .. Len(w) : w[k] \in Nat
  BY LenProperties, ElementOfSeq
<1>3. ASSUME NEW h \in 1 .. Len(w), w[h] < c
      PROVE  AnyBelow(w, c)
  <2> DEFINE T == {k \in 1 .. Len(w) : w[k] < c}
  <2>1. T \subseteq Nat /\ T # {}
    BY <1>2, <1>3, SMTT(60)
  <2>2. PICK m \in T : \A y \in T : m <= y
    <3> HIDE DEF T
    <3> QED BY <2>1, LeastNumber
  <2>3. m \in 1 .. Len(w) /\ w[m] < c /\ m \in 1 .. Len(w) + 1
    BY <1>2, <2>2
  <2>4. \A k \in 1 .. Len(w) : k < m => w[k] >= c
    <3> TAKE k \in 1 .. Len(w)
    <3> HAVE k < m
    <3>1. k \notin T
      BY <2>2, <2>3
    <3> QED BY <1>2, <3>1, SMTT(60)
  <2>5. b[m] = 0
    BY <1>1, <2>3, <2>4, NoBorrow
  <2>6. WrappingSub(w, c)[m] = (w[m] - c - b[m]) % 256
    BY <1>1, <2>3
  <2>7. w[m] \in Nat /\ w[m] < 128
    BY <1>2, <2>3
  <2>8. (w[m] - c - b[m]) % 256 >= 128
    BY <2>3, <2>5, <2>7
  <2> QED BY <2>3, <2>6, <2>7, <2>8, ZenonT(60) DEF AnyBelow
<1>4. ASSUME \A k \in 1 .. Len(w) : w[k] >= c, AnyBelow(w, c)
      PROVE  FALSE
  <2>1. PICK m \in 1 .. Len(w) : WrappingSub(w, c)[m] >= 128 /\ w[m] < 128
    BY <1>4 DEF AnyBelow
  <2>2. m \in 1 .. Len(w) + 1
    BY <1>2
  <2>3. b[m] = 0
    BY <1>1, <1>4, <2>2, NoBorrow
  <2>4. WrappingSub(w, c)[m] = (w[m] - c - b[m]) % 256
    BY <1>1
  <2>5. w[m] \in Nat /\ w[m] < 128 /\ w[m] >= c
    BY <1>2, <1>4, <2>1
  <2>6. (w[m] - c - b[m]) % 256 < 128
    BY <2>3, <2>5, SMTT(60)
  <2>7. (w[m] - c - b[m]) % 256 \in Nat
    BY <2>3, <2>5
  <2> QED BY <2>1, <2>4, <2>6, <2>7
<1>5. (\A k \in 1 .. Len(w) : w[k] >= c) \/ \E k \in 1 .. Len(w) : w[k] < c
  BY <1>2
<1>6. ~((\A k \in 1 .. Len(w) : w[k] >= c) /\ \E k \in 1 .. Len(w) : w[k] < c)
  BY <1>2
<1> QED BY <1>3, <1>4, <1>5, <1>6

LEMMA Powers ==
  2^0 = 1 /\ 2^1 = 2 /\ 2^2 = 4 /\ 2^3 = 8 /\ 2^4 = 16 /\ 2^5 = 32 /\ 2^6 = 64 /\ 2^7 = 128
OBVIOUS

(* Eight bits make a byte.                                                 *)
LEMMA ByteBits ==
  ASSUME NEW x \in Nat, x < 256
  PROVE  /\ \A j \in 0 .. 7 : Bit(x, j) \in {0, 1}
         /\ x = Bit(x, 0) + 2 * Bit(x, 1) + 4 * Bit(x, 2) + 8 * Bit(x, 3)
                + 16 * Bit(x, 4) + 32 * Bit(x, 5) + 64 * Bit(x, 6) + 128 * Bit(x, 7)
<1>1. /\ Bit(x, 0) = (x \div 1) % 2 /\ Bit(x, 1) = (x \div 2) % 2
      /\ Bit(x, 2) = (x \div 4) % 2 /\ Bit(x, 3) = (x \div 8) % 2
      /\ Bit(x, 4) = (x \div 16) % 2 /\ Bit(x, 5) = (x \div 32) % 2
      /\ Bit(x, 6) = (x \div 64) % 2 /\ Bit(x, 7) = (x \div 128) % 2
  BY Powers DEF Bit
<1>2. ASSUME NEW j \in 0 .. 7 PROVE Bit(x, j) \in {0, 1}
  <2>1. j = 0 \/ j = 1 \/ j = 2 \/ j = 3 \/ j = 4 \/ j = 5 \/ j = 6 \/ j = 7
    OBVIOUS
  <2> QED BY <1>1, <2>1
<1>3. x = ((x \div 1) % 2) + 2 * ((x \div 2) % 2) + 4 * ((x \div 4) % 2) + 8 * ((x \div 8) % 2)
          + 16 * ((x \div 16) % 2) + 32 * ((x \div 32) % 2) + 64 * ((x \div 64) % 2)
          + 128 * ((x \div 128) % 2)
  <2>1. x \div 1 = x /\ x = 2 * (x \div 2) + ((x \div 1) % 2)
    OBVIOUS
  <2>2. x \div 2 = 2 * (x \div 4) + ((x \div 2) % 2)
    OBVIOUS
  <2>3. x \div 4 = 2 * (x \div 8) + ((x \div 4) % 2)
    OBVIOUS
  <2>4. x \div 8 = 2 * (x \div 16) + ((x \div 8) % 2)
    OBVIOUS
  <2>5. x \div 16 = 2 * (x \div 32) + ((x \div 16) % 2)
    OBVIOUS
  <2>6. x \div 32 = 2 * (x \div 64) + ((x \div 32) % 2)
    OBVIOUS
  <2>7. x \div 64 = 2 * (x \div 128) + ((x \div 64) % 2)
    OBVIOUS
  <2>8. x \div 128 = (x \div 128) % 2
    OBVIOUS
  <2> QED BY <2>1, <2>2, <2>3, <2>4, <2>5, <2>6, <2>7, <2>8
<1> QED BY <1>1, <1>2, <1>3, ZenonT(60)

(* Exclusive or adds the bits that differ.                                 *)
Differ(x, y, j) == (Bit(x, j) + Bit(y, j)) % 2

LEMMA XorSum ==
  ASSUME NEW x \in Nat, x < 256, NEW y \in Nat, y < 256
  PROVE  Xor(x, y) = Differ(x, y, 0) + 2 * Differ(x, y, 1) + 4 * Differ(x, y, 2)
                     + 8 * Differ(x, y, 3) + 16 * Differ(x, y, 4) + 32 * Differ(x, y, 5)
                     + 64 * Differ(x, y, 6) + 128 * Differ(x, y, 7)
<1> DEFINE D(j) == Differ(x, y, j)
           T(k) == D(k - 1) * 2^(k - 1)
           Rule(f) == [k \in 0 .. 8 |-> IF k = 0 THEN 0 ELSE f[k - 1] + T(k)]
           s == [p \in (1 .. 8) \X Nat |-> p[2] + T(p[1])]
<1>1. \A j \in 0 .. 7 : D(j) \in {0, 1}
  <2> TAKE j \in 0 .. 7
  <2>1. Bit(x, j) \in {0, 1} /\ Bit(y, j) \in {0, 1}
    BY ByteBits
  <2>2. Bit(x, j) \in Nat /\ Bit(y, j) \in Nat
    BY <2>1
  <2> QED BY <2>2 DEF Differ
<1> HIDE DEF D
<1>2. /\ D(0) \in {0, 1} /\ D(1) \in {0, 1} /\ D(2) \in {0, 1} /\ D(3) \in {0, 1}
      /\ D(4) \in {0, 1} /\ D(5) \in {0, 1} /\ D(6) \in {0, 1} /\ D(7) \in {0, 1}
  BY <1>1
<1>3. /\ T(1) = D(0) /\ T(2) = 2 * D(1) /\ T(3) = 4 * D(2) /\ T(4) = 8 * D(3)
      /\ T(5) = 16 * D(4) /\ T(6) = 32 * D(5) /\ T(7) = 64 * D(6) /\ T(8) = 128 * D(7)
  <2>1. 1 - 1 = 0 /\ 2 - 1 = 1 /\ 3 - 1 = 2 /\ 4 - 1 = 3 /\ 5 - 1 = 4 /\ 6 - 1 = 5 /\ 7 - 1 = 6 /\ 8 - 1 = 7
    OBVIOUS
  <2>2. /\ T(1) = D(0) * 2^0 /\ T(2) = D(1) * 2^1 /\ T(3) = D(2) * 2^2 /\ T(4) = D(3) * 2^3
        /\ T(5) = D(4) * 2^4 /\ T(6) = D(5) * 2^5 /\ T(7) = D(6) * 2^6 /\ T(8) = D(7) * 2^7
    BY <2>1
  <2> HIDE DEF T
  <2> QED BY <1>2, <2>2, Powers
<1> HIDE DEF T
<1>12. StepOf(8, Nat, s)
  <2>1. ASSUME NEW k \in 1 .. 8 PROVE T(k) \in Nat
    <3>1. k = 1 \/ k = 2 \/ k = 3 \/ k = 4 \/ k = 5 \/ k = 6 \/ k = 7 \/ k = 8
      OBVIOUS
    <3>2. /\ T(1) \in Nat /\ T(2) \in Nat /\ T(3) \in Nat /\ T(4) \in Nat
          /\ T(5) \in Nat /\ T(6) \in Nat /\ T(7) \in Nat /\ T(8) \in Nat
      BY <1>2, <1>3
    <3> QED BY ONLY <3>1, <3>2, Zenon
  <2>2. \A k \in 1 .. 8 : \A v \in Nat : s[<<k, v>>] = v + T(k)
    OBVIOUS
  <2> HIDE DEF s
  <2> QED BY <2>1, <2>2 DEF StepOf
<1>4. PICK f : RunOf(8, Nat, 0, s, f)
  <2> HIDE DEF s
  <2> DEFINE m == 8
             z == 0
  <2>1. m \in Nat /\ z \in Nat
    OBVIOUS
  <2>2. StepOf(m, Nat, s)
    BY <1>12
  <2> HIDE DEF m, z
  <2>3. \E f : RunOf(m, Nat, z, s, f)
    BY ONLY <2>1, <2>2, Recursion
  <2> QED BY <2>3 DEF m, z
<1>5. f = Rule(f)
  <2>1. f \in [0 .. 8 -> Nat] /\ f[0] = 0 /\ \A k \in 1 .. 8 : f[k] = s[<<k, f[k - 1]>>]
    <3> HIDE DEF s
    <3> QED BY <1>4 DEF RunOf
  <2>2. \A k \in 1 .. 8 : f[k - 1] \in Nat /\ f[k] = f[k - 1] + T(k)
    <3> TAKE k \in 1 .. 8
    <3>1. k - 1 \in 0 .. 8
      OBVIOUS
    <3>2. f[k - 1] \in Nat /\ f[k] = s[<<k, f[k - 1]>>]
      <4> HIDE DEF s
      <4> QED BY <2>1, <3>1
    <3> QED BY <3>2
  <2> HIDE DEF s
  <2>3. \A k \in 0 .. 8 : f[k] = IF k = 0 THEN 0 ELSE f[k - 1] + T(k)
    <3> TAKE k \in 0 .. 8
    <3>1. k = 0 \/ (k \in 1 .. 8 /\ k # 0)
      OBVIOUS
    <3> QED BY <2>1, <2>2, <3>1
  <2> QED BY <2>1, <2>3
<1> DEFINE low == CHOOSE g : g = Rule(g)
<1>6. low = Rule(low)
  <2> HIDE DEF Rule
  <2> QED BY <1>5
<1>7. Xor(x, y) = low[8]
  BY DEF Xor, D, T, Differ
<1> HIDE DEF low
<1>8. \A k \in 0 .. 8 : low[k] = IF k = 0 THEN 0 ELSE low[k - 1] + T(k)
  BY <1>6
<1>9. /\ low[0] = 0 /\ low[1] = low[0] + T(1) /\ low[2] = low[1] + T(2) /\ low[3] = low[2] + T(3)
      /\ low[4] = low[3] + T(4) /\ low[5] = low[4] + T(5) /\ low[6] = low[5] + T(6)
      /\ low[7] = low[6] + T(7) /\ low[8] = low[7] + T(8)
  BY ONLY <1>8
<1>11. low[8] = D(0) + 2 * D(1) + 4 * D(2) + 8 * D(3) + 16 * D(4) + 32 * D(5) + 64 * D(6) + 128 * D(7)
  BY ONLY <1>2, <1>3, <1>9
<1> QED BY <1>7, <1>11 DEF D

LEMMA XorByte ==
  ASSUME NEW x \in Nat, x < 256, NEW y \in Nat, y < 256
  PROVE  Xor(x, y) \in Nat /\ Xor(x, y) < 256 /\ (Xor(x, y) = 0 <=> x = y)
<1> DEFINE d(j) == Differ(x, y, j)
           a(j) == Bit(x, j)
           b(j) == Bit(y, j)
<1>1. /\ \A j \in 0 .. 7 : a(j) \in {0, 1} /\ b(j) \in {0, 1}
      /\ x = a(0) + 2 * a(1) + 4 * a(2) + 8 * a(3) + 16 * a(4) + 32 * a(5) + 64 * a(6) + 128 * a(7)
      /\ y = b(0) + 2 * b(1) + 4 * b(2) + 8 * b(3) + 16 * b(4) + 32 * b(5) + 64 * b(6) + 128 * b(7)
  BY ByteBits
<1>2. \A j \in 0 .. 7 : d(j) = (a(j) + b(j)) % 2
  BY DEF Differ
<1>3. Xor(x, y) = d(0) + 2 * d(1) + 4 * d(2) + 8 * d(3) + 16 * d(4) + 32 * d(5) + 64 * d(6) + 128 * d(7)
  BY XorSum
<1> HIDE DEF a, b, d
<1>4. \A j \in 0 .. 7 : d(j) \in {0, 1} /\ (d(j) = 0 <=> a(j) = b(j))
  <2> TAKE j \in 0 .. 7
  <2>1. a(j) \in {0, 1} /\ b(j) \in {0, 1} /\ d(j) = (a(j) + b(j)) % 2
    BY <1>1, <1>2
  <2> QED BY <2>1
<1>5. {0, 1, 2, 3, 4, 5, 6, 7} \subseteq 0 .. 7
  OBVIOUS
<1>6. /\ d(0) \in {0, 1} /\ d(1) \in {0, 1} /\ d(2) \in {0, 1} /\ d(3) \in {0, 1}
      /\ d(4) \in {0, 1} /\ d(5) \in {0, 1} /\ d(6) \in {0, 1} /\ d(7) \in {0, 1}
  BY <1>4, <1>5
<1>7. /\ d(0) = 0 <=> a(0) = b(0)
      /\ d(1) = 0 <=> a(1) = b(1)
      /\ d(2) = 0 <=> a(2) = b(2)
      /\ d(3) = 0 <=> a(3) = b(3)
      /\ d(4) = 0 <=> a(4) = b(4)
      /\ d(5) = 0 <=> a(5) = b(5)
      /\ d(6) = 0 <=> a(6) = b(6)
      /\ d(7) = 0 <=> a(7) = b(7)
  BY <1>4, <1>5
<1>8. /\ a(0) \in {0, 1} /\ a(1) \in {0, 1} /\ a(2) \in {0, 1} /\ a(3) \in {0, 1}
      /\ a(4) \in {0, 1} /\ a(5) \in {0, 1} /\ a(6) \in {0, 1} /\ a(7) \in {0, 1}
      /\ b(0) \in {0, 1} /\ b(1) \in {0, 1} /\ b(2) \in {0, 1} /\ b(3) \in {0, 1}
      /\ b(4) \in {0, 1} /\ b(5) \in {0, 1} /\ b(6) \in {0, 1} /\ b(7) \in {0, 1}
  BY <1>1, <1>5
<1>9. Xor(x, y) \in Nat /\ Xor(x, y) < 256
  BY ONLY <1>3, <1>6
<1>10. ASSUME x = y PROVE Xor(x, y) = 0
  <2>1. \A j \in 0 .. 7 : a(j) = b(j)
    BY <1>10 DEF a, b
  <2>2. \A j \in 0 .. 7 : d(j) = 0
    BY <1>4, <2>1
  <2>3. /\ d(0) = 0 /\ d(1) = 0 /\ d(2) = 0 /\ d(3) = 0 /\ d(4) = 0 /\ d(5) = 0 /\ d(6) = 0
        /\ d(7) = 0
    BY <1>5, <2>2
  <2> QED BY ONLY <1>3, <2>3
<1>11. ASSUME Xor(x, y) = 0 PROVE x = y
  <2>1. /\ d(0) = 0 /\ d(1) = 0 /\ d(2) = 0 /\ d(3) = 0 /\ d(4) = 0 /\ d(5) = 0 /\ d(6) = 0
        /\ d(7) = 0
    BY ONLY <1>3, <1>6, <1>11
  <2>2. /\ a(0) = b(0) /\ a(1) = b(1) /\ a(2) = b(2) /\ a(3) = b(3) /\ a(4) = b(4)
        /\ a(5) = b(5) /\ a(6) = b(6) /\ a(7) = b(7)
    BY ONLY <1>7, <2>1
  <2> QED BY ONLY <1>1, <2>2
<1> QED BY <1>9, <1>10, <1>11

(* The bytes that are escaped are the ones the word test looks for.        *)
LEMMA SpecialBytes ==
  ASSUME NEW c \in Nat, c < 256
  PROVE  Special(c) <=> c < 32 \/ c = 34 \/ c = 92
<1>1. CASE c \in {8, 9, 10, 12, 13}
  BY <1>1 DEF Special, EscapeLetter
<1>2. CASE c \in {34, 92}
  BY <1>2 DEF Special, EscapeLetter
<1>3. CASE c < 32 /\ c \notin {8, 9, 10, 12, 13}
  <2>1. c \in 0 .. 31
    BY <1>3
  <2>2. EscapeLetter(c) = 117
    BY <1>3, <2>1 DEF EscapeLetter
  <2> QED BY <1>3, <2>2 DEF Special
<1>4. CASE c >= 32 /\ c \notin {34, 92}
  <2>1. c # 8 /\ c # 9 /\ c # 10 /\ c # 12 /\ c # 13 /\ c \notin 0 .. 31
    BY <1>4
  <2>2. EscapeLetter(c) = 0
    BY <1>4, <2>1 DEF EscapeLetter
  <2> QED BY <1>4, <2>2 DEF Special
<1> QED BY <1>1, <1>2, <1>3, <1>4

Xored(w, q) == [k \in 1 .. Len(w) |-> Xor(w[k], q)]

(* w ^ q is below one exactly where a byte is q.                           *)
LEMMA AnyEqual ==
  ASSUME NEW w \in Seq(Nat), \A k \in 1 .. Len(w) : w[k] < 256, NEW q \in Nat, q < 256
  PROVE  AnyBelow(Xored(w, q), 1) <=> \E k \in 1 .. Len(w) : w[k] = q
<1> DEFINE x == Xored(w, q)
<1>1. \A k \in 1 .. Len(w) :
        Xor(w[k], q) \in Nat /\ Xor(w[k], q) < 256 /\ (Xor(w[k], q) = 0 <=> w[k] = q)
  <2> TAKE k \in 1 .. Len(w)
  <2>1. w[k] \in Nat /\ w[k] < 256
    BY ElementOfSeq
  <2> QED BY <2>1, XorByte, ZenonT(60)
<1>2. Len(w) \in Nat
  BY LenProperties
<1>3. x \in Seq(Nat) /\ Len(x) = Len(w)
  BY <1>1, <1>2 DEF Xored
<1>4. \A k \in 1 .. Len(w) : x[k] = Xor(w[k], q)
  BY DEF Xored
<1> HIDE DEF x
<1>5. \A k \in 1 .. Len(x) : x[k] < 256
  BY <1>1, <1>3, <1>4
<1>6. AnyBelow(x, 1) <=> \E k \in 1 .. Len(x) : x[k] < 1
  <2> DEFINE one == 1
  <2>1. one \in Nat /\ one <= 128
    OBVIOUS
  <2> HIDE DEF one
  <2>2. AnyBelow(x, one) <=> \E k \in 1 .. Len(x) : x[k] < one
    BY <1>3, <1>5, <2>1, AnyBelowExact
  <2> QED BY <2>2 DEF one
<1>7. \A k \in 1 .. Len(w) : x[k] < 1 <=> w[k] = q
  <2> TAKE k \in 1 .. Len(w)
  <2>1. x[k] \in Nat /\ (x[k] = 0 <=> w[k] = q)
    BY <1>1, <1>4
  <2>2. x[k] < 1 <=> x[k] = 0
    BY <2>1
  <2> QED BY <2>1, <2>2
<1>8. AnyBelow(x, 1) <=> \E k \in 1 .. Len(w) : w[k] = q
  BY <1>3, <1>6, <1>7
<1> QED BY <1>8 DEF x

(* The word test has no false answer, whatever borrows run through it.     *)
LEMMA HasSpecialExact ==
  ASSUME NEW w \in Seq(Nat), \A k \in 1 .. Len(w) : w[k] < 256
  PROVE  HasSpecial(w) <=> \E k \in 1 .. Len(w) : Special(w[k])
<1>1. AnyBelow(w, 32) <=> \E k \in 1 .. Len(w) : w[k] < 32
  <2> DEFINE c == 32
  <2>1. c \in Nat /\ c <= 128
    OBVIOUS
  <2> HIDE DEF c
  <2>2. AnyBelow(w, c) <=> \E k \in 1 .. Len(w) : w[k] < c
    BY <2>1, AnyBelowExact
  <2> QED BY <2>2 DEF c
<1>2. \A q \in {34, 92} : AnyBelow(Xored(w, q), 1) <=> \E k \in 1 .. Len(w) : w[k] = q
  <2> TAKE q \in {34, 92}
  <2>1. q \in Nat /\ q < 256
    OBVIOUS
  <2> QED BY <2>1, AnyEqual
<1>3. \A k \in 1 .. Len(w) : Special(w[k]) <=> w[k] < 32 \/ w[k] = 34 \/ w[k] = 92
  <2> TAKE k \in 1 .. Len(w)
  <2>1. w[k] \in Nat
    BY ElementOfSeq
  <2> QED BY <2>1, SpecialBytes
<1>4. HasSpecial(w) <=> \/ \E k \in 1 .. Len(w) : w[k] < 32
                        \/ \E q \in {34, 92} : \E k \in 1 .. Len(w) : w[k] = q
  BY <1>1, <1>2 DEF HasSpecial, Xored
<1> QED BY <1>3, <1>4

-----------------------------------------------------------------------------
(* The invariant. *)

Working == {"copy", "hit", "ucs", "row"}

(* The bytes a writer has still to store when it has `more` units to read: *)
(* the closing quote, and the vector that passes the text, included.       *)
Need(p, w, more) ==
  CASE p \in {"copy", "hit"} -> more + 1 + Wide
    [] p = "ucs" -> more * w + 1
    [] p = "row" -> more * (Digits + 1) + 1

Content(p, w, us) ==
  CASE p \in {"copy", "hit"} -> us \in Seq(Byte)
    [] p = "ucs" -> us \in Seq(Units(w))
    [] p = "row" -> us \in Seq(IntSizes)

WorkInv ==
  pc \in Working =>
    /\ Content(pc, width, units)
    /\ buf.len <= dst /\ dst + Need(pc, width, n - i) <= Cap(buf)

CallInv ==
  /\ pc # "idle" => Owned(buf) /\ result = Null
  /\ pc = "idle" => /\ buf.obj = "none" /\ buf.live = IF result # Null THEN 1 ELSE 0
                    /\ start = Null
                    /\ calls < MaxCalls => (exc <=> result = Null)
  /\ pc = "failing" => exc
  /\ start # Null => start <= buf.len

Inv == TypeOK /\ WorkInv /\ CallInv /\ fits

(* The text the call has written so far stays, and may grow.               *)
TextGrows ==
  /\ pc # "idle" /\ pc' # "idle" /\ buf.len <= buf'.len /\ Agree(buf', buf, buf.len)
  /\ UNCHANGED <<start, result>>

LEMMA Parts ==
  ASSUME Inv
  PROVE  /\ n \in Nat /\ i \in 0 .. n /\ n - i \in Nat /\ width \in 2 .. 4 /\ dst \in Nat
         /\ buf \in Buffer /\ buf.len <= Cap(buf) /\ buf.len \in Nat /\ Cap(buf) \in Nat
         /\ pc # "idle" => Good(buf)
<1>1. /\ units \in Seq(Nat) /\ buf \in Buffer /\ buf.len <= Cap(buf)
      /\ i \in 0 .. n /\ width \in 2 .. 4 /\ dst \in Nat
  BY DEF Inv, TypeOK
<1>2. n \in Nat
  BY <1>1, LenProperties DEF n
<1>3. n - i \in Nat
  BY <1>1, <1>2
<1>4. buf.len \in Nat /\ Cap(buf) \in Nat
  BY <1>1, BufferFields
<1> QED BY <1>1, <1>2, <1>3, <1>4 DEF Inv, CallInv, Good, Sized

(* A step inside a writer.                                                 *)
LEMMA WriterStep ==
  ASSUME Inv, pc \in Working, Good(buf'), buf.len <= buf'.len, Agree(buf', buf, buf.len),
         pc' = pc \/ {pc, pc'} \subseteq {"copy", "hit"},
         i' \in 0 .. n, dst' \in Nat, buf'.len <= dst',
         dst' + Need(pc', width, n - i') <= Cap(buf'), fits',
         UNCHANGED <<hint, units, width, start, result, exc, left, calls>>
  PROVE  Inv' /\ TextGrows
<1>1. pc' \in PCs /\ pc' \in Working /\ n' = n
  BY DEF Working, PCs, n
<1>2. buf' \in Buffer /\ buf'.len <= Cap(buf') /\ buf'.len \in Nat /\ buf.len \in Nat
  BY BufferFields, Parts DEF Good, Sized
<1>3. TypeOK'
  BY <1>1, <1>2 DEF Inv, TypeOK
<1>4. Content(pc', width', units')
  BY DEF Inv, WorkInv, Content
<1>5. WorkInv'
  BY <1>1, <1>4 DEF WorkInv
<1>6. CallInv'
  <2>1. start # Null => start \in Nat /\ start <= buf.len
    BY DEF Inv, CallInv, TypeOK
  <2> QED BY <1>1, <1>2, <2>1 DEF Inv, CallInv, Working, Good
<1> QED BY <1>1, <1>3, <1>5, <1>6 DEF Inv, TextGrows, Working

(* Room for one store of s at dst, k units on.                             *)
LEMMA StoreStep ==
  ASSUME Inv, pc \in Working, NEW s \in Seq(Bytes), NEW k \in 0 .. n - i, NEW d \in 0 .. Len(s),
         dst + Len(s) <= Cap(buf),
         pc' = pc \/ {pc, pc'} \subseteq {"copy", "hit"},
         d + Need(pc', width, n - (i + k)) <= Need(pc, width, n - i),
         Need(pc', width, n - (i + k)) \in Nat, Need(pc, width, n - i) \in Nat,
         buf' = Store(buf, dst, s), fits' = (fits /\ Fits(buf, dst, s)),
         i' = i + k, dst' = dst + d,
         UNCHANGED <<hint, units, width, start, result, exc, left, calls>>
  PROVE  Inv' /\ TextGrows
<1>1. /\ Good(buf) /\ dst \in Nat /\ buf.len \in Nat /\ Cap(buf) \in Nat
      /\ n \in Nat /\ i \in 0 .. n /\ Len(s) \in Nat /\ d \in Nat
  <2>1. Len(s) \in Nat
    BY LenProperties
  <2>2. d \in Nat
    BY <2>1
  <2>3. pc # "idle"
    BY DEF Working
  <2> QED BY <2>1, <2>2, <2>3, Parts
<1>2. buf.len <= dst /\ dst + Need(pc, width, n - i) <= Cap(buf) /\ fits
  BY DEF Inv, WorkInv
<1>3. /\ Good(buf') /\ Cap(buf') = Cap(buf) /\ buf'.len = buf.len /\ Agree(buf', buf, buf.len)
  BY <1>1, <1>2, StoreGood
<1>4. fits'
  BY <1>2 DEF Fits
<1>5. i' \in 0 .. n /\ dst' \in Nat /\ buf'.len <= dst' /\ buf.len <= buf'.len
  BY <1>1, <1>2, <1>3, SMTT(60)
<1>6. dst' + Need(pc', width, n - i') <= Cap(buf')
  BY <1>1, <1>2, <1>3
<1> QED BY <1>3, <1>4, <1>5, <1>6, WriterStep

LEMMA Needs ==
  ASSUME NEW w, NEW more \in Nat
  PROVE  /\ \A p \in {"copy", "hit"} : Need(p, w, more) = more + 1 + Wide
         /\ Need("ucs", w, more) = more * w + 1
         /\ Need("row", w, more) = more * 21 + 1
  BY DEF Need, Digits

(* What is left of a text that is copied.                                  *)
LEMMA CopyParts ==
  ASSUME Inv, pc \in {"copy", "hit"}
  PROVE  /\ pc \in Working /\ units \in Seq(Byte) /\ Good(buf)
         /\ n \in Nat /\ i \in 0 .. n /\ dst \in Nat /\ Cap(buf) \in Nat
         /\ Wide \in Nat /\ Wide >= 4 /\ Word \in 1 .. Wide
         /\ buf.len <= dst /\ dst + (n - i) + 1 + Wide <= Cap(buf)
         /\ \A k \in 1 .. n : units[k] \in Byte
<1>1. /\ pc \in Working /\ pc # "idle" /\ Wide \in Nat /\ Wide >= 4 /\ Word \in 1 .. Wide
  BY WritersAssumption DEF Working
<1>2. /\ Good(buf) /\ n \in Nat /\ i \in 0 .. n /\ dst \in Nat /\ Cap(buf) \in Nat /\ n - i \in Nat
  BY <1>1, Parts
<1>3. Content(pc, width, units) /\ buf.len <= dst /\ dst + Need(pc, width, n - i) <= Cap(buf)
  BY <1>1 DEF Inv, WorkInv
<1>4. units \in Seq(Byte)
  BY <1>3 DEF Content
<1>5. \A k \in 1 .. n : units[k] \in Byte
  BY <1>4, ElementOfSeq DEF n
<1>6. dst + (n - i) + 1 + Wide <= Cap(buf)
  BY <1>1, <1>2, <1>3, Needs
<1> QED BY <1>1, <1>2, <1>3, <1>4, <1>5, <1>6

(* The bytes a vector or a word store copies.                              *)
LEMMA CopyPiece ==
  ASSUME Inv, pc \in {"copy", "hit"}, NEW k \in Nat, i + k <= n
  PROVE  /\ SubSeq(units, i + 1, i + k) \in Seq(Bytes) /\ Len(SubSeq(units, i + 1, i + k)) = k
         /\ \A h \in 1 .. k : SubSeq(units, i + 1, i + k)[h] = units[i + h]
<1>1. n \in Nat /\ i \in Int /\ i \in 0 .. n /\ i + 1 \in Int /\ i + k \in Int
  BY CopyParts
<1>2. \A h \in i + 1 .. i + k : units[h] \in Bytes
  <2>1. \A h \in i + 1 .. i + k : h \in 1 .. n
    BY <1>1
  <2>2. \A h \in 1 .. n : units[h] \in Byte
    BY CopyParts
  <2> QED BY <2>1, <2>2 DEF Bytes
<1>3. /\ SubSeq(units, i + 1, i + k) \in Seq(Bytes)
      /\ Len(SubSeq(units, i + 1, i + k)) = IF i + 1 <= i + k THEN i + k - (i + 1) + 1 ELSE 0
      /\ \A h \in 1 .. i + k - (i + 1) + 1 : SubSeq(units, i + 1, i + k)[h] = units[i + 1 + h - 1]
  BY ONLY <1>1, <1>2, SubSeqProperties
<1>4. Len(SubSeq(units, i + 1, i + k)) = k
  BY <1>1, <1>3
<1>5. i + k - (i + 1) + 1 = k /\ \A h \in 1 .. k : i + 1 + h - 1 = i + h
  BY <1>1
<1> QED BY <1>3, <1>4, <1>5

LEMMA CopyWideKeeps ==
  ASSUME Inv, CopyWide
  PROVE  Inv' /\ TextGrows
<1> DEFINE v == SubSeq(units, i + 1, i + Wide)
           hits == {k \in 1 .. Wide : Special(v[k])}
           k == IF hits = {} THEN Wide ELSE (CHOOSE h \in hits : \A g \in hits : h <= g) - 1
<1>1. /\ pc = "copy" /\ i + Wide <= n /\ buf' = Store(buf, dst, v) /\ fits' = (fits /\ Fits(buf, dst, v))
      /\ i' = i + k /\ dst' = dst + k /\ pc' \in {"copy", "hit"}
      /\ UNCHANGED <<hint, units, width, start, result, exc, left, calls>>
  BY DEF CopyWide
<1>2. /\ pc \in Working /\ n \in Nat /\ i \in 0 .. n /\ dst \in Nat /\ Cap(buf) \in Nat
      /\ Wide \in Nat /\ dst + (n - i) + 1 + Wide <= Cap(buf)
  BY <1>1, CopyParts
<1>3. v \in Seq(Bytes) /\ Len(v) = Wide
  BY <1>1, <1>2, CopyPiece
<1>4. k \in 0 .. Wide
  <2>1. CASE hits = {}
    <3>1. k = Wide
      BY <2>1
    <3> HIDE DEF k
    <3>2. Wide \in Nat
      BY <1>2
    <3> QED BY ONLY <3>1, <3>2
  <2>2. CASE hits # {}
    <3>1. hits \in SUBSET Nat /\ hits \subseteq 1 .. Wide
      BY <1>2
    <3> HIDE DEF hits
    <3>2. PICK h \in hits : \A g \in hits : h <= g
      BY <2>2, <3>1, LeastNumber
    <3>3. (CHOOSE x \in hits : \A g \in hits : x <= g) \in hits
      BY <3>2
    <3>4. k = (CHOOSE x \in hits : \A g \in hits : x <= g) - 1
      BY <2>2
    <3>5. \E m \in hits : k = m - 1
      BY <3>3, <3>4
    <3> HIDE DEF k
    <3>6. PICK m \in hits : k = m - 1
      BY <3>5
    <3>7. m \in 1 .. Wide
      BY <3>1
    <3>8. Wide \in Nat
      BY <1>2
    <3> QED BY ONLY <3>6, <3>7, <3>8
  <2>3. hits = {} \/ hits # {}
    OBVIOUS
  <2> HIDE DEF k, hits
  <2> QED BY <2>1, <2>2, <2>3
<1> HIDE DEF k, v, hits
<1>5. n - i \in Nat /\ n - (i + k) \in Nat /\ k \in 0 .. n - i
  BY <1>1, <1>2, <1>4
<1>6. Need(pc', width, n - (i + k)) = n - (i + k) + 1 + Wide /\ Need(pc, width, n - i) = n - i + 1 + Wide
  BY <1>1, <1>5, Needs
<1>7. /\ k \in 0 .. Len(v) /\ dst + Len(v) <= Cap(buf)
      /\ k + Need(pc', width, n - (i + k)) <= Need(pc, width, n - i)
      /\ Need(pc', width, n - (i + k)) \in Nat /\ Need(pc, width, n - i) \in Nat
  BY <1>1, <1>2, <1>3, <1>4, <1>5, <1>6
<1>8. {pc, pc'} \subseteq {"copy", "hit"}
  BY <1>1
<1> QED BY <1>1, <1>2, <1>3, <1>5, <1>7, <1>8, StoreStep

LEMMA CopyRestKeeps ==
  ASSUME Inv, CopyRest
  PROVE  Inv' /\ TextGrows
<1> DEFINE k == IF PlainWord THEN Word ELSE 1
           v == SubSeq(units, i + 1, i + k)
<1>1. /\ pc = "copy" /\ GoesOn /\ buf' = Store(buf, dst, v) /\ fits' = (fits /\ Fits(buf, dst, v))
      /\ i' = i + k /\ dst' = dst + k
      /\ UNCHANGED <<pc, hint, units, width, start, result, exc, left, calls>>
  BY DEF CopyRest
<1>2. /\ pc \in Working /\ n \in Nat /\ i \in 0 .. n /\ dst \in Nat /\ Cap(buf) \in Nat
      /\ Wide \in Nat /\ Word \in 1 .. Wide /\ dst + (n - i) + 1 + Wide <= Cap(buf)
  BY <1>1, CopyParts
<1>3. k \in Nat /\ i + k <= n
  BY <1>1, <1>2 DEF GoesOn, PlainWord
<1>4. v \in Seq(Bytes) /\ Len(v) = k
  BY <1>1, <1>3, CopyPiece
<1> HIDE DEF k, v
<1>5. n - i \in Nat /\ n - (i + k) \in Nat /\ k \in 0 .. n - i
  BY <1>2, <1>3
<1>6. Need(pc', width, n - (i + k)) = n - (i + k) + 1 + Wide /\ Need(pc, width, n - i) = n - i + 1 + Wide
  BY <1>1, <1>5, Needs
<1>7. /\ k \in 0 .. Len(v) /\ dst + Len(v) <= Cap(buf)
      /\ k + Need(pc', width, n - (i + k)) <= Need(pc, width, n - i)
      /\ Need(pc', width, n - (i + k)) \in Nat /\ Need(pc, width, n - i) \in Nat
  BY <1>2, <1>3, <1>4, <1>5, <1>6
<1> QED BY <1>1, <1>2, <1>4, <1>5, <1>7, StoreStep

LEMMA CopyStopsKeeps ==
  ASSUME Inv, CopyStops
  PROVE  Inv' /\ TextGrows
<1>1. /\ pc = "copy" /\ pc' = "hit"
      /\ UNCHANGED <<buf, hint, units, width, i, dst, start, result, exc, fits, left, calls>>
  BY DEF CopyStops
<1>2. /\ pc \in Working /\ Good(buf) /\ n \in Nat /\ i \in 0 .. n /\ dst \in Nat /\ buf.len <= dst
      /\ dst + (n - i) + 1 + Wide <= Cap(buf) /\ Wide \in Nat
  BY <1>1, CopyParts
<1>3. /\ Good(buf') /\ buf.len <= buf'.len /\ Agree(buf', buf, buf.len) /\ buf'.len <= dst' /\ fits'
  BY <1>1, <1>2, Parts DEF Agree, Inv
<1>4. n - i \in Nat /\ n - i' = n - i
  BY <1>1, <1>2
<1>5. dst' + Need(pc', width, n - i') <= Cap(buf')
  BY <1>1, <1>2, <1>4, Needs
<1> QED BY <1>1, <1>2, <1>3, <1>5, WriterStep

(* A store at the end of the text and what a reserve makes of it: Escape.  *)
LEMMA EscapeKeeps ==
  ASSUME Inv, Escape
  PROVE  Inv' /\ TextGrows
<1> DEFINE e == PutEscape(units[i + 1])
           w == dst + Len(e)
           b == SetLen(Store(buf, dst, e), w)
<1>1. /\ pc = "hit" /\ i < n /\ buf' \in Reserve(b, RestRoom(n - (i + 1)))
      /\ fits' = (fits /\ Fits(buf, dst, e)) /\ dst' = w /\ i' = i + 1 /\ pc' = "copy"
      /\ UNCHANGED <<hint, units, width, start, result, exc, left, calls>>
  BY DEF Escape
<1>2. /\ pc \in Working /\ Good(buf) /\ n \in Nat /\ i \in 0 .. n /\ dst \in Nat /\ Cap(buf) \in Nat
      /\ Wide \in Nat /\ Wide >= 4 /\ buf.len <= dst /\ dst + (n - i) + 1 + Wide <= Cap(buf)
      /\ \A k \in 1 .. n : units[k] \in Byte
  BY <1>1, CopyParts
<1>3. e \in Seq(Bytes) /\ Len(e) \in Nat /\ Len(e) >= 2 /\ Len(e) <= 6
  <2>1. units[i + 1] \in Byte
    BY <1>1, <1>2
  <2> QED BY <2>1, EscapeBytes
<1> HIDE DEF e
<1>4. /\ w \in Nat /\ w <= Cap(buf) /\ n - (i + 1) \in Nat /\ buf.len <= w
      /\ RestRoom(n - (i + 1)) = n - (i + 1) + 7 + Wide
      /\ buf.len \in Nat
  <2>1. buf.len \in Nat
    BY Parts
  <2>2. n - (i + 1) \in Nat
    BY <1>1, <1>2
  <2>3. w \in Nat /\ w <= Cap(buf) /\ buf.len <= w
    BY <1>1, <1>2, <1>3, <2>1
  <2>4. RestRoom(n - (i + 1)) = n - (i + 1) + 7 + Wide
    BY <1>2, <2>2 DEF RestRoom
  <2> QED BY <2>1, <2>2, <2>3, <2>4
<1>5. /\ Good(Store(buf, dst, e)) /\ Cap(Store(buf, dst, e)) = Cap(buf)
      /\ Agree(Store(buf, dst, e), buf, buf.len)
  BY <1>2, <1>3, StoreGood
<1>6. Good(b) /\ b.len = w /\ b.mem = Store(buf, dst, e).mem
  BY <1>4, <1>5, SetLenGood, SetLenBuffer DEF Good, Sized
<1>7. Agree(b, buf, buf.len)
  BY <1>5, <1>6 DEF Agree
<1> HIDE DEF b
<1>8. Roomy(b, buf', RestRoom(n - (i + 1)))
  <2>1. RestRoom(n - (i + 1)) \in Nat
    BY <1>2, <1>4
  <2> QED BY <1>1, <1>6, <2>1, ReserveRoom
<1>9. /\ Good(buf') /\ buf'.len = w /\ Cap(buf') - w >= n - (i + 1) + 7 + Wide
      /\ Cap(buf') \in Nat
  BY <1>4, <1>6, <1>8, BufferFields DEF Roomy, Good, Sized
<1>10. Agree(buf', buf, buf.len)
  <2>1. \A j \in 1 .. buf.len : j \in 1 .. w
    BY <1>4
  <2> QED BY <1>6, <1>7, <1>8, <2>1 DEF Agree, Roomy
<1>11. dst' + Need(pc', width, n - i') <= Cap(buf')
  <2>1. Need(pc', width, n - i') = n - (i + 1) + 1 + Wide
    BY <1>1, <1>4, Needs
  <2> QED BY <1>1, <1>2, <1>4, <1>9, <2>1
<1>12. fits'
  BY <1>1, <1>4 DEF Inv, Fits
<1> HIDE DEF w
<1>13. /\ i' \in 0 .. n /\ dst' \in Nat /\ buf'.len <= dst' /\ buf.len <= buf'.len
       /\ {pc, pc'} \subseteq {"copy", "hit"}
  BY <1>1, <1>2, <1>4, <1>9
<1> QED BY <1>1, <1>2, <1>9, <1>10, <1>11, <1>12, <1>13, WriterStep

-----------------------------------------------------------------------------
(* Texts whose units are not bytes. *)

LEMMA UcsParts ==
  ASSUME Inv, pc = "ucs"
  PROVE  /\ pc \in Working /\ Good(buf) /\ n \in Nat /\ i \in 0 .. n /\ dst \in Nat /\ Cap(buf) \in Nat
         /\ width \in 2 .. 4 /\ buf.len <= dst /\ buf.len \in Nat
         /\ dst + (n - i) * width + 1 <= Cap(buf)
         /\ (n - i) * width \in Nat
         /\ \A k \in 1 .. n : units[k] \in Units(width)
<1>1. pc \in Working /\ pc # "idle"
  BY DEF Working
<1>2. /\ Good(buf) /\ n \in Nat /\ i \in 0 .. n /\ dst \in Nat /\ Cap(buf) \in Nat /\ n - i \in Nat
      /\ width \in 2 .. 4 /\ buf.len \in Nat
  BY <1>1, Parts
<1>3. Content(pc, width, units) /\ buf.len <= dst /\ dst + Need(pc, width, n - i) <= Cap(buf)
  BY <1>1 DEF Inv, WorkInv
<1>4. \A k \in 1 .. n : units[k] \in Units(width)
  BY <1>3, ElementOfSeq DEF n, Content
<1>5. (n - i) * width \in Nat
  <2>1. width = 2 \/ width = 3 \/ width = 4
    BY <1>2
  <2> QED BY <1>2, <2>1
<1>6. Need(pc, width, n - i) = (n - i) * width + 1
  BY <1>2, Needs
<1>7. dst + (n - i) * width + 1 <= Cap(buf)
  BY <1>2, <1>3, <1>5, <1>6
<1> QED BY <1>1, <1>2, <1>3, <1>4, <1>5, <1>7

(* One unit takes its share of the room.                                   *)
LEMMA Share ==
  ASSUME NEW w \in 2 .. 4, NEW m \in Nat, m > 0
  PROVE  (m - 1) * w \in Nat /\ (m - 1) * w + w = m * w
<1>1. w = 2 \/ w = 3 \/ w = 4
  OBVIOUS
<1>2. m - 1 \in Nat
  OBVIOUS
<1> QED BY <1>1, <1>2

LEMMA UcsPlainKeeps ==
  ASSUME Inv, UcsPlain
  PROVE  Inv' /\ TextGrows
<1> DEFINE s == Utf8(units[i + 1])
<1>1. /\ pc = "ucs" /\ i < n /\ buf' = Store(buf, dst, s) /\ fits' = (fits /\ Fits(buf, dst, s))
      /\ dst' = dst + Len(s) /\ i' = i + 1
      /\ UNCHANGED <<pc, hint, units, width, start, result, exc, left, calls>>
  BY DEF UcsPlain
<1>2. /\ pc \in Working /\ n \in Nat /\ i \in 0 .. n /\ dst \in Nat /\ Cap(buf) \in Nat
      /\ width \in 2 .. 4 /\ dst + (n - i) * width + 1 <= Cap(buf)
      /\ \A k \in 1 .. n : units[k] \in Units(width)
  BY <1>1, UcsParts
<1>3. s \in Seq(Bytes) /\ Len(s) \in 1 .. width
  <2>1. units[i + 1] \in Units(width)
    BY <1>1, <1>2
  <2> QED BY <1>2, <2>1, UnitBytes
<1> HIDE DEF s
<1>4. n - i \in Nat /\ n - i > 0 /\ n - (i + 1) \in Nat /\ n - (i + 1) = n - i - 1 /\ 1 \in 0 .. n - i
  BY <1>1, <1>2
<1>5. (n - (i + 1)) * width \in Nat /\ (n - (i + 1)) * width + width = (n - i) * width
  BY <1>2, <1>4, Share
<1>6. /\ Need(pc', width, n - (i + 1)) = (n - (i + 1)) * width + 1
      /\ Need(pc, width, n - i) = (n - i) * width + 1
  BY <1>1, <1>4, Needs
<1>7. (n - i) * width \in Nat
  BY <1>1, UcsParts
<1>8. /\ Len(s) \in 0 .. Len(s) /\ dst + Len(s) <= Cap(buf)
      /\ Len(s) + Need(pc', width, n - (i + 1)) <= Need(pc, width, n - i)
      /\ Need(pc', width, n - (i + 1)) \in Nat /\ Need(pc, width, n - i) \in Nat
  BY <1>2, <1>3, <1>5, <1>6, <1>7
<1> QED BY <1>1, <1>2, <1>3, <1>4, <1>8, StoreStep

LEMMA UcsEscapeKeeps ==
  ASSUME Inv, UcsEscape
  PROVE  Inv' /\ TextGrows
<1> DEFINE e == PutEscape(units[i + 1])
           a == SetLen(buf, dst)
           r == UcsRoom(n - i)
<1>1. /\ pc = "ucs" /\ i < n /\ Special(units[i + 1])
      /\ \E b \in Reserve(a, r) : /\ buf' = Store(b, dst, e)
                                  /\ fits' = (fits /\ Fits(b, dst, e)) /\ dst' = dst + Len(e)
      /\ i' = i + 1
      /\ UNCHANGED <<pc, hint, units, width, start, result, exc, left, calls>>
  BY DEF UcsEscape
<1>2. /\ pc \in Working /\ Good(buf) /\ n \in Nat /\ i \in 0 .. n /\ dst \in Nat /\ Cap(buf) \in Nat
      /\ width \in 2 .. 4 /\ buf.len <= dst /\ buf.len \in Nat
      /\ dst + (n - i) * width + 1 <= Cap(buf) /\ (n - i) * width \in Nat
      /\ \A k \in 1 .. n : units[k] \in Units(width)
  BY <1>1, UcsParts
<1>3. e \in Seq(Bytes) /\ Len(e) \in Nat /\ Len(e) >= 2 /\ Len(e) <= 6
  <2>1. units[i + 1] \in Units(width)
    BY <1>1, <1>2
  <2>2. units[i + 1] \in Byte
    BY <1>1, <1>2, <2>1, UnitBytes, SpecialUnit
  <2> QED BY <2>2, EscapeBytes
<1> HIDE DEF e, a
<1>4. r = (n - i) * width + 7 /\ r \in Nat /\ dst <= Cap(buf)
  BY <1>2 DEF UcsRoom
<1> HIDE DEF r
<1>5. /\ Good(a) /\ a.len = dst /\ Agree(a, buf, buf.len)
  BY <1>2, <1>4, SetLenGood DEF a
<1>6. PICK b \in Reserve(a, r) : /\ buf' = Store(b, dst, e)
                                 /\ fits' = (fits /\ Fits(b, dst, e)) /\ dst' = dst + Len(e)
  BY <1>1
<1>7. Roomy(a, b, r)
  BY <1>4, <1>5, <1>6, ReserveRoom
<1>8. Good(b) /\ b.len = dst /\ Cap(b) - dst >= r /\ Cap(b) \in Nat
  BY <1>5, <1>7, BufferFields DEF Roomy, Good, Sized
<1>9. /\ Good(buf') /\ Cap(buf') = Cap(b) /\ buf'.len = dst /\ Agree(buf', b, dst)
  BY <1>2, <1>3, <1>6, <1>8, StoreGood, SMTT(60)
<1>10. Agree(buf', buf, buf.len)
  <2>1. \A j \in 1 .. buf.len : j \in 1 .. dst
    BY <1>2
  <2> QED BY <1>5, <1>7, <1>9, <2>1 DEF Roomy, Agree
<1>11. n - i \in Nat /\ n - i > 0 /\ n - (i + 1) = n - i - 1 /\ n - (i + 1) \in Nat
  BY <1>1, <1>2
<1>12. (n - (i + 1)) * width \in Nat /\ (n - (i + 1)) * width + width = (n - i) * width
  BY <1>2, <1>11, Share
<1>13. Need(pc', width, n - i') = (n - (i + 1)) * width + 1
  BY <1>1, <1>11, Needs
<1>14. dst' + Need(pc', width, n - i') <= Cap(buf')
  BY <1>2, <1>3, <1>4, <1>6, <1>8, <1>9, <1>12, <1>13, SMTT(60)
<1>15. fits'
  <2>1. dst + Len(e) <= Cap(b)
    BY <1>2, <1>3, <1>4, <1>8
  <2> QED BY <1>6, <2>1 DEF Fits, Inv
<1>16. i' \in 0 .. n /\ dst' \in Nat /\ buf'.len <= dst' /\ buf.len <= buf'.len /\ pc' = pc
  BY <1>1, <1>2, <1>3, <1>6, <1>9
<1> QED BY <1>1, <1>2, <1>9, <1>10, <1>14, <1>15, <1>16, WriterStep

-----------------------------------------------------------------------------
(* Rows. *)

LEMMA RowParts ==
  ASSUME Inv, pc = "row"
  PROVE  /\ pc \in Working /\ Good(buf) /\ n \in Nat /\ i \in 0 .. n /\ dst \in Nat /\ Cap(buf) \in Nat
         /\ buf.len <= dst /\ buf.len \in Nat
         /\ dst + (n - i) * 21 + 1 <= Cap(buf)
         /\ \A k \in 1 .. n : units[k] \in 1 .. 20
<1>1. pc \in Working /\ pc # "idle"
  BY DEF Working
<1>2. /\ Good(buf) /\ n \in Nat /\ i \in 0 .. n /\ dst \in Nat /\ Cap(buf) \in Nat /\ n - i \in Nat
      /\ buf.len \in Nat
  BY <1>1, Parts
<1>3. Content(pc, width, units) /\ buf.len <= dst /\ dst + Need(pc, width, n - i) <= Cap(buf)
  BY <1>1 DEF Inv, WorkInv
<1>4. \A k \in 1 .. n : units[k] \in IntSizes
  BY <1>3, ElementOfSeq DEF n, Content
<1>5. \A x \in IntSizes : x \in 1 .. 20
  BY WritersAssumption
<1>6. dst + (n - i) * 21 + 1 <= Cap(buf)
  BY <1>2, <1>3, Needs
<1> QED BY <1>1, <1>2, <1>3, <1>4, <1>5, <1>6

LEMMA RowElementKeeps ==
  ASSUME Inv, RowElement
  PROVE  Inv' /\ TextGrows
<1> DEFINE comma == IF i > 0 THEN <<44>> ELSE <<>>
           s == Sample(units[i + 1])
           b == Store(buf, dst, comma)
           d == dst + Len(comma)
           spans == CopyDigits(Len(s))
<1>1. /\ pc = "row" /\ i < n /\ buf' = StoreSpans(b, d, s, spans) /\ i' = i + 1 /\ dst' = d + Len(s)
      /\ fits' = (fits /\ Fits(buf, dst, comma) /\ \A p \in spans : d + p[1] + p[2] <= Cap(b))
      /\ UNCHANGED <<pc, hint, units, width, start, result, exc, left, calls>>
  BY DEF RowElement
<1>2. /\ pc \in Working /\ Good(buf) /\ n \in Nat /\ i \in 0 .. n /\ dst \in Nat /\ Cap(buf) \in Nat
      /\ buf.len <= dst /\ buf.len \in Nat /\ dst + (n - i) * 21 + 1 <= Cap(buf)
      /\ \A k \in 1 .. n : units[k] \in 1 .. 20
  BY <1>1, RowParts
<1>3. s \in Seq(Bytes) /\ Len(s) \in Nat /\ Len(s) <= 20
  <2>1. units[i + 1] \in 1 .. 20
    BY <1>1, <1>2
  <2>2. units[i + 1] \in 1 .. 32 /\ units[i + 1] \in Nat /\ units[i + 1] <= 20
    BY <2>1
  <2> QED BY <2>2, SampleBytes
<1>4. comma \in Seq(Bytes) /\ Len(comma) \in Nat /\ Len(comma) <= 1
  <2>1. 44 \in Bytes
    BY ByteRange
  <2> QED BY <2>1
<1>5. \A p \in spans : p[1] \in Nat /\ p[2] \in Nat /\ p[1] + p[2] <= Len(s)
  BY <1>3, CopyDigitsInside
<1> HIDE DEF comma, s, spans
<1>6. /\ Good(b) /\ Cap(b) = Cap(buf) /\ b.len = buf.len /\ Agree(b, buf, buf.len)
  BY <1>2, <1>4, StoreGood
<1> HIDE DEF b
<1>7. d \in Nat /\ d >= b.len
  BY <1>2, <1>4, <1>6
<1>8. n - (i + 1) \in Nat /\ n - i' = n - (i + 1) /\ (n - i) * 21 = (n - (i + 1)) * 21 + 21
  BY <1>1, <1>2
<1>9. d + Len(s) + (n - (i + 1)) * 21 + 1 <= Cap(buf)
  BY <1>2, <1>3, <1>4, <1>8
<1> HIDE DEF d
<1>10. /\ Good(buf') /\ Cap(buf') = Cap(buf) /\ buf'.len = buf.len /\ Agree(buf', b, buf.len)
  BY <1>1, <1>3, <1>6, <1>7, StoreSpansGood
<1>11. Agree(buf', buf, buf.len)
  BY <1>6, <1>10 DEF Agree
<1>12. fits'
  <2>1. Fits(buf, dst, comma)
    BY <1>2, <1>3, <1>4, <1>8, <1>9 DEF Fits, d
  <2>2. \A p \in spans : d + p[1] + p[2] <= Cap(b)
    <3>1. Len(s) \in Nat /\ d + Len(s) <= Cap(b)
      <4>1. (n - (i + 1)) * 21 >= 0
        BY <1>8
      <4> QED BY <1>2, <1>3, <1>6, <1>7, <1>8, <1>9, <4>1
    <3>2. Cap(b) \in Nat
      BY <1>2, <1>6
    <3> TAKE p \in spans
    <3>3. p[1] \in Nat /\ p[2] \in Nat /\ p[1] + p[2] <= Len(s)
      BY <1>5
    <3> QED BY <1>7, <3>1, <3>2, <3>3
  <2> QED BY <1>1, <2>1, <2>2 DEF Inv
<1>13. dst' + Need(pc', width, n - i') <= Cap(buf')
  <2>1. Need(pc', width, n - i') = (n - (i + 1)) * 21 + 1
    BY <1>1, <1>8, Needs
  <2> QED BY <1>1, <1>3, <1>7, <1>8, <1>9, <1>10, <2>1
<1>14. i' \in 0 .. n /\ dst' \in Nat /\ buf'.len <= dst' /\ buf.len <= buf'.len /\ pc' = pc
  BY <1>1, <1>2, <1>3, <1>6, <1>7, <1>10
<1> QED BY <1>1, <1>2, <1>10, <1>11, <1>12, <1>13, <1>14, WriterStep

-----------------------------------------------------------------------------
(* Steps that end in the encoder, and the ends of the writers. *)

LEMMA OpenStep ==
  ASSUME Inv, pc # "idle", pc' \in {"ready", "failing"}, Good(buf'),
         buf.len <= buf'.len, Agree(buf', buf, buf.len), fits',
         \/ units' = units /\ i' = i /\ width' = width /\ dst' = dst
         \/ units' = <<>> /\ i' = 0 /\ width' = 2 /\ dst' = 0,
         exc' \in BOOLEAN, pc' = "failing" => exc', left' \in Nat,
         UNCHANGED <<hint, start, result, calls>>
  PROVE  Inv' /\ TextGrows
<1>1. buf' \in Buffer /\ buf'.len <= Cap(buf') /\ buf'.len \in Nat /\ buf.len \in Nat
  BY BufferFields, Parts DEF Good, Sized
<1>2. units' \in Seq(Nat) /\ i' \in 0 .. n' /\ width' \in 2 .. 4 /\ dst' \in Nat
  <2>1. CASE units' = units /\ i' = i /\ width' = width /\ dst' = dst
    BY <2>1 DEF Inv, TypeOK, n
  <2>2. CASE units' = <<>> /\ i' = 0 /\ width' = 2 /\ dst' = 0
    BY <2>2 DEF n
  <2> QED BY <2>1, <2>2
<1>3. TypeOK'
  BY <1>1, <1>2 DEF Inv, TypeOK, PCs
<1>4. WorkInv'
  BY DEF WorkInv, Working
<1>5. CallInv'
  <2>1. start # Null => start \in Nat /\ start <= buf.len
    BY DEF Inv, CallInv, TypeOK
  <2> QED BY <1>1, <2>1 DEF Inv, CallInv, Good
<1> QED BY <1>3, <1>4, <1>5 DEF Inv, TextGrows

LEMMA EndsKeeps ==
  ASSUME Inv, pc \in Working, i = n, NEW kind, NEW last \in Seq(Bytes), Len(last) = 1,
         Ends(kind, last)
  PROVE  Inv' /\ TextGrows
<1> DEFINE a == Store(buf, dst, last)
           w == dst + Len(last)
<1>1. /\ buf' = SetLen(a, w) /\ fits' = (fits /\ Fits(buf, dst, last))
      /\ pc' = "ready" /\ units' = <<>> /\ width' = 2 /\ i' = 0 /\ dst' = 0
      /\ UNCHANGED <<hint, start, result, exc, left, calls>>
  BY DEF Ends
<1>2. /\ pc # "idle" /\ Good(buf) /\ dst \in Nat /\ Cap(buf) \in Nat /\ buf.len \in Nat /\ n \in Nat
      /\ width \in 2 .. 4 /\ n - i = 0
  BY Parts DEF Working
<1>3. buf.len <= dst /\ dst + Need(pc, width, 0) <= Cap(buf)
  BY <1>2 DEF Inv, WorkInv
<1>4. Need(pc, width, 0) \in Nat /\ Need(pc, width, 0) >= 1
  <2>1. CASE pc \in {"copy", "hit"}
    BY <2>1, Needs, WritersAssumption
  <2>2. CASE pc = "ucs"
    <3>1. 0 * width = 0
      BY <1>2
    <3> QED BY <2>2, <3>1, Needs
  <2>3. CASE pc = "row"
    BY <2>3, Needs
  <2> QED BY <2>1, <2>2, <2>3 DEF Working
<1>5. w \in Nat /\ w = dst + 1 /\ w <= Cap(buf)
  BY <1>2, <1>3, <1>4
<1>6. /\ Good(a) /\ Cap(a) = Cap(buf) /\ Agree(a, buf, buf.len)
  BY <1>2, <1>3, StoreGood
<1> HIDE DEF a
<1>7. /\ Good(buf') /\ buf'.len = w /\ Agree(buf', a, buf.len)
  BY <1>1, <1>5, <1>6, SetLenGood
<1>8. Agree(buf', buf, buf.len)
  BY <1>6, <1>7 DEF Agree
<1>9. fits'
  BY <1>1, <1>5 DEF Fits, Inv
<1> HIDE DEF w
<1>10. buf.len <= buf'.len
  BY <1>2, <1>3, <1>5, <1>7
<1>11. exc' \in BOOLEAN /\ left' \in Nat
  BY <1>1 DEF Inv, TypeOK
<1> QED BY <1>1, <1>2, <1>7, <1>8, <1>9, <1>10, <1>11, OpenStep

LEMMA ClosesKeep ==
  ASSUME Inv, CloseUtf8 \/ CloseUcs \/ CloseRow
  PROVE  Inv' /\ TextGrows
<1>1. /\ Quote \in Seq(Bytes) /\ Len(Quote) = 1
      /\ <<93>> \in Seq(Bytes) /\ Len(<<93>>) = 1
  BY ByteRange DEF Quote
<1>2. CASE CloseUtf8
  BY <1>1, <1>2, EndsKeeps DEF CloseUtf8, Working
<1>3. CASE CloseUcs
  BY <1>1, <1>3, EndsKeeps DEF CloseUcs, Working
<1>4. CASE CloseRow
  BY <1>1, <1>4, EndsKeeps DEF CloseRow, Working
<1> QED BY <1>2, <1>3, <1>4

LEMMA FailuresKeep ==
  ASSUME Inv, UcsSurrogate \/ EncoderFails
  PROVE  Inv' /\ TextGrows
<1>1. /\ pc # "idle" /\ pc' = "failing" /\ exc' = TRUE
      /\ \/ units' = units /\ i' = i /\ width' = width /\ dst' = dst
         \/ units' = <<>> /\ i' = 0 /\ width' = 2 /\ dst' = 0
      /\ UNCHANGED <<buf, hint, start, result, fits, left, calls>>
  BY DEF UcsSurrogate, EncoderFails
<1>2. Good(buf) /\ buf.len \in Nat
  BY <1>1, Parts
<1>3. /\ Good(buf') /\ buf.len <= buf'.len /\ Agree(buf', buf, buf.len) /\ fits' /\ left' \in Nat
  BY <1>1, <1>2 DEF Agree, Inv, TypeOK
<1> QED BY <1>1, <1>3, OpenStep

(* Every step inside a writer.                                             *)
LEMMA StepKeeps ==
  ASSUME Inv, Step
  PROVE  Inv' /\ TextGrows
BY CopyWideKeeps, CopyRestKeeps, CopyStopsKeeps, EscapeKeeps, UcsPlainKeeps, UcsEscapeKeeps,
   RowElementKeeps, ClosesKeep, FailuresKeep DEF Step

-----------------------------------------------------------------------------
(* The starts of the writers. *)

LEMMA ReadyParts ==
  ASSUME Inv, pc = "ready"
  PROVE  /\ Good(buf) /\ buf.len \in Nat /\ left \in Nat /\ pc # "idle"
  BY Parts DEF Inv, TypeOK

(* What a writer reserves is enough for all that it will store.            *)
LEMMA WritingKeeps ==
  ASSUME Inv, pc = "ready", NEW w \in {"copy", "ucs", "row"}, NEW us \in Seq(Nat), NEW room \in Nat,
         NEW b \in Reserve(buf, room), NEW first \in Seq(Bytes), Len(first) = 1,
         Writing(w, us, b, first), width' \in 2 .. 4, Content(w, width', us),
         Cost(w, Len(us)) <= left, Cost(w, Len(us)) \in Nat,
         Need(w, width', Len(us)) \in Nat, 1 + Need(w, width', Len(us)) <= room
  PROVE  Inv' /\ TextGrows
<1>1. /\ buf' = Store(b, b.len, first) /\ fits' = (fits /\ Fits(b, b.len, first))
      /\ pc' = w /\ units' = us /\ i' = 0 /\ dst' = b.len + Len(first)
      /\ left' = left - Cost(w, Len(us))
      /\ UNCHANGED <<hint, start, result, exc, calls>>
  BY DEF Writing
<1>2. Good(buf) /\ buf.len \in Nat /\ left \in Nat /\ pc # "idle"
  BY ReadyParts
<1>3. Roomy(buf, b, room)
  BY <1>2, ReserveRoom
<1>4. /\ Good(b) /\ b.len = buf.len /\ Cap(b) \in Nat /\ Cap(b) - b.len >= room
      /\ Agree(b, buf, buf.len)
  BY <1>3, BufferFields DEF Roomy, Good, Sized
<1>5. /\ Good(buf') /\ Cap(buf') = Cap(b) /\ buf'.len = buf.len /\ Agree(buf', b, buf.len)
  BY <1>1, <1>2, <1>4, StoreGood, SMTT(60)
<1>6. Agree(buf', buf, buf.len)
  BY <1>4, <1>5 DEF Agree
<1>7. Len(us) \in Nat /\ n' = Len(us) /\ n' - i' = Len(us)
  <2>1. Len(us) \in Nat
    BY LenProperties
  <2>2. n' = Len(us)
    BY <1>1 DEF n
  <2> QED BY <1>1, <2>1, <2>2
<1> DEFINE need == Need(w, width', Len(us))
<1>0. need \in Nat /\ 1 + need <= room /\ Need(pc', width', n' - i') = need
  BY <1>1, <1>7
<1> HIDE DEF need
<1>8. fits'
  <2>1. b.len + Len(first) <= Cap(b)
    BY <1>0, <1>2, <1>4
  <2> QED BY <1>1, <2>1 DEF Fits, Inv
<1>9. /\ buf'.len <= dst' /\ dst' \in Nat /\ dst' + Need(pc', width', n' - i') <= Cap(buf')
  <2>1. dst' = buf.len + 1
    BY <1>1, <1>4
  <2> QED BY <1>0, <1>2, <1>4, <1>5, <2>1, SMTT(60)
<1>10. left' \in Nat
  BY <1>1, <1>2
<1>11. buf' \in Buffer /\ buf'.len <= Cap(buf')
  BY <1>5 DEF Good, Sized
<1>12. pc' \in PCs /\ pc' \in Working /\ i' \in 0 .. n'
  BY <1>1, <1>7 DEF PCs, Working
<1>13. TypeOK'
  BY <1>1, <1>8, <1>9, <1>10, <1>11, <1>12 DEF Inv, TypeOK
<1>14. WorkInv'
  BY <1>1, <1>9 DEF WorkInv
<1>15. CallInv'
  <2>1. start # Null => start \in Nat /\ start <= buf.len
    BY DEF Inv, CallInv, TypeOK
  <2> QED BY <1>1, <1>5, <2>1 DEF Inv, CallInv, Good
<1>16. buf.len <= buf'.len
  BY <1>2, <1>5
<1> QED BY <1>1, <1>2, <1>6, <1>8, <1>13, <1>14, <1>15, <1>16 DEF Inv, TextGrows

LEMMA TextsOf ==
  ASSUME NEW w, left \in Nat, NEW S, NEW us \in Texts(w, S)
  PROVE  us \in Seq(S) /\ Len(us) \in Nat /\ Cost(w, Len(us)) <= left
<1>1. PICK len \in {l \in 0 .. left : Cost(w, l) <= left} : us \in [1 .. len -> S]
  BY DEF Texts
<1>2. len \in Nat /\ Cost(w, len) <= left
  OBVIOUS
<1>3. us \in Seq(S) /\ Len(us) = len
  BY <1>1, <1>2
<1> QED BY <1>2, <1>3

LEMMA Widened ==
  ASSUME NEW S, S \subseteq Nat, NEW us \in Seq(S)
  PROVE  us \in Seq(Nat)
  BY SeqMonotonic

LEMMA StartUtf8Keeps ==
  ASSUME Inv, NEW text \in Texts("copy", TextBytes), StartUtf8(text)
  PROVE  Inv' /\ TextGrows
<1>1. /\ pc = "ready" /\ width' = width
      /\ \E b \in Reserve(buf, TextRoom(Len(text))) : Writing("copy", text, b, Quote)
  BY DEF StartUtf8
<1>2. left \in Nat /\ width' \in 2 .. 4 /\ Wide \in Nat
  BY <1>1, WritersAssumption DEF Inv, TypeOK
<1>3. text \in Seq(TextBytes) /\ Len(text) \in Nat /\ Cost("copy", Len(text)) <= left
  BY <1>2, TextsOf
<1>4. text \in Seq(Byte) /\ text \in Seq(Nat)
  <2>1. TextBytes \subseteq Byte /\ TextBytes \subseteq Nat
    BY WritersAssumption, ByteRange
  <2> QED BY <1>3, <2>1, SeqMonotonic
<1>5. Content("copy", width', text)
  BY <1>4 DEF Content
<1>6. Need("copy", width', Len(text)) = Len(text) + 1 + Wide
  BY <1>3, Needs
<1>7. TextRoom(Len(text)) = Len(text) + 2 + Wide /\ Cost("copy", Len(text)) = 2 + Len(text)
  BY DEF TextRoom, Cost
<1>8. /\ Cost("copy", Len(text)) \in Nat /\ Need("copy", width', Len(text)) \in Nat
      /\ TextRoom(Len(text)) \in Nat /\ 1 + Need("copy", width', Len(text)) <= TextRoom(Len(text))
  BY <1>2, <1>3, <1>6, <1>7
<1>9. Quote \in Seq(Bytes) /\ Len(Quote) = 1
  BY ByteRange DEF Quote
<1> QED BY <1>1, <1>2, <1>3, <1>4, <1>5, <1>8, <1>9, WritingKeeps

LEMMA StartUcsKeeps ==
  ASSUME Inv, NEW w \in 2 .. 4, NEW text \in Texts("ucs", Units(w)), StartUcs(text, w)
  PROVE  Inv' /\ TextGrows
<1> DEFINE room == Len(text) * w + 2
<1>1. /\ pc = "ready" /\ width' = w
      /\ \E b \in Reserve(buf, room) : Writing("ucs", text, b, Quote)
  BY DEF StartUcs
<1>2. left \in Nat
  BY <1>1 DEF Inv, TypeOK
<1>3. text \in Seq(Units(w)) /\ Len(text) \in Nat /\ Cost("ucs", Len(text)) <= left
  BY <1>2, TextsOf
<1>4. text \in Seq(Nat)
  <2>1. Units(w) \subseteq Nat
    BY UnitBytes
  <2> QED BY <1>3, <2>1, SeqMonotonic
<1>5. Content("ucs", width', text)
  BY <1>1, <1>3 DEF Content
<1>6. Need("ucs", width', Len(text)) = Len(text) * w + 1 /\ Len(text) * w \in Nat
  <2>1. w = 2 \/ w = 3 \/ w = 4
    OBVIOUS
  <2>2. Len(text) * w \in Nat
    BY <1>3, <2>1
  <2> QED BY <1>1, <1>3, <2>2, Needs
<1>7. Cost("ucs", Len(text)) = 2 + 2 * Len(text)
  BY DEF Cost
<1>8. /\ Cost("ucs", Len(text)) \in Nat /\ Need("ucs", width', Len(text)) \in Nat
      /\ room \in Nat /\ 1 + Need("ucs", width', Len(text)) <= room
  BY <1>3, <1>6, <1>7
<1>9. Quote \in Seq(Bytes) /\ Len(Quote) = 1
  BY ByteRange DEF Quote
<1>10. width' \in 2 .. 4
  BY <1>1
<1> HIDE DEF room
<1> QED BY <1>1, <1>3, <1>4, <1>5, <1>8, <1>9, <1>10, WritingKeeps

LEMMA StartRowKeeps ==
  ASSUME Inv, NEW sizes \in Texts("row", IntSizes), StartRow(sizes)
  PROVE  Inv' /\ TextGrows
<1>1. /\ pc = "ready" /\ width' = width
      /\ \E b \in Reserve(buf, RowRoom(Len(sizes))) : Writing("row", sizes, b, <<91>>)
  BY DEF StartRow
<1>2. left \in Nat /\ width' \in 2 .. 4
  BY <1>1 DEF Inv, TypeOK
<1>3. sizes \in Seq(IntSizes) /\ Len(sizes) \in Nat /\ Cost("row", Len(sizes)) <= left
  BY <1>2, TextsOf
<1>4. sizes \in Seq(Nat)
  <2>1. IntSizes \subseteq Nat
    BY WritersAssumption
  <2> QED BY <1>3, <2>1, SeqMonotonic
<1>5. Content("row", width', sizes)
  BY <1>3 DEF Content
<1>6. Need("row", width', Len(sizes)) = Len(sizes) * 21 + 1
  BY <1>3, Needs
<1>7. RowRoom(Len(sizes)) = Len(sizes) * 21 + 2 /\ Cost("row", Len(sizes)) = 2 + 2 * Len(sizes)
  BY DEF RowRoom, Cost, Digits
<1>8. /\ Cost("row", Len(sizes)) \in Nat /\ Need("row", width', Len(sizes)) \in Nat
      /\ RowRoom(Len(sizes)) \in Nat /\ 1 + Need("row", width', Len(sizes)) <= RowRoom(Len(sizes))
  BY <1>3, <1>6, <1>7
<1>9. <<91>> \in Seq(Bytes) /\ Len(<<91>>) = 1
  BY ByteRange
<1> QED BY <1>1, <1>2, <1>3, <1>4, <1>5, <1>8, <1>9, WritingKeeps

(* A piece is stored where the text ends and made part of it at once.      *)
LEMMA WholeKeeps ==
  ASSUME Inv, pc = "ready", left >= 2, NEW kind, NEW room \in Nat, NEW b \in Reserve(buf, room),
         NEW s \in Seq(Bytes), NEW spans, Len(s) <= room,
         \A p \in spans : p[1] \in Nat /\ p[2] \in Nat /\ p[1] + p[2] <= room,
         Whole(kind, s, b, spans)
  PROVE  Inv' /\ TextGrows
<1> DEFINE a == StoreSpans(b, b.len, s, spans)
           w == b.len + Len(s)
<1>1. /\ buf' = SetLen(a, w) /\ left' = left - 2
      /\ fits' = (fits /\ \A p \in spans : b.len + p[1] + p[2] <= Cap(b))
      /\ UNCHANGED <<pc, hint, units, width, i, dst, start, result, exc, calls>>
  BY DEF Whole
<1>2. Good(buf) /\ buf.len \in Nat /\ left \in Nat /\ pc # "idle"
  BY ReadyParts
<1>3. Roomy(buf, b, room)
  BY <1>2, ReserveRoom
<1>4. /\ Good(b) /\ b.len = buf.len /\ Cap(b) \in Nat /\ Cap(b) - b.len >= room
      /\ Agree(b, buf, buf.len)
  BY <1>3, BufferFields DEF Roomy, Good, Sized
<1>5. /\ Good(a) /\ Cap(a) = Cap(b) /\ Agree(a, b, buf.len)
  BY <1>2, <1>4, StoreSpansGood
<1>6. w \in Nat /\ w <= Cap(a) /\ buf.len <= w
  <2>1. Len(s) \in Nat
    BY LenProperties
  <2> QED BY <1>2, <1>4, <1>5, <2>1
<1> HIDE DEF a, w
<1>7. /\ Good(buf') /\ buf'.len = w /\ Agree(buf', a, buf.len)
  BY <1>1, <1>5, <1>6, SetLenGood
<1>8. Agree(buf', buf, buf.len)
  BY <1>4, <1>5, <1>7 DEF Agree
<1>9. fits'
  <2>1. \A p \in spans : b.len + p[1] + p[2] <= Cap(b)
    <3> TAKE p \in spans
    <3>1. p[1] \in Nat /\ p[2] \in Nat /\ p[1] + p[2] <= room
      OBVIOUS
    <3> QED BY <1>2, <1>4, <3>1
  <2> QED BY <1>1, <2>1 DEF Inv
<1>10. exc' \in BOOLEAN /\ left' \in Nat /\ buf.len <= buf'.len
  BY <1>1, <1>2, <1>6, <1>7 DEF Inv, TypeOK
<1> QED BY <1>1, <1>2, <1>7, <1>8, <1>9, <1>10, OpenStep

LEMMA PieceKeeps ==
  ASSUME Inv, NEW len \in PieceSizes, Piece(len)
  PROVE  Inv' /\ TextGrows
<1>1. /\ pc = "ready" /\ left >= 2
      /\ \E b \in Reserve(buf, len) : Whole("piece", Sample(len), b, SmallCopy(len))
  BY DEF Piece
<1>2. len \in 1 .. 32 /\ len \in Nat
  BY WritersAssumption
<1>3. Sample(len) \in Seq(Bytes) /\ Len(Sample(len)) <= len
  <2>1. Sample(len) \in Seq(Bytes) /\ Len(Sample(len)) = len
    BY <1>2, SampleBytes
  <2> QED BY <1>2, <2>1
<1>4. \A p \in SmallCopy(len) : p[1] \in Nat /\ p[2] \in Nat /\ p[1] + p[2] <= len
  BY <1>2, SmallCopyInside
<1> QED BY <1>1, <1>2, <1>3, <1>4, WholeKeeps

LEMMA FloatKeeps ==
  ASSUME Inv, NEW len \in FloatSizes, Float(len)
  PROVE  Inv' /\ TextGrows
<1> DEFINE spans == {<<0, len>>, <<0, FloatBuffer>>}
<1>1. /\ pc = "ready" /\ left >= 2
      /\ \E b \in Reserve(buf, FloatBuffer) : Whole("piece", Sample(len), b, spans)
  BY DEF Float
<1>2. len \in 1 .. 24 /\ len \in 1 .. 32 /\ len \in Nat /\ FloatBuffer = 24
  BY WritersAssumption DEF FloatBuffer
<1>3. Sample(len) \in Seq(Bytes) /\ Len(Sample(len)) <= FloatBuffer
  <2>1. Sample(len) \in Seq(Bytes) /\ Len(Sample(len)) = len
    BY <1>2, SampleBytes
  <2> HIDE DEF spans
  <2> QED BY <1>2, <2>1
<1>4. \A p \in spans : p[1] \in Nat /\ p[2] \in Nat /\ p[1] + p[2] <= FloatBuffer
  BY <1>2
<1> HIDE DEF spans
<1>5. FloatBuffer \in Nat
  BY <1>2
<1> QED BY <1>1, <1>3, <1>4, <1>5, WholeKeeps

LEMMA StartKeeps ==
  ASSUME Inv, Start
  PROVE  Inv' /\ TextGrows
BY StartUtf8Keeps, StartUcsKeeps, StartRowKeeps, PieceKeeps, FloatKeeps DEF Start

-----------------------------------------------------------------------------
(* Arrays, and the two ends of a call. *)

LEMMA ArraysKeep ==
  ASSUME Inv, ArrayBegins \/ ArrayEnds \/ ArrayDeclined
  PROVE  Inv'
<1>1. /\ pc = "ready" /\ pc' = pc /\ left' \in Nat
      /\ UNCHANGED <<hint, units, width, i, dst, result, exc, fits, calls>>
  <2>1. left \in Nat
    BY DEF Inv, TypeOK
  <2> QED BY <2>1 DEF ArrayBegins, ArrayEnds, ArrayDeclined
<1>2. Good(buf) /\ buf.len \in Nat /\ buf.len <= Cap(buf) /\ Cap(buf) \in Nat
  BY <1>1, ReadyParts, Parts
<1>3. Good(buf') /\ start' \in Nat \cup {Null} /\ (start' # Null => start' <= buf'.len)
  <2>1. CASE ArrayBegins
    BY <1>2, <2>1 DEF ArrayBegins
  <2>2. CASE ArrayEnds
    BY <1>2, <2>2 DEF ArrayEnds
  <2>3. CASE ArrayDeclined
    <3>1. start # Null /\ buf' = SetLen(buf, start) /\ start' = Null
      BY <2>3 DEF ArrayDeclined
    <3>2. start \in Nat /\ start <= buf.len
      BY <3>1 DEF Inv, CallInv, TypeOK
    <3>3. start <= Cap(buf)
      BY <1>2, <3>2
    <3> QED BY <1>2, <3>1, <3>2, <3>3, SetLenGood
  <2> QED BY <2>1, <2>2, <2>3
<1>4. buf' \in Buffer /\ buf'.len <= Cap(buf')
  BY <1>3 DEF Good, Sized
<1>5. TypeOK'
  BY <1>1, <1>3, <1>4 DEF Inv, TypeOK, n
<1>6. WorkInv'
  BY <1>1 DEF WorkInv, Working
<1>7. CallInv'
  BY <1>1, <1>3 DEF Inv, CallInv, Good
<1> QED BY <1>1, <1>5, <1>6, <1>7 DEF Inv

LEMMA BeginKeeps ==
  ASSUME Inv, Begin
  PROVE  Inv'
<1>1. /\ pc = "idle" /\ calls > 0 /\ pc' = "ready" /\ buf' = New(hint)
      /\ calls' = calls - 1 /\ left' = MaxUnits
      /\ result' = Null /\ exc' = FALSE /\ start' = Null
      /\ UNCHANGED <<hint, units, width, i, dst, fits>>
  BY DEF Begin
<1>2. Good(buf')
  <2> DEFINE k == Larger(hint + hint \div 8, MinCap)
             f == [j \in 1 .. k |-> Junk]
  <2>1. k \in Nat
    <3>1. hint \in Nat /\ MinCap \in Nat
      BY BufferAssumption DEF Inv, TypeOK
    <3>2. hint \div 8 \in Nat
      BY <3>1
    <3> QED BY <3>1, <3>2 DEF Larger
  <2> HIDE DEF k
  <2>2. f \in [1 .. k -> Bytes]
    BY DEF Bytes
  <2>3. buf' = [obj |-> "bytes", mem |-> f, len |-> 0, live |-> 1]
    BY <1>1 DEF New, k
  <2> HIDE DEF f
  <2>4. f \in Seq(Bytes) /\ Len(f) = k
    BY <2>1, <2>2
  <2> QED BY <2>1, <2>3, <2>4 DEF Good, Sized, Owned, Buffer, Cap, Bytes
<1>3. buf' \in Buffer /\ buf'.len <= Cap(buf')
  BY <1>2 DEF Good, Sized
<1>4. calls' \in 0 .. MaxCalls /\ left' \in Nat
  BY <1>1, WritersAssumption DEF Inv, TypeOK
<1>5. TypeOK'
  BY <1>1, <1>3, <1>4 DEF Inv, TypeOK, n, PCs
<1>6. WorkInv'
  BY <1>1 DEF WorkInv, Working
<1>7. CallInv'
  BY <1>1, <1>2 DEF CallInv, Good
<1> QED BY <1>1, <1>5, <1>6, <1>7 DEF Inv

(* A call that is over has given its buffer up.                            *)
LEMMA IdleKeeps ==
  ASSUME Inv, pc' = "idle", NEW own \in {0, 1}, buf' = [NoBuffer EXCEPT !.live = own],
         own = IF result' # Null THEN 1 ELSE 0, start' = Null,
         exc' \in BOOLEAN, exc' <=> result' = Null, hint' \in Nat, calls' \in 0 .. MaxCalls,
         UNCHANGED <<units, width, i, dst, fits, left>>
  PROVE  Inv'
<1>1. buf' = [obj |-> "none", mem |-> <<>>, len |-> 0, live |-> own]
  BY DEF NoBuffer
<1>2. <<>> \in Seq(Byte \cup {Junk}) /\ Len(<<>>) = 0
  OBVIOUS
<1>3. buf' \in Buffer /\ Cap(buf') = 0 /\ buf'.len = 0
  <2>1. Cap(buf') = 0 /\ buf'.len = 0
    BY <1>1, <1>2 DEF Cap
  <2> DEFINE f == <<>>
  <2>2. own \in Nat /\ f \in Seq(Byte \cup {Junk})
    OBVIOUS
  <2>3. buf' = [obj |-> "none", mem |-> f, len |-> 0, live |-> own]
    BY <1>1
  <2> HIDE DEF f
  <2>4. [obj |-> "none", mem |-> f, len |-> 0, live |-> own] \in Buffer
    BY ONLY <2>2 DEF Buffer
  <2> QED BY <2>1, <2>3, <2>4
<1>4. TypeOK'
  BY <1>3 DEF Inv, TypeOK, n, PCs
<1>5. WorkInv'
  BY DEF WorkInv, Working
<1>6. CallInv'
  BY <1>1 DEF CallInv
<1> QED BY <1>4, <1>5, <1>6 DEF Inv

LEMMA RefusedKeeps ==
  ASSUME Inv, Refused
  PROVE  Inv'
<1>1. /\ calls > 0 /\ calls' = calls - 1 /\ result' = Null /\ exc' = TRUE /\ pc' = "idle"
      /\ start' = Null /\ hint' \in Nat /\ UNCHANGED <<units, width, i, dst, fits, left>>
  BY DEF Refused, Inv, CallInv, TypeOK
<1>2. buf' = [NoBuffer EXCEPT !.live = 0]
  BY DEF Refused, NoBuffer
<1>3. calls' \in 0 .. MaxCalls
  BY <1>1, WritersAssumption DEF Inv, TypeOK
<1> QED BY <1>1, <1>2, <1>3, IdleKeeps

LEMMA UnwindKeeps ==
  ASSUME Inv, Unwind
  PROVE  Inv' /\ result' = Null /\ pc = "failing"
<1>1. /\ pc = "failing" /\ pc' = "idle" /\ buf' = Drop(buf) /\ start' = Null
      /\ UNCHANGED <<hint, units, width, i, dst, result, exc, fits, left, calls>>
  BY DEF Unwind
<1>2. Owned(buf) /\ result = Null /\ exc /\ hint \in Nat /\ calls \in 0 .. MaxCalls
  BY <1>1 DEF Inv, CallInv, TypeOK
<1>3. buf' = [NoBuffer EXCEPT !.live = 0]
  BY <1>1, <1>2 DEF Drop, Owned
<1> QED BY <1>1, <1>2, <1>3, IdleKeeps

(* The text of a buffer is a sequence of bytes, and so no Null.            *)
LEMMA TextOf ==
  ASSUME NEW b, Sized(b)
  PROVE  /\ Text(b) \in Seq(Bytes) /\ Len(Text(b)) = b.len /\ Text(b) # Null
         /\ \A j \in 1 .. b.len : Text(b)[j] = b.mem[j]
<1>1. b.len \in Nat /\ Cap(b) \in Nat /\ b.len <= Cap(b) /\ \A j \in 1 .. Cap(b) : b.mem[j] \in Bytes
  BY BufferFields DEF Sized
<1>2. \A j \in 1 .. b.len : b.mem[j] \in Bytes
  BY <1>1
<1>3. b.len \in Int /\ 1 \in Int
  BY <1>1
<1>4. /\ Text(b) \in Seq(Bytes) /\ Len(Text(b)) = IF 1 <= b.len THEN b.len - 1 + 1 ELSE 0
      /\ \A j \in 1 .. b.len - 1 + 1 : Text(b)[j] = b.mem[1 + j - 1]
  BY ONLY <1>2, <1>3, SubSeqProperties DEF Text
<1>5. Len(Text(b)) = b.len /\ b.len - 1 + 1 = b.len /\ \A j \in 1 .. b.len : 1 + j - 1 = j
  BY <1>1, <1>4
<1>6. Null \notin Seq(Bytes)
  BY WritersAssumption DEF Bytes
<1> QED BY <1>4, <1>5, <1>6

LEMMA ReturnKeeps ==
  ASSUME Inv, Return
  PROVE  Inv' /\ start = Null /\ result' \in {Text(buf), Null}
<1>1. /\ pc = "ready" /\ start = Null /\ pc' = "idle" /\ hint' = buf.len
      /\ UNCHANGED <<units, width, i, dst, start, fits, left, calls>>
  BY DEF Return
<1>2. PICK f \in Finish(buf, Null) :
           result' = f.result /\ exc' = (f.result = Null) /\ buf' = [NoBuffer EXCEPT !.live = f.live]
  BY DEF Return
<1>3. Good(buf) /\ buf.len \in Nat /\ Text(buf) # Null
  BY <1>1, ReadyParts, TextOf DEF Good
<1>4. calls \in 0 .. MaxCalls
  BY DEF Inv, TypeOK
<1>5. /\ buf.obj \in {"bytes", "spill"} /\ buf.live = IF buf.obj = "bytes" THEN 1 ELSE 0
  BY <1>3 DEF Good, Owned
<1>6. f.result \in {Text(buf), Null} /\ f.live = IF f.result # Null THEN 1 ELSE 0
  <2>1. CASE buf.obj = "spill"
    <3>1. Finish(buf, Null) = {[result |-> Text(buf), live |-> buf.live + 1], [result |-> Null, live |-> buf.live]}
      BY <2>1 DEF Finish
    <3>2. buf.live = 0
      BY <1>5, <2>1
    <3> QED BY <1>3, <3>1, <3>2
  <2>2. CASE buf.obj = "bytes" /\ buf.len = Cap(buf)
    <3>1. Finish(buf, Null) = {[result |-> Text(buf), live |-> buf.live]}
      BY <2>2 DEF Finish
    <3>2. buf.live = 1
      BY <1>5, <2>2
    <3> QED BY <1>3, <3>1, <3>2
  <2>3. CASE buf.obj = "bytes" /\ buf.len # Cap(buf)
    <3>1. Finish(buf, Null) = {[result |-> Text(buf), live |-> buf.live], [result |-> Null, live |-> buf.live - 1]}
      BY <2>3 DEF Finish
    <3>2. buf.live = 1
      BY <1>5, <2>3
    <3> QED BY <1>3, <3>1, <3>2
  <2> QED BY <1>5, <2>1, <2>2, <2>3
<1>7. f.live \in {0, 1} /\ f.live = IF result' # Null THEN 1 ELSE 0
  BY <1>2, <1>6
<1>8. Inv'
  BY <1>1, <1>2, <1>3, <1>4, <1>7, IdleKeeps
<1> QED BY <1>1, <1>2, <1>6, <1>8

-----------------------------------------------------------------------------
(* The whole. *)

LEMMA InitInv == Init => Inv
<1> SUFFICES ASSUME Init PROVE Inv
  OBVIOUS
<1>1. /\ pc = "idle" /\ hint \in Hints /\ width = 2 /\ i = 0 /\ dst = 0 /\ start = Null
      /\ result = Null /\ left = 0 /\ calls = MaxCalls
  BY DEF Init
<1>0. exc \in BOOLEAN /\ fits \in BOOLEAN /\ fits
  BY DEF Init
<1>2. buf \in Buffer /\ buf.len <= Cap(buf)
  <2> DEFINE f == <<>>
  <2>1. f \in Seq(Byte \cup {Junk}) /\ Len(f) = 0
    OBVIOUS
  <2>2. buf = [obj |-> "none", mem |-> f, len |-> 0, live |-> 0]
    BY DEF NoBuffer, Init
  <2> HIDE DEF f
  <2>3. [obj |-> "none", mem |-> f, len |-> 0, live |-> 0] \in Buffer
    BY ONLY <2>1 DEF Buffer
  <2> QED BY <2>1, <2>2, <2>3 DEF Cap
<1>3. TypeOK
  <2>1. hint \in Nat /\ MaxCalls \in Nat
    BY <1>1, WritersAssumption, SMT
  <2>2. calls \in 0 .. MaxCalls
    BY <1>1, <2>1
  <2>3. i \in 0 .. n /\ units \in Seq(Nat)
    BY <1>1 DEF n, Init
  <2>4. width \in 2 .. 4 /\ dst \in Nat /\ left \in Nat /\ pc \in PCs /\ start \in Nat \cup {Null}
    BY <1>1 DEF PCs
  <2> QED BY <1>2, <1>0, <2>1, <2>2, <2>3, <2>4 DEF TypeOK
<1>4. WorkInv /\ CallInv
  <2>1. buf.obj = "none" /\ buf.live = 0
    BY DEF NoBuffer, Init
  <2>2. ~(calls < MaxCalls)
    BY <1>1, WritersAssumption, SMT
  <2> QED BY <1>1, <2>1, <2>2 DEF WorkInv, CallInv, Working
<1> QED BY <1>0, <1>3, <1>4 DEF Inv

LEMMA NextInv == Inv /\ [Next]_vars => Inv'
<1> SUFFICES ASSUME Inv, [Next]_vars PROVE Inv'
  OBVIOUS
<1>1. CASE Next
  BY <1>1, RefusedKeeps, BeginKeeps, StartKeeps, StepKeeps, ArraysKeep, FailuresKeep, UnwindKeeps,
     ReturnKeeps DEF Next
<1>2. CASE UNCHANGED vars
  <2>1. UNCHANGED <<pc, buf, hint, units, width, i, dst, start, result, exc, fits, left, calls>>
    BY <1>2 DEF vars
  <2>2. TypeOK'
    BY <2>1 DEF Inv, TypeOK, n
  <2>3. WorkInv'
    BY <2>1 DEF Inv, WorkInv, n
  <2>4. CallInv' /\ fits'
    BY <2>1 DEF Inv, CallInv
  <2> QED BY <2>2, <2>3, <2>4 DEF Inv
<1> QED BY <1>1, <1>2

THEOREM Invariance == Spec => []Inv
BY InitInv, NextInv, PTL DEF Spec

(* Every variable keeps its type and the text never passes the capacity.   *)
THEOREM TypeCorrect == Spec => []TypeOK
<1>1. Inv => TypeOK
  BY DEF Inv
<1> QED BY <1>1, Invariance, PTL

(* No writer ever stores past the end of the buffer: whatever text, width  *)
(* of the vectors, size hint and spare capacity, and wherever it grew.     *)
THEOREM AlwaysInCapacity == Spec => []InCapacity
<1>1. Inv => InCapacity
  BY DEF Inv, InCapacity
<1> QED BY <1>1, Invariance, PTL

(* The call owns exactly one bytes object while it writes to one, and none *)
(* after it has spilled, failed or been refused, and answers with a text   *)
(* or with an exception, never both or neither.                            *)
THEOREM AlwaysOneObject == Spec => []OneObject
<1>1. Inv => OneObject
  BY DEF Inv, CallInv, OneObject, Owned
<1> QED BY <1>1, Invariance, PTL

(* The word test of copy_plain says there is an escape iff there is one.   *)
THEOREM AlwaysSwarExact == Spec => []SwarExact
<1>1. Inv => SwarExact
  <2> SUFFICES ASSUME Inv, pc = "copy", i + Word <= n
               PROVE  LET w == SubSeq(units, i + 1, i + Word)
                      IN  HasSpecial(w) <=> \E k \in 1 .. Word : Special(w[k])
    BY DEF SwarExact
  <2> DEFINE w == SubSeq(units, i + 1, i + Word)
  <2>1. n \in Nat /\ i \in 0 .. n /\ Word \in Nat /\ \A k \in 1 .. n : units[k] \in Byte
    BY CopyParts
  <2>2. Len(w) = Word /\ \A h \in 1 .. Word : w[h] = units[i + h]
    BY <2>1, CopyPiece
  <2>3. w \in Seq(Nat) /\ \A k \in 1 .. Len(w) : w[k] < 256
    <3>1. \A h \in 1 .. Word : i + h \in 1 .. n
      BY <2>1
    <3>2. \A h \in 1 .. Word : w[h] \in Nat /\ w[h] < 256
      BY <2>1, <2>2, <3>1, ByteRange
    <3>3. i + 1 \in Int /\ i + Word \in Int /\ \A h \in i + 1 .. i + Word : units[h] \in Nat
      <4>1. \A h \in i + 1 .. i + Word : h \in 1 .. n
        BY <2>1
      <4> QED BY <2>1, <4>1, ByteRange
    <3>4. w \in Seq(Nat)
      BY ONLY <3>3, SubSeqProperties
    <3> QED BY <2>2, <3>2, <3>4
  <2> HIDE DEF w
  <2>4. HasSpecial(w) <=> \E k \in 1 .. Len(w) : Special(w[k])
    BY <2>3, HasSpecialExact
  <2> QED BY <2>2, <2>4 DEF w
<1> QED BY <1>1, Invariance, PTL

-----------------------------------------------------------------------------
(* The refinement. *)

LEMMA KeptText ==
  ASSUME NEW b, Sized(b), NEW c, Sized(c), b.len <= c.len, Agree(c, b, b.len)
  PROVE  SubSeq(Text(c), 1, b.len) = Text(b)
<1>1. /\ Text(b) \in Seq(Bytes) /\ Len(Text(b)) = b.len /\ \A j \in 1 .. b.len : Text(b)[j] = b.mem[j]
      /\ Text(c) \in Seq(Bytes) /\ Len(Text(c)) = c.len /\ \A j \in 1 .. c.len : Text(c)[j] = c.mem[j]
      /\ b.len \in Nat /\ c.len \in Nat
  BY TextOf, BufferFields DEF Sized
<1>2. \A j \in 1 .. b.len : Text(c)[j] = Text(b)[j]
  <2> TAKE j \in 1 .. b.len
  <2>1. j \in 1 .. c.len
    BY <1>1
  <2> QED BY <1>1, <2>1 DEF Agree
<1> DEFINE s == SubSeq(Text(c), 1, b.len)
<1>3. \A j \in 1 .. b.len : Text(b)[j] \in Bytes
  BY <1>1, ElementOfSeq
<1>4. b.len \in Int /\ 1 \in Int /\ \A j \in 1 .. b.len : Text(c)[j] \in Bytes
  BY <1>1, <1>2, <1>3
<1>5. /\ s \in Seq(Bytes) /\ Len(s) = IF 1 <= b.len THEN b.len - 1 + 1 ELSE 0
      /\ \A j \in 1 .. b.len - 1 + 1 : s[j] = Text(c)[1 + j - 1]
  BY ONLY <1>4, SubSeqProperties
<1>6. Len(s) = b.len /\ b.len - 1 + 1 = b.len /\ \A j \in 1 .. b.len : 1 + j - 1 = j
  BY <1>1, <1>5
<1> HIDE DEF s
<1>7. Len(s) = Len(Text(b)) /\ \A j \in 1 .. Len(s) : s[j] = Text(b)[j]
  BY <1>1, <1>2, <1>5, <1>6
<1>8. s = Text(b)
  BY ONLY <1>1, <1>5, <1>7, SeqEqual
<1> QED BY <1>8 DEF s

(* What is past the text, where it lies and how large the buffer is do not *)
(* show: a step that keeps the text grows it or is a stutter.              *)
LEMMA GrowsOrStutters ==
  ASSUME Inv, Inv', TextGrows
  PROVE  Sink!Grow \/ UNCHANGED Sink!sink
<1>1. /\ Open /\ Open' /\ buf.len <= buf'.len /\ Agree(buf', buf, buf.len)
      /\ UNCHANGED <<start, result>>
  BY DEF TextGrows, Open
<1>2. Sized(buf) /\ Sized(buf') /\ buf.len \in Nat /\ buf'.len \in Nat
  BY BufferFields DEF Inv, TypeOK, Sized
<1>3. SubSeq(Text(buf'), 1, buf.len) = Text(buf)
  BY <1>1, <1>2, KeptText
<1>4. Len(Text(buf)) = buf.len /\ Len(Text(buf')) = buf'.len
  BY <1>2, TextOf
<1>5. CASE buf'.len = buf.len
  <2>1. Agree(buf, buf, buf.len)
    BY DEF Agree
  <2>2. Agree(buf', buf', buf.len)
    BY DEF Agree
  <2>3. SubSeq(Text(buf'), 1, buf'.len) = Text(buf')
    BY <1>2, <1>5, <2>2, KeptText
  <2>4. Text(buf') = Text(buf)
    BY <1>3, <1>5, <2>3
  <2> QED BY <1>1, <2>4 DEF Sink!sink, Open
<1>6. CASE buf'.len > buf.len
  BY <1>1, <1>3, <1>4, <1>6 DEF Sink!Grow, Open
<1> QED BY <1>1, <1>2, <1>5, <1>6

LEMMA SinkInit == Init => Sink!Init
BY DEF Init, Sink!Init, Open

LEMMA SinkArrays ==
  ASSUME Inv, Inv', ArrayBegins \/ ArrayEnds \/ ArrayDeclined
  PROVE  Sink!Mark \/ Sink!Unmark \/ Sink!RollBack
<1>1. pc = "ready" /\ pc' = "ready" /\ Open /\ Open' /\ result' = result
  BY DEF ArrayBegins, ArrayEnds, ArrayDeclined, Open
<1>2. Sized(buf) /\ Len(Text(buf)) = buf.len /\ buf.len \in Nat
  BY TextOf, BufferFields DEF Inv, TypeOK, Sized
<1>3. CASE ArrayBegins
  <2>1. start = Null /\ start' = buf.len /\ buf' = buf
    BY <1>3 DEF ArrayBegins
  <2> QED BY <1>1, <1>2, <2>1 DEF Sink!Mark, Open
<1>4. CASE ArrayEnds
  <2>1. start # Null /\ start' = Null /\ buf' = buf
    BY <1>4 DEF ArrayEnds
  <2> QED BY <1>1, <2>1 DEF Sink!Unmark, Open
<1>5. CASE ArrayDeclined
  <2>1. start # Null /\ start' = Null /\ buf' = SetLen(buf, start)
    BY <1>5 DEF ArrayDeclined
  <2>2. start \in Nat /\ start <= buf.len
    BY <2>1 DEF Inv, CallInv, TypeOK
  <2>3. Sized(buf') /\ buf'.len = start /\ buf'.mem = buf.mem
    BY <1>2, <2>1, <2>2, SetLenBuffer DEF Inv, TypeOK, Sized
  <2>4. Agree(buf, buf', start)
    BY <2>3 DEF Agree
  <2>5. SubSeq(Text(buf), 1, start) = Text(buf')
    BY <1>2, <2>2, <2>3, <2>4, KeptText
  <2> QED BY <1>1, <2>1, <2>5 DEF Sink!RollBack, Open
<1> QED BY <1>3, <1>4, <1>5

LEMMA SinkEnds ==
  ASSUME Inv, Inv', Refused \/ Unwind \/ Return
  PROVE  Sink!Deliver \/ Sink!GiveUp
<1>1. CASE Refused
  <2>1. pc' = "idle" /\ result' = Null /\ start' = Null
    BY <1>1 DEF Refused, Inv, CallInv
  <2> QED BY <2>1 DEF Sink!GiveUp, Open
<1>2. CASE Unwind
  <2>1. pc' = "idle" /\ result' = Null /\ start' = Null
    BY <1>2, UnwindKeeps DEF Unwind
  <2> QED BY <2>1 DEF Sink!GiveUp, Open
<1>3. CASE Return
  <2>1. pc = "ready" /\ pc' = "idle" /\ start = Null /\ start' = Null /\ result' \in {Text(buf), Null}
    BY <1>3, ReturnKeeps DEF Return
  <2>2. CASE result' = Text(buf)
    BY <2>1, <2>2 DEF Sink!Deliver, Open
  <2>3. CASE result' = Null
    BY <2>1, <2>3 DEF Sink!GiveUp, Open
  <2> QED BY <2>1, <2>2, <2>3
<1> QED BY <1>1, <1>2, <1>3

LEMMA SinkBegin ==
  ASSUME Inv, Inv', Begin
  PROVE  Sink!Begin
<1>1. /\ pc = "idle" /\ pc' = "ready" /\ result' = Null /\ start' = Null /\ buf'.len = 0
  BY DEF Begin, New
<1>2. Text(buf') = <<>>
  <2>1. Text(buf') = SubSeq(buf'.mem, 1, 0)
    BY <1>1 DEF Text
  <2>2. SubSeq(buf'.mem, 1, 0) = <<>>
    BY SubSeqEmpty
  <2> QED BY <2>1, <2>2
<1> QED BY <1>1, <1>2 DEF Sink!Begin, Open

(* Every step is a step of ByteSink or does not show there.                *)
LEMMA SinkNext == Inv /\ Inv' /\ [Next]_vars => [Sink!Next]_(Sink!sink)
<1> SUFFICES ASSUME Inv, Inv', [Next]_vars PROVE Sink!Next \/ UNCHANGED Sink!sink
  OBVIOUS
<1>1. CASE Start \/ Step \/ EncoderFails
  <2>1. TextGrows
    BY <1>1, StartKeeps, StepKeeps, FailuresKeep
  <2> QED BY <2>1, GrowsOrStutters DEF Sink!Next
<1>2. CASE ArrayBegins \/ ArrayEnds \/ ArrayDeclined
  BY <1>2, SinkArrays DEF Sink!Next
<1>3. CASE Refused \/ Unwind \/ Return
  BY <1>3, SinkEnds DEF Sink!Next
<1>4. CASE Begin
  BY <1>4, SinkBegin DEF Sink!Next
<1>5. CASE UNCHANGED vars
  BY <1>5 DEF vars, Sink!sink, Open
<1> QED BY <1>1, <1>2, <1>3, <1>4, <1>5 DEF Next

(* The writers implement ByteSink, for every capacity, growth and spill.   *)
THEOREM Refinement == Spec => ImplementsByteSink
<1>1. Spec => []Inv
  BY Invariance
<1> QED BY <1>1, SinkInit, SinkNext, PTL DEF Spec, ImplementsByteSink, Sink!Spec

=============================================================================
