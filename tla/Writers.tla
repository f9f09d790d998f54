------------------------------ MODULE Writers ------------------------------
(***************************************************************************)
(* What dumps writes into its buffer and how: str text copied and escaped  *)
(* (write_escaped, write_escaped_ucs), small pieces, floats formatted in   *)
(* place, whole rows of integers, and the roll back of a declined array.   *)
(* The writers store through a raw pointer, so each has to reserve what it *)
(* will store.  What the encoder writes, in which order, is Encoder's      *)
(* business: here any writer may follow any other.                         *)
(*                                                                         *)
(* A call holds the GIL while a writer runs and two calls never share a    *)
(* buffer, so one call at a time is looked at; the next one starts from    *)
(* the size hint it leaves.                                                *)
(***************************************************************************)
EXTENDS OutputBuffer, Swar

CONSTANTS
  Wide, Word,     \* the bytes a vector and a word store take: 16 and 8
  TextBytes,      \* the bytes of the UTF-8 texts tried
  CodePoints,     \* the code points of the other texts
  PieceSizes,     \* the lengths of the small pieces
  FloatSizes,     \* the lengths of the floats
  IntSizes,       \* the lengths of the integers in a row
  Hints,          \* the sizes of the thread's output before
  Null,           \* no result, no mark
  MaxUnits,       \* bound: the Cost of what a call writes
  MaxCalls        \* bound: the calls

ASSUME WritersAssumption ==
  /\ Wide \in Nat /\ Wide >= 4 /\ Word \in 1 .. Wide
  /\ TextBytes \subseteq Byte /\ \A c \in CodePoints : c \in Nat /\ c < 1114112
  /\ PieceSizes \subseteq 1 .. 32 /\ FloatSizes \subseteq 1 .. 24 /\ IntSizes \subseteq 1 .. 20
  /\ Hints \subseteq Nat /\ MaxUnits \in Nat /\ MaxCalls \in Nat
  /\ Null \notin Nat /\ Null \notin Seq(Byte \cup {Junk})

FloatBuffer == 24     \* size_of::<zmij::Buffer>()
Digits == 20          \* the longest integer text
Quote == <<34>>

VARIABLES
  pc,       \* the writer that is running; "idle" between calls
  buf,      \* the OutputBuffer
  hint,     \* HINT
  units,    \* what the writer writes: bytes, code points or lengths
  width,    \* the longest UTF-8 of one unit of a str that is not UTF-8
  i,        \* the units it has read
  dst,      \* the offset it stores to
  start,    \* the length the output is rolled back to, while in an array
  result,   \* the bytes returned
  exc,      \* whether an exception is set
  fits,     \* history: every store so far was inside the buffer
  log,      \* history: what was written and where it ended
  left,     \* what the call may still write
  calls     \* the calls still to come

vars == <<pc, buf, hint, units, width, i, dst, start, result, exc, fits, log, left, calls>>

n == Len(units)
Surrogates == 55296 .. 57343

-----------------------------------------------------------------------------
(* The bytes of one unit. *)

(* ESCAPE: the letter after the backslash, or 0 if c is copied through.    *)
EscapeLetter(c) ==
  CASE c = 8 -> 98 [] c = 9 -> 116 [] c = 10 -> 110 [] c = 12 -> 102 [] c = 13 -> 114
    [] c \in {34, 92} -> c
    [] c \in 0 .. 31 \ {8, 9, 10, 12, 13} -> 117
    [] OTHER -> 0
Special(c) == EscapeLetter(c) # 0
Hex(d) == IF d < 10 THEN 48 + d ELSE 87 + d

PutEscape(c) ==
  IF EscapeLetter(c) = 117 THEN <<92, 117, 48, 48, Hex(c \div 16), Hex(c % 16)>>
                           ELSE <<92, EscapeLetter(c)>>

Utf8(c) ==
  IF c < 128 THEN <<c>>
  ELSE IF c < 2048 THEN <<192 + (c \div 64), 128 + (c % 64)>>
  ELSE IF c < 65536 THEN <<224 + (c \div 4096), 128 + ((c \div 64) % 64), 128 + (c % 64)>>
  ELSE <<240 + (c \div 262144), 128 + ((c \div 4096) % 64), 128 + ((c \div 64) % 64), 128 + (c % 64)>>

-----------------------------------------------------------------------------
(* Copies of fixed size: <<from, size>> each; they may overlap.            *)

Spans(sizes, len) == {<<0, s>> : s \in sizes} \cup {<<len - s, s>> : s \in sizes}
Bytewise(len) == {<<k, 1>> : k \in 0 .. len - 1}

SmallCopy(len) ==       \* small_copy
  IF len >= 16 THEN Spans({16}, len) ELSE IF len >= 8 THEN Spans({8}, len)
  ELSE IF len >= 4 THEN Spans({4}, len) ELSE Bytewise(len)

CopyDigits(len) ==      \* copy_digits
  IF len > 16 THEN Spans({8}, len) \cup {<<8, 8>>}
  ELSE IF len >= 8 THEN Spans({8}, len) ELSE IF len >= 4 THEN Spans({4}, len) ELSE Bytewise(len)

(* The bytes 1 .. Len(s) of s that spans copy, stored from offset at on.   *)
StoreSpans(b, at, s, spans) ==
  LET copied == UNION {p[1] + 1 .. p[1] + p[2] : p \in spans}
  IN  Store(b, at, [k \in 1 .. Len(s) |-> IF k \in copied THEN s[k]
                                          ELSE IF at + k <= Cap(b) THEN b.mem[at + k] ELSE Junk])

Sample(len) == [k \in 1 .. len |-> 128 + k]     \* the content of a piece

-----------------------------------------------------------------------------
(* A call. *)

Refused ==              \* bad arguments, or no memory for the first buffer
  /\ pc = "idle" /\ calls > 0
  /\ calls' = calls - 1 /\ result' = Null /\ exc' = TRUE /\ buf' = NoBuffer /\ log' = <<>>
  /\ UNCHANGED <<pc, hint, units, width, i, dst, start, fits, left>>

Begin ==
  /\ pc = "idle" /\ calls > 0
  /\ pc' = "ready" /\ buf' = New(hint)
  /\ calls' = calls - 1 /\ left' = MaxUnits
  /\ result' = Null /\ exc' = FALSE /\ start' = Null /\ log' = <<>>
  /\ UNCHANGED <<hint, units, width, i, dst, fits>>

(* The bound: what one text, row or piece takes of it.                     *)
Cost(w, len) == IF w = "copy" THEN 2 + len ELSE 2 + 2 * len

(* The writer starts at dst, past a first byte it has stored.              *)
Writing(w, us, b, first) ==
  /\ buf' = Store(b, b.len, first)
  /\ fits' = (fits /\ Fits(b, b.len, first))
  /\ pc' = w /\ units' = us /\ i' = 0 /\ dst' = b.len + Len(first)
  /\ left' = left - Cost(w, Len(us))
  /\ UNCHANGED <<hint, start, result, exc, log, calls>>

(* The writer has stored its last bytes.                                   *)
Ends(kind, last) ==
  /\ buf' = SetLen(Store(buf, dst, last), dst + Len(last))
  /\ fits' = (fits /\ Fits(buf, dst, last))
  /\ pc' = "ready" /\ units' = <<>> /\ width' = 2 /\ i' = 0 /\ dst' = 0
  /\ log' = Append(log, [kind |-> kind, units |-> units, end |-> buf'.len])
  /\ UNCHANGED <<hint, start, result, exc, left, calls>>

-----------------------------------------------------------------------------
(* write_escaped and copy_plain. *)

MutTextRoom(len) == len + 2             \* no slack: the first escape has no room
TextRoom(len) == len + 2 + Wide
RestRoom(len) == len + 6 + 1 + Wide

StartUtf8(text) ==
  /\ pc = "ready"
  /\ \E b \in Reserve(buf, TextRoom(Len(text))) : Writing("copy", text, b, Quote)
  /\ UNCHANGED width

(* A vector store copies Wide bytes, and counts those up to the first one  *)
(* that needs an escape.                                                   *)
CopyWide ==
  /\ pc = "copy" /\ i + Wide <= n
  /\ LET v    == SubSeq(units, i + 1, i + Wide)
         hits == {k \in 1 .. Wide : Special(v[k])}
         k    == IF hits = {} THEN Wide ELSE (CHOOSE h \in hits : \A g \in hits : h <= g) - 1
     IN  /\ buf' = Store(buf, dst, v)
         /\ fits' = (fits /\ Fits(buf, dst, v))
         /\ i' = i + k /\ dst' = dst + k
         /\ pc' = IF hits = {} THEN "copy" ELSE "hit"
  /\ UNCHANGED <<hint, units, width, start, result, exc, log, left, calls>>

PlainWord == i + Word <= n /\ ~HasSpecial(SubSeq(units, i + 1, i + Word))
GoesOn == i < n /\ (PlainWord \/ ~Special(units[i + 1]))

(* A word without a special byte, or single bytes before one.              *)
CopyRest ==
  LET k == IF PlainWord THEN Word ELSE 1
      v == SubSeq(units, i + 1, i + k)
  IN  /\ pc = "copy" /\ i + Wide > n /\ GoesOn
      /\ buf' = Store(buf, dst, v)
      /\ fits' = (fits /\ Fits(buf, dst, v))
      /\ i' = i + k /\ dst' = dst + k
      /\ UNCHANGED <<pc, hint, units, width, start, result, exc, log, left, calls>>

CopyStops ==
  /\ pc = "copy" /\ i + Wide > n /\ ~GoesOn
  /\ pc' = "hit"
  /\ UNCHANGED <<buf, hint, units, width, i, dst, start, result, exc, fits, log, left, calls>>

MutEscape ==            \* the bytes written since the last set_len are lost in a growth
  /\ pc = "hit" /\ i < n
  /\ LET e == PutEscape(units[i + 1])
         w == dst + Len(e)
     IN  /\ \E b \in Reserve(Store(buf, dst, e), RestRoom(n - (i + 1))) : buf' = SetLen(b, w)
         /\ fits' = (fits /\ Fits(buf, dst, e)) /\ dst' = w
  /\ i' = i + 1 /\ pc' = "copy"
  /\ UNCHANGED <<hint, units, width, start, result, exc, log, left, calls>>

(* put_escape stores first; room for the rest is made after it.            *)
Escape ==
  /\ pc = "hit" /\ i < n
  /\ LET e == PutEscape(units[i + 1])
         w == dst + Len(e)
     IN  /\ buf' \in Reserve(SetLen(Store(buf, dst, e), w), RestRoom(n - (i + 1)))
         /\ fits' = (fits /\ Fits(buf, dst, e)) /\ dst' = w
  /\ i' = i + 1 /\ pc' = "copy"
  /\ UNCHANGED <<hint, units, width, start, result, exc, log, left, calls>>

CloseUtf8 == pc = "hit" /\ i = n /\ Ends("utf8", Quote)

-----------------------------------------------------------------------------
(* write_escaped_ucs. *)

UcsRoom(more) == more * width + 6 + 1

StartUcs(text, w) ==
  /\ pc = "ready"
  /\ \E b \in Reserve(buf, Len(text) * w + 2) : Writing("ucs", text, b, Quote)
  /\ width' = w

UcsPlain ==
  /\ pc = "ucs" /\ i < n /\ ~Special(units[i + 1]) /\ units[i + 1] \notin Surrogates
  /\ LET s == Utf8(units[i + 1])
     IN  /\ buf' = Store(buf, dst, s)
         /\ fits' = (fits /\ Fits(buf, dst, s)) /\ dst' = dst + Len(s)
  /\ i' = i + 1
  /\ UNCHANGED <<pc, hint, units, width, start, result, exc, log, left, calls>>

UcsEscape ==            \* room is made before put_escape stores
  /\ pc = "ucs" /\ i < n /\ Special(units[i + 1])
  /\ LET e == PutEscape(units[i + 1])
     IN  \E b \in Reserve(SetLen(buf, dst), UcsRoom(n - i)) :
           /\ buf' = Store(b, dst, e)
           /\ fits' = (fits /\ Fits(b, dst, e)) /\ dst' = dst + Len(e)
  /\ i' = i + 1
  /\ UNCHANGED <<pc, hint, units, width, start, result, exc, log, left, calls>>

UcsSurrogate ==         \* the partial text is left; the call fails
  /\ pc = "ucs" /\ i < n /\ units[i + 1] \in Surrogates
  /\ pc' = "failing" /\ exc' = TRUE
  /\ units' = <<>> /\ width' = 2 /\ i' = 0 /\ dst' = 0
  /\ UNCHANGED <<buf, hint, start, result, fits, log, left, calls>>

CloseUcs == pc = "ucs" /\ i = n /\ Ends("ucs", Quote)

-----------------------------------------------------------------------------
(* Pieces, floats and rows. *)

Whole(kind, s, b, spans) ==
  /\ buf' = SetLen(StoreSpans(b, b.len, s, spans), b.len + Len(s))
  /\ fits' = (fits /\ \A p \in spans : b.len + p[1] + p[2] <= Cap(b))
  /\ log' = Append(log, [kind |-> kind, units |-> s, end |-> b.len + Len(s)])
  /\ left' = left - 2
  /\ UNCHANGED <<pc, hint, units, width, i, dst, start, result, exc, calls>>

(* push, extend_from_slice and small_copy; integers, dates and null too.   *)
Piece(len) ==
  /\ pc = "ready" /\ left >= 2
  /\ \E b \in Reserve(buf, len) : Whole("piece", Sample(len), b, SmallCopy(len))

(* write_finite: the formatter owns all of its buffer.                     *)
Float(len) ==
  /\ pc = "ready" /\ left >= 2
  /\ \E b \in Reserve(buf, FloatBuffer) :
       Whole("piece", Sample(len), b, {<<0, len>>, <<0, FloatBuffer>>})

RowRoom(len) == len * (Digits + 1) + 2

StartRow(sizes) ==
  /\ pc = "ready"
  /\ \E b \in Reserve(buf, RowRoom(Len(sizes))) : Writing("row", sizes, b, <<91>>)
  /\ UNCHANGED width

RowElement ==
  /\ pc = "row" /\ i < n
  /\ LET comma == IF i > 0 THEN <<44>> ELSE <<>>
         s == Sample(units[i + 1])
         b == Store(buf, dst, comma)
         d == dst + Len(comma)
         spans == CopyDigits(Len(s))
     IN  /\ buf' = StoreSpans(b, d, s, spans)
         /\ fits' = (fits /\ Fits(buf, dst, comma) /\ \A p \in spans : d + p[1] + p[2] <= Cap(b))
         /\ dst' = d + Len(s)
  /\ i' = i + 1
  /\ UNCHANGED <<pc, hint, units, width, start, result, exc, log, left, calls>>

CloseRow == pc = "row" /\ i = n /\ Ends("row", <<93>>)

-----------------------------------------------------------------------------
(* Arrays, and the end of the call. *)

ArrayBegins ==
  /\ pc = "ready" /\ start = Null /\ start' = buf.len
  /\ left >= 2 /\ left' = left - 2
  /\ UNCHANGED <<pc, buf, hint, units, width, i, dst, result, exc, fits, log, calls>>

ArrayEnds ==
  /\ pc = "ready" /\ start # Null /\ start' = Null
  /\ UNCHANGED <<pc, buf, hint, units, width, i, dst, result, exc, fits, log, left, calls>>

ArrayDeclined ==
  /\ pc = "ready" /\ start # Null /\ start' = Null
  /\ buf' = SetLen(buf, start)
  /\ log' = SelectSeq(log, LAMBDA e : e.end <= start)
  /\ UNCHANGED <<pc, hint, units, width, i, dst, result, exc, fits, left, calls>>

EncoderFails ==         \* an object that cannot be written, or a callback that raises
  /\ pc = "ready" /\ pc' = "failing" /\ exc' = TRUE
  /\ UNCHANGED <<buf, hint, units, width, i, dst, start, result, fits, log, left, calls>>

Unwind ==               \* dumps returns null and drops the buffer
  /\ pc = "failing" /\ pc' = "idle"
  /\ buf' = Drop(buf) /\ start' = Null /\ log' = <<>>
  /\ UNCHANGED <<hint, units, width, i, dst, result, exc, fits, left, calls>>

Return ==               \* Python owns the result from here on
  /\ pc = "ready" /\ start = Null /\ pc' = "idle"
  /\ hint' = buf.len
  /\ \E f \in Finish(buf, Null) :
       /\ result' = f.result /\ exc' = (f.result = Null)
       /\ buf' = [NoBuffer EXCEPT !.live = f.live]
  /\ UNCHANGED <<units, width, i, dst, start, fits, log, left, calls>>

-----------------------------------------------------------------------------

Texts(w, S) == UNION {[1 .. len -> S] : len \in {l \in 0 .. left : Cost(w, l) <= left}}
Units(w) == {c \in CodePoints : c < CASE w = 2 -> 256 [] w = 3 -> 65536 [] w = 4 -> 16777216}

Init ==
  /\ pc = "idle" /\ buf = NoBuffer /\ hint \in Hints
  /\ units = <<>> /\ width = 2 /\ i = 0 /\ dst = 0 /\ start = Null
  /\ result = Null /\ exc = FALSE /\ fits = TRUE /\ log = <<>>
  /\ left = 0 /\ calls = MaxCalls

Start ==
  /\ pc = "ready"
  /\ \/ \E text \in Texts("copy", TextBytes) : StartUtf8(text)
     \/ \E w \in 2 .. 4 : \E text \in Texts("ucs", Units(w)) : StartUcs(text, w)
     \/ \E len \in PieceSizes : Piece(len)
     \/ \E len \in FloatSizes : Float(len)
     \/ \E sizes \in Texts("row", IntSizes) : sizes # <<>> /\ StartRow(sizes)

Step ==
  \/ CopyWide \/ CopyRest \/ CopyStops \/ Escape \/ CloseUtf8
  \/ UcsPlain \/ UcsEscape \/ UcsSurrogate \/ CloseUcs
  \/ RowElement \/ CloseRow

Next ==
  \/ Refused \/ Begin \/ Start \/ Step
  \/ ArrayBegins \/ ArrayEnds \/ ArrayDeclined
  \/ EncoderFails \/ Unwind \/ Return

Spec == Init /\ [][Next]_vars

-----------------------------------------------------------------------------
(* Properties.                                                             *)

PCs == {"idle", "ready", "copy", "hit", "ucs", "row", "failing"}

(* Every variable keeps its type, and no more bytes count as written than  *)
(* the buffer has room for.                                                *)
TypeOK ==
  /\ pc \in PCs /\ buf \in Buffer /\ buf.len <= Cap(buf)
  /\ hint \in Nat /\ units \in Seq(Nat) /\ width \in 2 .. 4
  /\ i \in 0 .. n /\ dst \in Nat /\ start \in Nat \cup {Null}
  /\ exc \in BOOLEAN /\ fits \in BOOLEAN /\ left \in Nat /\ calls \in 0 .. MaxCalls

(* No writer stores past the end of the buffer: vector and word stores     *)
(* that pass the text they copy, escapes longer than their share, numbers  *)
(* formatted in place and rows of integers, whatever the buffer's size and *)
(* position were when the writer began and whether it grew or spilled.     *)
InCapacity == fits

(* The word test of copy_plain is exact although a borrow runs from one    *)
(* byte into the next: it says there is an escape to write iff there is.   *)
SwarExact ==
  pc = "copy" /\ i + Word <= n =>
    LET w == SubSeq(units, i + 1, i + Word)
    IN  HasSpecial(w) <=> \E k \in 1 .. Word : Special(w[k])

(* The call owns exactly one bytes object while it writes to one, none     *)
(* after it has spilled, failed or been refused, and Python gets the one   *)
(* it returns: growth, spilling and a failed resize leak and release       *)
(* nothing twice.  It answers with that object or with an exception, never *)
(* both or neither: the exception of an allocation it recovered from is    *)
(* not left behind.                                                        *)
OneObject ==
  /\ buf.live = IF buf.obj = "bytes" \/ (pc = "idle" /\ result # Null) THEN 1 ELSE 0
  /\ pc = "idle" /\ calls < MaxCalls => (exc <=> result = Null)

-----------------------------------------------------------------------------
(* The writers implement ByteSink: what the buffer holds beyond len, where *)
(* it lies and how large it is never show.                                 *)
Open == pc # "idle"
Sink == INSTANCE ByteSink WITH
          open <- Open,
          text <- IF Open THEN Text(buf) ELSE <<>>,
          mark <- start

ImplementsByteSink == Sink!Spec
=============================================================================
