------------------------------ MODULE MCNumpy ------------------------------
(* Arrays of up to three dimensions and scalars at every edge of the       *)
(* calendar.                                                               *)
EXTENDS NumpyText, SequencesExt, FiniteSetsExt

MCOptSets == {{}, {"indent_2"}, {"naive_utc", "utc_z"}, {"naive_utc", "omit_microseconds"}}

(* dtype strings: units, and those that parse_dt64 refuses.                *)
Str(digits, code) == [good |-> TRUE, brackets |-> TRUE, digits |-> digits, code |-> code]
Plain == [good |-> TRUE, brackets |-> FALSE, digits |-> <<>>, code |-> "none"]
Malformed == [Plain EXCEPT !.good = FALSE]
Refused == {Malformed, Str(<<0>>, "D"), Str(<<>>, "none"), Str(<<9>>, "Q"),
            Str(<<3, 0, 0, 0, 0, 0, 0, 0, 1>>, "D"), Str(<<9, 9, 9, 9, 9, 9, 9, 9, 9, 9>>, "D")}

-----------------------------------------------------------------------------
(* Arrays. *)

Product(s) == FoldLeft(LAMBDA x, y : x * y, 1, s)
Shapes == {<<>>, <<0>>, <<1>>, <<2>>, <<3>>, <<2, 2>>, <<0, 2>>, <<2, 0>>, <<1, 3>>,
           <<3, 1>>, <<2, 1, 2>>, <<1, 1, 2>>, <<1, 0, 2>>, <<2, 2, 0>>, <<2, 2, 2>>}
Contiguous(shape, size) ==
  [d \in DOMAIN shape |-> size * Product(SubSeq(shape, d + 1, Len(shape)))]

(* Junk is what numpy may leave in a stride it does not use.               *)
Junk == 1000
Junked(shape, strides) ==
  [d \in DOMAIN shape |->
     IF shape[d] = 1 \/ (\E e \in DOMAIN shape : shape[e] = 0) THEN Junk ELSE strides[d]]

MakeArray(shape, elem, values, dtype, junk) ==
  LET strides == Contiguous(shape, elem[2])
  IN  [contiguous |-> TRUE, native |-> TRUE, elem |-> elem, shape |-> shape,
       strides |-> IF junk THEN Junked(shape, strides) ELSE strides,
       values |-> values, dtype |-> dtype]

Indices(shape) == [k \in 1 .. Product(shape) |-> k]
Numbers == {MakeArray(sh, el, Indices(sh), Malformed, junk) :
              sh \in Shapes, el \in {<<"b", 1>>, <<"i", 4>>, <<"f", 8>>, <<"c", 8>>},
              junk \in BOOLEAN}
Layouts == {[a EXCEPT !.contiguous = c, !.native = n] :
              a \in {x \in Numbers : x.shape \in {<<>>, <<2, 2>>}}, c \in BOOLEAN, n \in BOOLEAN}

(* Dates: every row of up to three, and one that is not a date anywhere in *)
(* a larger array.                                                         *)
TooFar == MaxDays + 1
Dates(shape) ==
  LET n == Product(shape) IN
  IF n <= 3 THEN [1 .. n -> {0, NaT, TooFar}]
  ELSE {[k \in 1 .. n |-> IF k = bad THEN TooFar ELSE k] : bad \in 0 .. n}
DateArrays == {MakeArray(sh, <<"M", 8>>, v, dtype, TRUE) :
                 sh \in {<<3>>, <<2, 2>>, <<2, 1, 2>>}, v \in Dates(<<3>>) \cup Dates(<<2, 2>>),
                 dtype \in {Str(<<>>, "D"), Str(<<2>>, "us"), Plain, Malformed}}
EmptyDates == {MakeArray(sh, <<"M", 8>>, <<>>, Malformed, TRUE) :
                 sh \in {<<0>>, <<2, 0>>, <<1, 0, 2>>}}
MCArrays == Numbers \cup Layouts \cup {a \in DateArrays : Len(a.values) = Product(a.shape)}
            \cup EmptyDates

-----------------------------------------------------------------------------
(* Scalars. *)

Scalar1(dtype, v) == [elem |-> <<"M", 8>>, values |-> <<v>>, dtype |-> dtype]

(* The days around the ends of February and of the year, in every year of  *)
(* an era of 400 years, and in the first and last years there are.         *)
Edges(y) == LET f == DayNumber(<<y, 1, 1>>) IN {f - 1, f, f + 58, f + 59, f + 60}
EdgeDays == UNION {Edges(y) : y \in 0 .. 5 \cup 1600 .. 2001 \cup {9996, 9999, 10000}}
Days == {Scalar1(Str(<<>>, "D"), d) : d \in EdgeDays}

(* For every unit and a multiplier, the ticks around 1970, around both     *)
(* ends and far beyond them.  (An i64 times an i64 fits an i128; here not  *)
(* every product does, and only those of the units whose ticks are so long *)
(* that it is past the end anyway are taken.)                              *)
Around(x) == x - 2 .. x + 2
Ends(base, k) ==
  CASE base = "Y" -> {-1970 \div k, 8029 \div k}
    [] base = "M" -> {(-1970 * 12) \div k, ((8030 * 12) - 1) \div k}
    [] base \in DOMAIN Coarse ->
         {(MinDays * UsPerDay) \div (k * Coarse[base]), EndOfTime \div (k * Coarse[base])}
    [] OTHER -> {(MinDays * (UsPerDay \div 2) * Fine[base]) \div k}
Ticks(base, k) ==
  {NaT} \cup (IF base \in DOMAIN Fine THEN {} ELSE {MaxI64, -MaxI64}) \cup UNION {Around(x) : x \in Ends(base, k) \cup {0, UsPerDay, -13}}
MCScalars ==
  Days
  \cup UNION {{Scalar1(Str(u[1], u[2]), v) : v \in Ticks(u[2], u[3])} :
                u \in {<<d[1], b, d[2]>> : d \in {<<<<>>, 1>>, <<<<7>>, 7>>, <<<<1, 2>>, 12>>},
                                           b \in Codes}}
  \cup {Scalar1(dtype, v) : dtype \in Refused \cup {Plain}, v \in {NaT, 0, 7}}
  \cup {[elem |-> e, values |-> <<1>>, dtype |-> Malformed] : e \in {<<"i", 8>>, <<"b", 1>>}}

(* Every timedelta of less than a day, as CPython keeps it.                *)
MCDeltas ==
  {[days |-> d, seconds |-> s, us |-> us] : d \in {-1, 0},
     s \in 0 .. (UsPerDay \div UsPerSecond) - 1, us \in 0 .. UsPerSecond - 1}
  \ {[days |-> -1, seconds |-> 0, us |-> 0]}
=============================================================================
