---------------------------- MODULE NumpyDates ----------------------------
(***************************************************************************)
(* Which values of a numpy object have a text, and what that of a          *)
(* datetime64 value or of an offset says, by a calendar that is defined by *)
(* counting.                                                               *)
(***************************************************************************)
EXTENDS NumpyArrays

CONSTANTS Deltas   \* the offsets tried, as timedeltas

-----------------------------------------------------------------------------
(* The Gregorian calendar, by counting days.                               *)

Leap(y) == y % 4 = 0 /\ (y % 100 = 0 => y % 400 = 0)
MonthLength(y, m) ==
  IF m = 2 THEN IF Leap(y) THEN 29 ELSE 28
  ELSE IF m \in {4, 6, 9, 11} THEN 30 ELSE 31
DaysBeforeMonth(y, m) ==
  LET before[i \in 1 .. 12] == IF i = 1 THEN 0 ELSE before[i - 1] + MonthLength(y, i - 1)
  IN  before[m]
LeapsBefore(y) ==       \* the leap years in 0 .. y - 1
  (y + 3) \div 4 - (y + 99) \div 100 + (y + 399) \div 400

(* Days from 1970-01-01 to the date <<y, m, d>>; 0000-01-01 is MinDays.    *)
DayNumber(date) ==
  MinDays + 365 * date[1] + LeapsBefore(date[1]) + DaysBeforeMonth(date[1], date[2])
  + date[3] - 1

LastYear == 9999
Valid(date) ==
  /\ date[1] \in 0 .. LastYear /\ date[2] \in 1 .. 12
  /\ date[3] \in 1 .. MonthLength(date[1], date[2])

(* The microseconds that the fields of a time of day, or of an offset, say *)
TimeOf(f) ==
  f[1] * UsPerHour + f[2] * UsPerMinute
  + (IF Len(f) > 2 THEN f[3] * UsPerSecond ELSE 0) + (IF Len(f) > 3 THEN f[4] ELSE 0)

Clock(f) ==
  /\ Len(f) \in 2 .. 4 /\ f[1] \in 0 .. TwentyFour - 1 /\ f[2] \in 0 .. Sixty - 1
  /\ Len(f) > 2 => f[3] \in 0 .. Sixty - 1
  /\ Len(f) > 3 => f[4] \in 1 .. UsPerSecond - 1

-----------------------------------------------------------------------------
(* What a value of v ticks is.                                             *)

Scale(u) == u.mult * Coarse[u.base]     \* microseconds a tick
EndOfTime == (MaxDays + 1) * UsPerDay - 1

Within(v, mult, first, last) == -v <= (-first) \div mult /\ v <= last \div mult

(* It falls into the years 0 to 9999.                                      *)
HasDate(v, u) ==
  CASE u.base = "Y" -> Within(v, u.mult, -1970, 8029)
    [] u.base = "M" -> Within(v, u.mult, -1970 * 12, (8030 * 12) - 1)
    [] u.base \in DOMAIN Coarse -> Within(v, Scale(u), MinDays * UsPerDay, EndOfTime)
    [] u.base \in DOMAIN Fine ->
         (v * u.mult) \div Fine[u.base] \in MinDays * UsPerDay .. EndOfTime
    [] OTHER -> FALSE

(* A value is an i64, an offset is one that CPython accepts, and an i128   *)
(* is wide enough for every date in the finest unit.                       *)
ASSUME DatesAssumption ==
  /\ \A a \in Arrays \cup Scalars :
       /\ a.dtype.good \in BOOLEAN /\ a.dtype.brackets \in BOOLEAN
       /\ a.dtype.digits \in Seq(0 .. 9)
       /\ a.elem[1] = "M" => \A k \in DOMAIN a.values : a.values[k] \in NaT .. MaxI64
  /\ \A a \in Scalars : DOMAIN a.values = {1}
  /\ \A delta \in Deltas : /\ DeltaUs(delta) \in Int
                           /\ -UsPerDay < DeltaUs(delta) /\ DeltaUs(delta) < UsPerDay
  /\ \A base \in DOMAIN Fine : EndOfTime < MaxI128 \div Fine[base]
  /\ None \notin Int \cup {Unrepresentable, GenericUnit}
                \cup [y : Int, mo : Int, d : Int, h : Int, mi : Int, s : Int, us : Int]

(* The text t is its date, to the microsecond below or to the second, and  *)
(* at offset zero if one is asked for.                                     *)
Denotes(t, v, u) ==
  LET n     == v * u.mult
      whole == n \div Fine[u.base]
      midnight == DayNumber(t.ymd) * UsPerDay
      cut(x) == IF "omit_microseconds" \in opts THEN x - (x % UsPerSecond) ELSE x
  IN  /\ Valid(t.ymd) /\ Clock(t.hms) /\ Len(t.hms) > 2
      /\ CASE u.base = "Y" -> t.ymd = <<1970 + n, 1, 1>> /\ TimeOf(t.hms) = 0
           [] u.base = "M" -> /\ (t.ymd[1] - 1970) * 12 + t.ymd[2] - 1 = n
                              /\ t.ymd[3] = 1 /\ TimeOf(t.hms) = 0
           [] u.base \in DOMAIN Coarse -> midnight + TimeOf(t.hms) = cut(v * Scale(u))
           [] OTHER -> midnight + TimeOf(t.hms) = cut(whole)
      /\ t.offset = IF "naive_utc" \notin opts THEN <<>>
                    ELSE IF "utc_z" \in opts THEN <<"Z">> ELSE <<"+", 0, 0>>

LeafDenotes(t, v) ==
  IF ~NeedsUnit THEN t = v
  ELSE IF v = NaT THEN t = "null" ELSE Denotes(t, v, unit)

(* An object is written exactly if all of it can be: the layout is one     *)
(* isojson reads, and each element of a datetime64 array is NaT or falls   *)
(* into the years 0 to 9999 in a unit the dtype names.  An array without   *)
(* elements needs no unit.                                                 *)
Layout ==
  IsArray => obj.contiguous /\ obj.native /\ obj.shape # <<>> /\ obj.elem \in Supported
Dateable(v) == v = NaT \/ HasDate(v, ParseDt64(obj.dtype))
Elements ==
  NeedsUnit /\ DOMAIN obj.values # {} =>
    /\ ParseDt64(obj.dtype) # None
    /\ \A k \in DOMAIN obj.values : Dateable(obj.values[k])
WrittenIffPossible ==
  /\ pc = "written" => Layout /\ Elements
  /\ pc = "declined" => ~(Layout /\ Elements)

(* The text of a scalar that is written is its value's: of a datetime64,   *)
(* null or its date, at both ends of the years 0 to 9999 and around every  *)
(* leap day and new year's day of 400 years.  Years and months are counted *)
(* as months, every other unit to the microsecond below, before 1970 as    *)
(* after it.                                                               *)
ScalarRight ==
  pc = "written" /\ ~IsArray =>
    out[1] = "before" /\ Len(out) = 2 /\ LeafDenotes(out[2], obj.values[1])

(* The text of an offset, of any sign and down to the microsecond, says    *)
(* that offset, and says no seconds if there are none.                     *)
OffsetsRead ==
  pc = "scalar" =>
    \A delta \in Deltas :
      LET us == DeltaUs(delta)
          t  == FmtOffset(us, opts)
          f  == Tail(t)
      IN  IF t = <<"Z">> THEN us = 0 /\ "utc_z" \in opts
          ELSE /\ t[1] \in {"+", "-"} /\ Clock(f)
               /\ us = (IF t[1] = "-" THEN -TimeOf(f) ELSE TimeOf(f))
               /\ Len(f) = 3 => f[3] # 0
=============================================================================
