------------------------------ MODULE Calendar ------------------------------
(***************************************************************************)
(* The calendar arithmetic of datetime64 values (src/src/datetime.rs): pure*)
(* functions of a tick count and a unit.  The sizes of the units and of    *)
(* the machine's integers are parameters, because TLC's integers have 32   *)
(* bits; the days are the real ones.                                       *)
(***************************************************************************)
EXTENDS Integers, Sequences

CONSTANTS
  Thousand, Sixty, TwentyFour,   \* 1000, 60 and 24
  MaxI64,                        \* i64::MAX; NaT is i64::MIN
  MaxI128,                       \* i128::MAX
  None                           \* Option::None

ASSUME CalendarAssumption ==
  /\ Thousand \in Nat \ {0} /\ Sixty \in Nat \ {0} /\ TwentyFour \in Nat \ {0}
  /\ MaxI64 \in Nat /\ MaxI128 \in Nat /\ MaxI64 <= MaxI128

MinDays == -719528
MaxDays == 2932896
NaT == -MaxI64 - 1

UsPerSecond == Thousand * Thousand
UsPerMinute == Sixty * UsPerSecond
UsPerHour == Sixty * UsPerMinute
UsPerDay == TwentyFour * UsPerHour

-----------------------------------------------------------------------------

MutCivilFromDays(days) ==   \* the era's last day falls into a 401st year
  LET z   == days + 719468
      era == z \div 146097
      doe == z - era * 146097
      yoe == (doe - (doe \div 1460) + (doe \div 36524)) \div 365
      doy == doe - (365 * yoe + (yoe \div 4) - (yoe \div 100))
      mp  == (5 * doy + 2) \div 153
      mo  == IF mp < 10 THEN mp + 3 ELSE mp - 9
  IN  [y |-> yoe + era * 400 + (IF mo <= 2 THEN 1 ELSE 0), mo |-> mo,
       d |-> doy - ((153 * mp + 2) \div 5) + 1]

(* The date that is days after 1970-01-01.  Its years start in March.      *)
CivilFromDays(days) ==
  LET z   == days + 719468
      era == z \div 146097
      doe == z - era * 146097
      yoe == (doe - (doe \div 1460) + (doe \div 36524) - (doe \div 146096)) \div 365
      doy == doe - (365 * yoe + (yoe \div 4) - (yoe \div 100))
      mp  == (5 * doy + 2) \div 153
      mo  == IF mp < 10 THEN mp + 3 ELSE mp - 9
  IN  [y |-> yoe + era * 400 + (IF mo <= 2 THEN 1 ELSE 0), mo |-> mo,
       d |-> doy - ((153 * mp + 2) \div 5) + 1]

(* Units of at least a microsecond are so many of them; the others are so  *)
(* many to one.                                                            *)
Coarse == [W |-> 7 * UsPerDay, D |-> UsPerDay, h |-> UsPerHour, m |-> UsPerMinute,
           s |-> UsPerSecond, ms |-> Thousand, us |-> 1]
Fine == [ns |-> Thousand, ps |-> Thousand * Thousand, fs |-> Thousand * UsPerSecond,
         as |-> UsPerSecond * UsPerSecond]
Codes == {"Y", "M"} \cup DOMAIN Coarse \cup DOMAIN Fine

(* checked_mul of a by a positive k.                                       *)
Overflows(a, k, max) == IF a >= 0 THEN a > max \div k ELSE -a > (max + 1) \div k

Unrepresentable == [error |-> "unrepresentable"]
GenericUnit == [error |-> "generic unit"]

Month(y, mo) ==
  IF y \in 0 .. 9999
    THEN [y |-> y, mo |-> mo, d |-> 1, h |-> 0, mi |-> 0, s |-> 0, us |-> 0]
    ELSE Unrepresentable

(* The parts of the instant us microseconds after 1970-01-01T00:00.        *)
Instant(us) ==
  LET days == us \div UsPerDay
      date == CivilFromDays(days)
      rem  == us % UsPerDay
  IN  IF days \notin MinDays .. MaxDays THEN Unrepresentable
      ELSE [y |-> date.y, mo |-> date.mo, d |-> date.d,
            h |-> rem \div UsPerHour, mi |-> (rem \div UsPerMinute) % Sixty,
            s |-> (rem \div UsPerSecond) % Sixty, us |-> rem % UsPerSecond]

(* dt64_to_parts, of v ticks of mult units each; None is NaT.              *)
Dt64ToParts(v, unit) ==
  LET n == v * unit.mult IN
  CASE v = NaT -> None
    [] v # NaT /\ Overflows(v, unit.mult, MaxI128) -> Unrepresentable
    [] OTHER ->
         CASE unit.base = "generic" -> GenericUnit
           [] unit.base = "Y" -> Month(1970 + n, 1)
           [] unit.base = "M" -> Month(1970 + (n \div 12), (n % 12) + 1)
           [] unit.base \in DOMAIN Coarse ->
                IF Overflows(n, Coarse[unit.base], MaxI128) THEN Unrepresentable
                ELSE Instant(n * Coarse[unit.base])
           [] unit.base \in DOMAIN Fine -> Instant(n \div Fine[unit.base])

-----------------------------------------------------------------------------
(* The texts, as their fields: a field is a number of a fixed width, or a  *)
(* sign.                                                                   *)

FmtYmd(p) == <<p.y, p.mo, p.d>>

FmtHms(p, opts) ==
  IF p.us = 0 \/ "omit_microseconds" \in opts THEN <<p.h, p.mi, p.s>>
  ELSE <<p.h, p.mi, p.s, p.us>>

(* delta_us, of a timedelta as CPython keeps it.                           *)
DeltaUs(delta) == delta.days * UsPerDay + delta.seconds * UsPerSecond + delta.us

MutFmtOffset(us, opts) ==   \* the fields of a negative offset are floored
  LET hh == us \div UsPerHour  mm == (us \div UsPerMinute) % Sixty
      ss == (us \div UsPerSecond) % Sixty  rest == us % UsPerSecond
  IN  IF us = 0 THEN IF "utc_z" \in opts THEN <<"Z">> ELSE <<"+", 0, 0>>
      ELSE <<IF us < 0 THEN "-" ELSE "+", IF hh < 0 THEN -hh ELSE hh, mm>>
           \o IF ss = 0 /\ rest = 0 THEN <<>>
              ELSE IF rest = 0 THEN <<ss>> ELSE <<ss, rest>>

(* fmt_offset: seconds only if there are any, or microseconds.             *)
FmtOffset(us, opts) ==
  LET m  == IF us < 0 THEN -us ELSE us
      ss == (m \div UsPerSecond) % Sixty
      rest == m % UsPerSecond
  IN  IF us = 0 THEN IF "utc_z" \in opts THEN <<"Z">> ELSE <<"+", 0, 0>>
      ELSE <<IF us < 0 THEN "-" ELSE "+", m \div UsPerHour, (m \div UsPerMinute) % Sixty>>
           \o IF ss = 0 /\ rest = 0 THEN <<>>
              ELSE IF rest = 0 THEN <<ss>> ELSE <<ss, rest>>

(* write_datetime; the offset of a naive value is None.                    *)
WriteDatetime(p, offset, opts) ==
  [ymd |-> FmtYmd(p), hms |-> FmtHms(p, opts),
   offset |-> IF offset = None THEN <<>> ELSE FmtOffset(offset, opts)]

-----------------------------------------------------------------------------
(* parse_dt64.  A dtype string is a head (a byte order and "M8"), and then *)
(* nothing or brackets around the digits of a multiplier and a code; good  *)
(* says that head and brackets are as they should be.                      *)

(* The multiplier, or None if it does not fit.                             *)
Multiplier(digits) ==
  LET value[k \in 0 .. Len(digits)] ==
        IF k = 0 THEN 0
        ELSE IF value[k - 1] = None \/ Overflows(value[k - 1], 10, MaxI64) THEN None
        ELSE IF value[k - 1] * 10 > MaxI64 - digits[k] THEN None
        ELSE value[k - 1] * 10 + digits[k]
  IN  value[Len(digits)]

ParseDt64(dtype) ==
  CASE ~dtype.good -> None
    [] dtype.good /\ ~dtype.brackets -> [base |-> "generic", mult |-> 1]
    [] OTHER ->
         LET mult == IF dtype.digits = <<>> THEN 1 ELSE Multiplier(dtype.digits)
         IN  IF mult \in {0, None} \/ dtype.code \notin Codes THEN None
             ELSE [base |-> dtype.code, mult |-> mult]
=============================================================================
