------------------------------- MODULE Calendar -------------------------------
(***************************************************************************)
(* src/src/time_util.cpp: dates, the texts they are written as - sequences *)
(* of characters - and pairs of seconds and microseconds.  A broken-down   *)
(* time is <<year - 1900, month 0 .. 11, day, hour, minute, second>>, the  *)
(* first members of struct tm.                                             *)
(***************************************************************************)
EXTENDS Integers, Sequences, SequencesExt

\* division as C does it
Quot(a, b) == IF a >= 0 THEN a \div b ELSE -((-a) \div b)

is_leapyear(year) == year % 400 = 0 \/ (year % 4 = 0 /\ year % 100 # 0)

daysofmonth(year, month) ==
  CASE month = 2 -> IF is_leapyear(year) THEN 29 ELSE 28
    [] month \in {4, 6, 9, 11} -> 30
    [] OTHER -> 31

-----------------------------------------------------------------------------
(***************************************************************************)
(* mktime_bj: the days since 1970 and the seconds of the day, in Peking.   *)
(***************************************************************************)
mon_days == <<31, 28, 31, 30, 31, 30, 31, 31, 30, 31, 30, 31>>

leap_years(tm_year, tm_mon) ==
  LET year == tm_year + 1900
  IN Quot(tm_year - 68, 4) - Quot(tm_year, 100) + Quot(tm_year + 300, 400)
     - IF tm_mon < 2 /\ ((year % 100 # 0 /\ year % 4 = 0) \/ year % 400 = 0) THEN 1 ELSE 0

days(tm) ==
  (tm[1] - 70) * 365 + leap_years(tm[1], tm[2]) + tm[3] - 1
  + FoldLeft(LAMBDA a, b : a + b, 0, SubSeq(mon_days, 1, tm[2]))

seconds(tm) == tm[4] * 3600 + tm[5] * 60 + tm[6] - 8 * 3600

mktime_bj(tm) == days(tm) * 86400 + seconds(tm)

-----------------------------------------------------------------------------
(***************************************************************************)
(* The texts: %0wd, the separators, and the year with 2000 added up to     *)
(* tm_year 50.  The buffer is long enough.                                 *)
(***************************************************************************)
Char == <<"0", "1", "2", "3", "4", "5", "6", "7", "8", "9">>

Digits(n, w) == [k \in 1 .. w |-> Char[((n \div 10 ^ (w - k)) % 10) + 1]]

Year(tm) == tm[1] + IF tm[1] > 50 THEN 1900 ELSE 2000

datetime2str(tm) ==
  Digits(Year(tm), 4) \o <<"-">> \o Digits(tm[2] + 1, 2) \o <<"-">> \o Digits(tm[3], 2)
  \o <<" ">> \o Digits(tm[4], 2) \o <<":">> \o Digits(tm[5], 2) \o <<":">> \o Digits(tm[6], 2)

IsDigit(c) == c \in {Char[k] : k \in DOMAIN Char}

datetime2str_short(tm) == SelectSeq(datetime2str(tm), IsDigit)

\* of the current time
curdatetimestr(tm)       == datetime2str(tm)
curdatetimestr_short(tm) == datetime2str_short(tm)
curdatestr(tm)           == SubSeq(datetime2str(tm), 1, 10)
curdatestr_short(tm)     == SubSeq(datetime2str_short(tm), 1, 8)
curtimestr(tm)           == SubSeq(datetime2str(tm), 12, 19)
curtimestr_short(tm)     == SubSeq(datetime2str_short(tm), 9, 14)

dlm == <<"-", "-", " ", ":", ":">>

\* a digit is appended to the field pos is at, a separator ends the field
Reads(s, c) ==
  IF s.stop THEN s
  ELSE IF IsDigit(c)
       THEN [s EXCEPT !.field[s.pos] = @ * 10 + (CHOOSE k \in DOMAIN Char : Char[k] = c) - 1]
  ELSE IF s.pos > Len(dlm) \/ dlm[s.pos] # c THEN [s EXCEPT !.stop = TRUE]
  ELSE [s EXCEPT !.pos = @ + 1]

\* the struct tm that mktime is given
str2datetime(text) ==
  LET s == FoldLeft(Reads, [field |-> [k \in 1 .. 6 |-> 0], pos |-> 1, stop |-> FALSE], text)
  IN [s.field EXCEPT ![1] = @ - 1900, ![2] = @ - 1]

-----------------------------------------------------------------------------
(***************************************************************************)
(* struct timeval, as <<tv_sec, tv_usec>>                                  *)
(***************************************************************************)
Million == 1000000

conv2timeval(us) == <<Quot(us, Million), us - Quot(us, Million) * Million>>

timediff_msec(tv1, tv2) == (tv1[1] - tv2[1]) * 1000 + Quot(tv1[2] - tv2[2], 1000)
timediff_usec(tv1, tv2) == (tv1[1] - tv2[1]) * Million + (tv1[2] - tv2[2])

\* whole seconds go over to tv_sec, and one comes back where that makes both
\* of them positive
normalize_time(tv) ==
  LET n  == Quot(tv[2], Million)
      t1 == <<tv[1] + n, tv[2] - n * Million>>
  IN IF t1[1] >= 1 /\ t1[2] < 0 THEN <<t1[1] - 1, t1[2] + Million>> ELSE t1
==============================================================================
