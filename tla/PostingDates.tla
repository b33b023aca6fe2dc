---------------------------- MODULE PostingDates ----------------------------
(***************************************************************************)
(* The dates of crawled jobs: helper.ts (convertTimeAgoToDate, toDate) as  *)
(* the sites' getJobInPage uses them.  A list page is read at one moment   *)
(* and shows for each job how long ago it was posted, in words; the words  *)
(* are turned into a date only when the job's detail has been visited,     *)
(* which is up to most of an hour later (job1.ts 29), and by the clock of  *)
(* that moment.  The visitor's job list is sorted by the date (apis.js).   *)
(*                                                                         *)
(* A text is the set of the words the code looks for (without their        *)
(* accents; "comma" is the sign), the number of its words and the numbers  *)
(* in it.  Time is in minutes of a calendar whose units are constants;     *)
(* months and years are a fixed number of days.                            *)
(***************************************************************************)
EXTENDS Integers, Sequences, FiniteSets

CONSTANTS
  Hour, Day, Week, Month, Year,  (* minutes in each unit                   *)
  TwoDigits,                     (* the largest number of two digits, 99   *)
  Opening,                       (* the time of the first crawl            *)
  Closing                        (* bound: the time the behaviour ends     *)

ASSUME CalendarAssumption ==
  /\ {Hour, Day, Week, Month, Year, TwoDigits, Opening, Closing} \subseteq Nat
  /\ 1 < Hour /\ Hour < Day /\ Day < Week /\ Week < Month /\ Month < Year
  /\ Day % Hour = 0 /\ Week % Day = 0 /\ Month % Day = 0 /\ Year % Month = 0
  /\ Opening < Closing

VARIABLES
  clock,    (* now                                                         *)
  posted,   (* when the job was posted                                     *)
  reading,  (* the text the list page showed and when, or NoReading        *)
  date,     (* MongoDB: the job's onlineDate, or None                      *)
  saved     (* history: the last save since the list was read: from which  *)
            (* reading, when, and whether it gave a date; NoSave before it *)

datesVars == <<clock, posted, reading, date, saved>>

NaN == -1
None == -1
Text(words, parts, n, m) == [words |-> words, parts |-> parts, n |-> n, m |-> m]
NoText == Text({}, 0, NaN, NaN)
NoReading == [text |-> NoText, at |-> None]
NoSave == [text |-> NoText, at |-> None, time |-> None, dated |-> FALSE]
DayOf(time) == time \div Day
Units == {"phut", "gio", "ngay", "tuan", "thang", "nam"}
Span(unit) ==
  CASE unit = "phut" -> 1 [] unit = "gio" -> Hour [] unit = "ngay" -> Day
    [] unit = "tuan" -> Week [] unit = "thang" -> Month [] unit = "nam" -> Year
----------------------------------------------------------------------------
(* What sites show for a job posted at p when the clock is t.              *)
Fits(unit, age) == age >= Span(unit)

(* "3 gio truoc", "mot gio truoc", "vai giay truoc" and "3h".              *)
Counted(age) == {Text({u}, 3, age \div Span(u), NaN) : u \in {v \in Units : Fits(v, age)}}
InWords(age) == {Text({u, "mot"}, 3, NaN, NaN) : u \in {v \in Units : age \div Span(v) = 1}}
JustNow(age) == IF age = 0 THEN {Text({"giay"}, 3, NaN, NaN)} ELSE {}
Short(age) ==
  {Text({s[1]}, 1, age \div Span(s[2]), NaN) :
     s \in {r \in {<<"m", "phut">>, <<"h", "gio">>, <<"d", "ngay">>} : Fits(r[2], age)}}

(* "4 gio, 7 phut truoc" and "16 gio 59 phut" (line 311), "28 ngay 12 gio". *)
HoursMinutes(age, parts) ==
  IF Fits("gio", age) THEN {Text({"gio", "phut"}, parts, age \div Hour, age % Hour)} ELSE {}
DaysHours(age) ==
  IF Fits("ngay", age)
    THEN {Text({"ngay", "gio"}, 4, age \div Day, (age % Day) \div Hour)} ELSE {}

(* "Hom qua, 21:54", "Hom qua" and "14/08/2021, 17:41": n is the time of   *)
(* the day, or for the last the whole date.                                *)
DayWord(p, t) ==
  CASE DayOf(t) - DayOf(p) = 0 -> {"homnay"}
    [] DayOf(t) - DayOf(p) = 1 -> {"homqua"}
    [] DayOf(t) - DayOf(p) = 2 -> {"homkia"}
    [] OTHER -> {}
OnDay(p, t) ==
  UNION {{Text({w, "comma"}, 3, p % Day, NaN), Text({w}, 2, NaN, NaN)} : w \in DayWord(p, t)}
OnDate(p) == {Text({"date"}, 2, p, NaN)}

Shown(p, t) ==
  LET age == t - p
  IN UNION {Counted(age), InWords(age), JustNow(age), Short(age),
            HoursMinutes(age, 5), HoursMinutes(age, 4), DaysHours(age), OnDay(p, t), OnDate(p)}
----------------------------------------------------------------------------
(* convertTimeAgoToDate: the rules in the order the code tries them, each  *)
(* with the date it gives; a text that no rule fits is '' and one that     *)
(* moment cannot read is null: None.                                       *)
Number(text) == IF text.n = NaN THEN 1 ELSE text.n
Has(text, words) == words \subseteq text.words
AtTime(text, day) == day * Day + text.n

(* "Hom kia, 21:54": the replacement looks for "Hom nay", so moment is     *)
(* given the words as they stand and, not being strict, takes the hour for *)
(* the day of the month and the minute for the month of this year.         *)
BeforeYesterday(text, now) ==
  LET day == text.n \div Hour
      month == text.n % Hour
  IN IF day \in 1..(Month \div Day) /\ month \in 1..(Year \div Month)
       THEN (now \div Year) * Year + (month - 1) * Month + (day - 1) * Day
       ELSE None

(* The rules for two numbers.                                              *)
PairRules(text, now) ==
  << <<Has(text, {"ngay", "gio"}) /\ text.parts = 4, now - text.n * Day - text.m * Hour>>,
     <<Has(text, {"gio", "phut"}) /\ text.parts = 5, now - text.n * Hour - text.m>> >>

ShortRules(text, now) ==
  << <<Has(text, {"h"}) /\ text.n <= TwoDigits, now - text.n * Hour>>,
     <<Has(text, {"d"}) /\ text.n <= TwoDigits, now - text.n * Day>>,
     <<Has(text, {"m"}) /\ text.n <= TwoDigits, now - text.n>> >>

(* The rules for one number; and with "mot" tried before the units.        *)
OneDayFirst(text, now) ==
  << <<Has(text, {"mot"}), now - Day>>,
     <<Has(text, {"phut"}), now - Number(text)>>,
     <<Has(text, {"gio"}), now - Number(text) * Hour>> >>
AgeRules(text, now) ==
  << <<Has(text, {"giay"}), now>>,
     <<Has(text, {"phut"}), now - Number(text)>>,
     <<Has(text, {"gio"}), now - Number(text) * Hour>>,
     <<Has(text, {"tuan"}), now - Number(text) * Week>>,
     <<Has(text, {"mot"}), now - Day>>,
     <<Has(text, {"ngay"}), now - Number(text) * Day>>,
     <<Has(text, {"thang"}), now - Number(text) * Month>> >>

(* The rules for days and dates; and with the day of every time taken for  *)
(* today, and with the days that have no time forgotten.                   *)
TimesOfToday(text, now) ==
  << <<Has(text, {"comma"}), AtTime(text, DayOf(now))>>,
     <<Has(text, {"date"}), text.n>> >>
TimedDays(text, now) ==
  << <<Has(text, {"homqua", "comma"}), AtTime(text, DayOf(now) - 1)>>,
     <<Has(text, {"homnay", "comma"}), AtTime(text, DayOf(now))>>,
     <<Has(text, {"homkia", "comma"}), BeforeYesterday(text, now)>>,
     <<Has(text, {"date"}), text.n>> >>
DayRules(text, now) ==
  << <<Has(text, {"homqua", "comma"}), AtTime(text, DayOf(now) - 1)>>,
     <<Has(text, {"homnay", "comma"}), AtTime(text, DayOf(now))>>,
     <<Has(text, {"homkia", "comma"}), BeforeYesterday(text, now)>>,
     <<Has(text, {"homqua"}), now - Day>>,
     <<Has(text, {"homkia"}), now - 2 * Day>>,
     <<Has(text, {"date"}), text.n>> >>

(* What the first rule that fits gives, or else what the others give.      *)
First(rules, otherwise) ==
  LET fitting == {i \in DOMAIN rules : rules[i][1]}
  IN IF fitting = {} THEN otherwise
     ELSE rules[CHOOSE i \in fitting : \A k \in fitting : i <= k][2]

ConvertTimeAgoToDate(text, now) ==
  First(ShortRules(text, now), First(PairRules(text, now),
    First(AgeRules(text, now), First(DayRules(text, now), None))))
----------------------------------------------------------------------------
DatesTypeOK ==
  /\ clock \in Opening..Closing
  /\ posted \in 0..Opening
  /\ date \in Int
  /\ (reading = NoReading \/ reading.at \in Opening..clock)
  /\ saved.at <= saved.time

DatesInit ==
  /\ clock = Opening
  /\ posted \in 0..Opening
  /\ reading = NoReading
  /\ date = None
  /\ saved = NoSave

Tick ==
  /\ clock < Closing
  /\ clock' = clock + 1
  /\ UNCHANGED <<posted, reading, date, saved>>

(* getJobInPage: getJobs evaluates the list page.                          *)
ReadList ==
  /\ reading = NoReading
  /\ \E text \in Shown(posted, clock) : reading' = [text |-> text, at |-> clock]
  /\ saved' = NoSave
  /\ UNCHANGED <<clock, posted, date>>

(* toDate leaves a date it cannot make out undefined, clean drops it and   *)
(* saveJob keeps the one that is stored.                                   *)
DateToStore(made) == IF made = None THEN date ELSE made

(* getJobInPage: the job's turn after those before it and their delays.    *)
SaveJob ==
  /\ reading # NoReading
  /\ LET made == ConvertTimeAgoToDate(reading.text, clock)
     IN /\ date' = DateToStore(made)
        /\ saved' = [text |-> reading.text, at |-> reading.at, time |-> clock,
                     dated |-> made # None]
  /\ reading' = NoReading
  /\ UNCHANGED <<clock, posted>>

(* The crawl leaves the page before it comes to the job.                   *)
LeavePage ==
  /\ reading # NoReading
  /\ reading' = NoReading
  /\ UNCHANGED <<clock, posted, date, saved>>

DatesNext == Tick \/ ReadList \/ SaveJob \/ LeavePage

DatesSpec == DatesInit /\ [][DatesNext]_datesVars
----------------------------------------------------------------------------
Lag == saved.time - saved.at
DaysPassed == DayOf(saved.time) - DayOf(saved.at)

(* The forms the rules take for another: "16 gio 59 phut" is 16 minutes,   *)
(* "mot thang truoc" and "mot nam truoc" one day.                          *)
Misread(text) ==
  \/ {"gio", "phut"} \subseteq text.words /\ text.parts = 4
  \/ "mot" \in text.words /\ text.words \cap {"thang", "nam"} # {}

(* How coarse an age is: its smallest unit, one minute at least.           *)
Grain(text) ==
  IF text.words \cap {"phut", "giay", "m"} # {} THEN 1
  ELSE IF text.words \cap {"gio", "h"} # {} THEN Hour
  ELSE IF text.words \cap {"ngay", "d"} # {} THEN Day
  ELSE IF "tuan" \in text.words THEN Week
  ELSE Month
IsAge(text) == text.words \cap (Units \union {"giay", "h", "d", "m"}) # {}

(* An age in words makes the job newer than it is by the time it waited    *)
(* between the list and its save, and by less than one unit more; never    *)
(* older.  A form the rules take for another (lines 195-257) makes it      *)
(* newer still: a misread job climbs the visitor's list, it never sinks.   *)
AgesAreNeverOlder ==
  saved.dated /\ IsAge(saved.text) =>
    /\ posted + Lag <= date
    /\ ~Misread(saved.text) => date < posted + Lag + Grain(saved.text)

(* A time of the day is put on the day of the save, not of the reading: it *)
(* is exact as long as no midnight lies between, and otherwise late by a   *)
(* day for each.  Besides the day before yesterday, whose date is none of  *)
(* its own (line 275), that is the only way a date comes to lie in the     *)
(* future, at the head of the list until that day has come.                *)
ClockTimesFollowTheDay ==
  saved.dated =>
    /\ saved.text.words \in {{"homnay", "comma"}, {"homqua", "comma"}} => date = posted + DaysPassed * Day
    /\ saved.text.words = {"date"} => date = posted
    /\ date > saved.time =>
         \/ saved.text.words = {"homnay", "comma"} /\ DaysPassed > 0
         \/ saved.text.words = {"homkia", "comma"}

(* A job that is saved stays without a date, or keeps an older one, only   *)
(* for a text with years, with today and no time, with a time of the day   *)
(* before yesterday (line 275), or with a short count of three digits.     *)
UndatedOnlyBy ==
  saved # NoSave /\ ~saved.dated =>
    \/ saved.text.words \in {{"nam"}, {"homnay"}, {"homkia", "comma"}}
    \/ saved.text.words \cap {"h", "d", "m"} # {} /\ saved.text.n > TwoDigits
============================================================================
