------------------------------ MODULE WebDate ------------------------------
(***************************************************************************)
(* get_current_date (httpResponses.c): every thread of the web server asks *)
(* for the time and has gmtime split it up in a structure that is static   *)
(* in the C library, the same for all threads, before it copies it to its  *)
(* own.  A date is kept as the day and the time of the day; the library    *)
(* fills the structure under a lock, and the copy is made without.         *)
(***************************************************************************)
EXTENDS Integers

CONSTANTS
  Threads, Nobody,
  DayLength \* how many ticks a day has

WebDateAssumption == DayLength \in Nat \ {0} /\ Nobody \notin Threads

VARIABLES
  clock,    \* the time, in ticks
  pc,       \* where each thread is
  now,      \* its variable of that name
  static,   \* the structure of the C library
  tm,       \* its copy
  lock,     \* who fills the structure
  met       \* history: the times the structure had since a thread filled it

vars == <<clock, pc, now, static, tm, lock, met>>

Fields(t) == [day |-> t \div DayLength, time |-> t % DayLength]
LastTick == 2 * DayLength - 1

TypeOK ==
  /\ clock \in 0 .. LastTick
  /\ pc \in [Threads -> {"time", "gmtime", "day", "time_of_day", "copy_day",
                         "copy_time", "send"}]
  /\ now \in [Threads -> 0 .. LastTick]
  /\ static \in [day : {0, 1}, time : 0 .. DayLength - 1]
  /\ tm \in [Threads -> [day : {0, 1}, time : 0 .. DayLength - 1]]
  /\ lock \in Threads \cup {Nobody}
  /\ met \in [Threads -> SUBSET (0 .. LastTick)]

Init ==
  /\ clock = 0 /\ lock = Nobody
  /\ pc = [t \in Threads |-> "time"]
  /\ now = [t \in Threads |-> 0]
  /\ static = Fields(0)
  /\ tm = [t \in Threads |-> Fields(0)]
  /\ met = [t \in Threads |-> {}]

-----------------------------------------------------------------------------
Go(t, at, next) == pc[t] = at /\ pc' = [pc EXCEPT ![t] = next]

Tick == clock < LastTick /\ clock' = clock + 1
        /\ UNCHANGED <<pc, now, static, tm, lock, met>>

Time(t) ==
  /\ Go(t, "time", "gmtime") /\ now' = [now EXCEPT ![t] = clock]
  /\ UNCHANGED <<clock, static, tm, lock, met>>

(* gmtime: the structure is filled field by field.  Mutant: it is asked    *)
(* for once only.                                                          *)
NotAgain(t) ==
  /\ Go(t, "gmtime", "copy_day") /\ met' = [met EXCEPT ![t] = {now[t]}]
  /\ UNCHANGED <<clock, now, static, tm, lock>>

Fills(t) == met' = [u \in Threads |-> met[u] \cup {now[t]}]

Lock(t) ==
  /\ Go(t, "gmtime", "day") /\ lock = Nobody /\ lock' = t
  /\ met' = [met EXCEPT ![t] = {now[t]}]
  /\ UNCHANGED <<clock, now, static, tm>>

FillDay(t) ==
  /\ Go(t, "day", "time_of_day")
  /\ static' = [static EXCEPT !.day = Fields(now[t]).day] /\ Fills(t)
  /\ UNCHANGED <<clock, now, tm, lock>>

FillTime(t) ==
  /\ Go(t, "time_of_day", "copy_day")
  /\ static' = [static EXCEPT !.time = Fields(now[t]).time] /\ Fills(t)
  /\ lock' = Nobody /\ UNCHANGED <<clock, now, tm>>

(* The assignment copies what the structure holds by then.                 *)
CopyDay(t) ==
  /\ Go(t, "copy_day", "copy_time")
  /\ tm' = [tm EXCEPT ![t].day = static.day]
  /\ UNCHANGED <<clock, now, static, lock, met>>

CopyTime(t) ==
  /\ Go(t, "copy_time", "send")
  /\ tm' = [tm EXCEPT ![t].time = static.time]
  /\ UNCHANGED <<clock, now, static, lock, met>>

Send(t) ==
  Go(t, "send", "time") /\ UNCHANGED <<clock, now, static, tm, lock, met>>

get_current_date(t) ==
  \/ Time(t) \/ Lock(t) \/ FillDay(t) \/ FillTime(t)
  \/ CopyDay(t) \/ CopyTime(t) \/ Send(t)

Next == Tick \/ \E t \in Threads : get_current_date(t)

Spec == Init /\ [][Next]_vars

-----------------------------------------------------------------------------
(* Day and time of a date are each its own or those of a thread that has   *)
(* filled the structure since: a date is never left from an earlier one,   *)
(* and it can be wrong only when threads meet (get_current_date).          *)
DateOfSomebody ==
  \A t \in Threads :
    pc[t] = "send" =>
      \E m, n \in met[t] : tm[t] = [day |-> Fields(m).day, time |-> Fields(n).time]

(* The header carries "the current date" (server.h): one that the clock    *)
(* has had, and not the day of one moment with the time of another.        *)
DateIsWhole ==
  \A t \in Threads :
    pc[t] = "send" => \E n \in 0 .. clock : tm[t] = Fields(n)
=============================================================================
