---------------------------- MODULE MCLogWriter ----------------------------
(* Values for the constants of LogWriter. *)
EXTENDS LogWriter

(* From the last day of a year to the first day of the next. *)
NewYear == <<[mon |-> 11, mday |-> 31], [mon |-> 0, mday |-> 1]>>

(* The days of NewYear differ, as RightFile needs. *)
ASSUME NewYearIsWithinAMonth == WithinAMonth
=============================================================================
