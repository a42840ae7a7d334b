--------------------------- MODULE MCTimerManager ---------------------------
(* TimerManager for TLC.  Clients are interchangeable, and so are pollers; *)
(* timers are not, their order breaks ties.                                *)
EXTENDS TimerManager, TLC

(* The intervals for which DueTimerTaken is claimed.                       *)
ASSUME IntervalsAreSteady == SteadyIntervals

ThreadSymmetry == Permutations(Clients) \union Permutations(Pollers)
=============================================================================
