---------------------------- MODULE MCLoggerTree ----------------------------
(* LoggerTree for TLC.  Threads, names and loggers are interchangeable;    *)
(* appenders are not, ROOT starts with one of them.                        *)
EXTENDS LoggerTree, TLC

Symmetry == Permutations(Threads) \union Permutations(Names) \union Permutations(Loggers)
=============================================================================
