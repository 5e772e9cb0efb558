---- MODULE RunCommand ----
\* runCommand of utils/shell.ts: what a caller learns of a program that was
\* run to its end.

\* A program ends by itself, with code 0 or another one, or by a signal (also
\* the one its timeout sends); or it could not be started.
Exits == {"zero", "nonzero", "signal", "not started"}

\* The "error" listener rejects the promise.
Rejected(exit) == exit = "not started"

\* exitCode: a program that was killed has none, and `code ?? 0` puts 0 there.
ExitCode(exit) == IF exit = "nonzero" THEN 1 ELSE 0

Succeeded(exit) == ~ Rejected(exit) /\ ExitCode(exit) = 0
====
