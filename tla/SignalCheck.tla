---------------------------- MODULE SignalCheck ----------------------------
(***************************************************************************)
(* What capture/signal.ts makes of a scan with rtl_power: the average of   *)
(* the readings it prints against the minimal signal strength.             *)
(***************************************************************************)
EXTENDS RunCommand, Integers, FiniteSets, SequencesExt

(* A scan: how rtl_power ended, and the lines it printed.  A line is the   *)
(* sequence of its one reading, or empty if that is not a finite number.   *)
Scans(lines) == [exit : Exits, lines : lines]

(* parsePowerReadings                                                      *)
ParsePowerReadings(lines) ==
    LET powers == FlattenSeq(lines)
    IN  [totalPower |-> FoldSeq(LAMBDA x, y : x + y, 0, powers), count |-> Len(powers)]

(* checkSignalStrength finds a strength, and its power is above the        *)
(* minimum: totalPower / count > minStrength.                              *)
CheckSignalOnce(scan, minStrength) ==
    LET readings == ParsePowerReadings(scan.lines)
    IN  /\ Succeeded(scan.exit)
        /\ readings.count > 0
        /\ readings.totalPower > minStrength * readings.count

(* verifySignalAtFrequency: the same test on a scan of its own.            *)
VerifySignalAtFrequency(scan, minStrength) == CheckSignalOnce(scan, minStrength)

(* verifySignal: half of the attempts, rounded up, were strong enough.     *)
Passed(successes, attempts) == 2 * Cardinality(successes) >= attempts
=============================================================================
