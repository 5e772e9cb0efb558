-------------------------- MODULE MCRemoteCapture --------------------------
(* Instances of RemoteCapture for TLC: the relay's own threshold of -30    *)
(* against scans that are empty, weak and strong.                          *)
EXTENDS RemoteCapture, SignalCheck

Detected ==
    {VerifySignalAtFrequency(scan, -30) : scan \in Scans({<<>>, << <<-40>> >>, << <<-10>> >>})}

MinStrength == -25
=============================================================================
