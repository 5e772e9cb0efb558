------------------------------ MODULE Decoders ------------------------------
(***************************************************************************)
(* Decoding of a recording: the registry (capture/decoders/index.ts) and   *)
(* the decoders for LRPT, which runs SatDump, and for SSTV, which runs a   *)
(* Python module.                                                          *)
(*                                                                         *)
(* An attempt says what became of the programs that a decoding runs: the   *)
(* probe of checkInstalled, the decoder, and find, which lists the images  *)
(* of SatDump; and whether the scripts that wrap the decoders, the         *)
(* directory for the images and at the end an image are there.  Decoders   *)
(* return the number of images, one standing for any positive number.      *)
(***************************************************************************)
EXTENDS RunCommand, Integers

SignalTypes == {"lrpt", "sstv"}

Attempts == [probe : Exits, decoder : Exits, find : Exits,
             wrapper : BOOLEAN, directory : BOOLEAN, image : BOOLEAN]

(* checkInstalled: `which satdump`, or python3 importing the module; both  *)
(* catch every exception.  A killed python3 has not printed "OK".          *)
CheckInstalled(type, a) ==
    /\ a.wrapper
    /\ IF type = "lrpt" THEN Succeeded(a.probe) ELSE a.probe = "zero"

(* decodeWithSatDump: a decoder that timed out may have left images.       *)
DecodeWithSatDump(a) ==
    CASE Rejected(a.decoder) -> "throws"
      [] ~ Rejected(a.decoder) /\ ExitCode(a.decoder) # 0 -> "null"
      [] Succeeded(a.decoder) ->
           IF Rejected(a.find) THEN "throws"
           ELSE IF Succeeded(a.find) /\ a.image THEN "images" ELSE "null"

DecodeWithSstv(a) ==
    IF Rejected(a.decoder) THEN "throws"
    ELSE IF Succeeded(a.decoder) /\ a.image THEN "images" ELSE "null"

(* decode of lrptDecoder and of sstvDecoder.                               *)
DecodeLrpt(found, a) ==
    IF ~ found THEN "null"
    ELSE IF ~ a.directory THEN "throws" ELSE DecodeWithSatDump(a)

DecodeSstv(found, a) ==
    IF ~ found THEN "null"
    ELSE IF ~ a.directory THEN "throws" ELSE DecodeWithSstv(a)

Decode(type, found, a) == IF type = "lrpt" THEN DecodeLrpt(found, a) ELSE DecodeSstv(found, a)

(* decodeRecording                                                         *)
DecodeRecording(type, found, a) ==
    IF CheckInstalled(type, a) THEN Decode(type, found, a) ELSE "null"
=============================================================================
