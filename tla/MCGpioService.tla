--------------------------- MODULE MCGpioService ---------------------------
(* The shipped layout (one output, one input) with a second output whose     *)
(* safe default is 1, in three versions of the file: a sound one, one that   *)
(* names a pin twice, and one with a setting that setup_input rejects.       *)
EXTENDS GpioService

MCKind == <<"output", "input", "output">>
MCPin == << <<"BCM23", "BCM24", "BCM25">>,
            <<"BCM23", "BCM24", "BCM23">>,
            <<"BCM23", "BCM25", "BCM24">> >>
MCBadSetup == <<{}, {}, {2}>>
MCPins == {"BCM23", "BCM24", "BCM25"}
MCSafeDefault == <<0, 0, 1>>
=============================================================================
