--------------------------- MODULE MCSessionServer ---------------------------
(***************************************************************************)
(* Finite instances of SessionServer: the drives and what clients write.   *)
(***************************************************************************)
EXTENDS SessionServer

Input(c, n, v, a) == [cmd |-> c, commas |-> n, valid |-> v, arg |-> a]

TwoDrives == {"d1", "d2"}
OneDrive == {"d1"}

Connects == {Input("connect", 1, TRUE, "d1"), Input("connect", 1, TRUE, "d2"),
             Input("connect", 1, FALSE, "d1"),
             Input("connect", 1, TRUE, "nowhere"), Input("connect", 0, TRUE, "none")}

Plain == {Input(c, 0, TRUE, "none") : c \in
    {"disconnect", "driveEnable", "driveDisable", "holdMove", "immedStop", "resetErrors",
     "readInputRegisters", "readCurrentConfiguration", "loadCurrentConfiguration",
     "programAssembledMove", "startManualMode", "stopManualMode", "nonsense"}}

\* The commands with parameters, by their commas: well-formed, and for one of each
\* number out of range and cut short.
Parameterised ==
    {Input(c[1], c[2], TRUE, "none") : c \in
        {<<"jog", 4>>, <<"home", 4>>, <<"relativeMove", 5>>, <<"saveConfig", 7>>,
         <<"presetMotorPosition", 1>>, <<"presetEncoderPosition", 1>>,
         <<"runAssembledBlendMove", 1>>, <<"runAssembledDwellMove", 1>>}}
    \cup UNION {{Input(c[1], c[2], FALSE, "none"), Input(c[1], 0, TRUE, "none")} : c \in
        {<<"jog", 4>>, <<"relativeMove", 5>>, <<"saveConfig", 7>>,
         <<"presetMotorPosition", 1>>, <<"runAssembledBlendMove", 1>>}}

Moves == {Input("json", 5, TRUE, a) : a \in {"blend", "dwell", "other", "absent"}}
         \cup {Input("json", 5, FALSE, "dwell")}

AllInputs == Connects \cup Plain \cup Parameterised \cup Moves

\* One input of each kind the dispatch tells apart, for clients that pipeline.
PipelinedInputs ==
    {Input("connect", 1, TRUE, "d1"), Input("jog", 4, TRUE, "none"),
     Input("holdMove", 0, TRUE, "none"), Input("disconnect", 0, TRUE, "none"),
     Input("startManualMode", 0, TRUE, "none"), Input("stopManualMode", 0, TRUE, "none"),
     Input("readInputRegisters", 0, TRUE, "none"),
     Input("programAssembledMove", 0, TRUE, "none"),
     Input("runAssembledBlendMove", 1, TRUE, "none"),
     Input("json", 5, TRUE, "blend"), Input("json", 5, TRUE, "dwell"),
     Input("nonsense", 0, TRUE, "none")}
=============================================================================
