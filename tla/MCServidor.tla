------------------------------ MODULE MCServidor ------------------------------
(***************************************************************************)
(* Instances of the select loop for TLC.                                   *)
(***************************************************************************)
EXTENDS ServidorPropiedades

\* A client that registers and quits with commands left beside one that registers.
GuionesConQuit == {<< <<"USER", "QUIT", "OTRO">>, <<"USER">> >>}

\* Clients that leave only by closing their socket: one talks, the others are silent.
GuionesSinQuit == {<< <<"USER", "OTRO">>, <<>>, <<>> >>}
=============================================================================
