----------------------------- MODULE MCCliente -----------------------------
(* Instances of Cliente for TLC.                                           *)
EXTENDS ClientePropiedades

CONSTANTS a, b

Base == [guion |-> [u \in Usuarios |-> <<>>],
         otro |-> [u \in Usuarios |-> CHOOSE v \in Usuarios : v # u],
         letra |-> [u \in Usuarios |-> "+i"],
         espera |-> FALSE, serie |-> FALSE, trozos |-> FALSE, fallan |-> FALSE]

De(x, y) == [u \in Usuarios |-> IF u = a THEN x ELSE y]
Ordenan(x, y) == [Base EXCEPT !.guion = De(x, y)]
Esperan(x, y) == [Ordenan(x, y) EXCEPT !.espera = TRUE]
EnSerie(x, y) == [Esperan(x, y) EXCEPT !.serie = TRUE]

ConexionesCliente == {<<a, 1>>, <<a, 2>>, <<b, 1>>}

ModosCliente ==
    {EnSerie(<<"CONNECT", "JOIN", "KICK", "CYCLE">>, <<"CONNECT", "JOIN", "PART", "JOIN">>),
     EnSerie(<<"CONNECT", "JOIN", "MODE", "PART">>, <<"CONNECT", "JOIN", "KICK", "TEXTO">>),
     Esperan(<<"CONNECT", "JOIN", "PART">>, <<"CONNECT", "JOIN">>),
     Esperan(<<"CONNECT", "JOIN", "NICK", "PART">>, <<"CONNECT", "WHOIS", "PRIVADO", "PRIVADO">>),
     Esperan(<<"CONNECT", "JOIN", "DISCONNECT">>, <<"CONNECT", "JOIN">>),
     Esperan(<<"CONNECT", "JOIN", "DISCONNECT", "CONNECT", "JOIN">>, <<>>),
     Ordenan(<<"CONNECT", "DISCONNECT", "WHOIS", "CONNECT">>, <<>>),
     [Ordenan(<<"DISCONNECT", "CONNECT", "JOIN", "JOIN", "PARTALL">>, <<>>) EXCEPT !.fallan = TRUE],
     [Esperan(<<"CONNECT", "FICHERO", "WHOIS">>, <<"CONNECT", "FICHERO">>) EXCEPT !.trozos = TRUE]}
=============================================================================
