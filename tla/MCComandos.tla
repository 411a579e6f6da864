----------------------------- MODULE MCComandos -----------------------------
(***************************************************************************)
(* Instances of Comandos for TLC.                                          *)
(***************************************************************************)
EXTENDS ComandosPropiedades

CONSTANTS ana, blas, ciro, dina

Nick(n) == [tipo |-> "NICK", nick |-> n]
Pone(t, p) == [tipo |-> t, pone |-> p]
Patada(n) == [tipo |-> "KICK", nick |-> n]
De(t) == [tipo |-> t]
Para(t, ds) == [tipo |-> t, destinos |-> ds]

EscenariosMC == {
    \* an operator kicks while the victim changes its nick and a third one talks
    [antes |-> <<ana, blas, ciro>>, guion |->
       << <<De("JOIN"), Patada(blas)>>,
          <<De("JOIN"), Nick(dina)>>,
          <<De("JOIN"), Para("PRIVMSG", <<Canal>>), Patada(ana)>> >>],
    \* two clients want the same nick; one parts, talks from outside and quits
    [antes |-> <<ana>>, guion |->
       << <<De("JOIN"), Para("PART", <<Canal>>), Para("PRIVMSG", <<Canal>>)>>,
          <<De("JOIN"), Nick(blas), De("USER"), De("JOIN"), De("JOIN"), Patada(ana)>>,
          <<Nick(blas), De("USER"), De("JOIN"), De("QUIT")>> >>],
    \* lists of destinations at the same time
    [antes |-> <<ana, blas>>, guion |->
       << <<De("JOIN"), Para("PRIVMSG", <<Canal, blas>>)>>,
          <<De("JOIN"), Para("PART", <<ana, Canal>>)>>,
          <<Nick(ciro), De("USER"), De("JOIN")>> >>],
    \* the channel refuses clients for a time; one is away and unregistered ones try
    [antes |-> <<ana, blas>>, guion |->
       << <<De("JOIN"), Pone("MODE", TRUE), Para("PRIVMSG", <<blas, ciro>>), Pone("MODE", FALSE)>>,
          <<Pone("AWAY", TRUE), De("JOIN"), Pone("MODE", TRUE), Para("WHOIS", <<ana, ciro>>)>>,
          <<De("TOPIC"), De("OTRO"), Nick(ciro), De("USER"), De("JOIN")>> >>],
    \* queries, and a nick that is taken
    [antes |-> <<ana, blas>>, guion |->
       << <<De("JOIN"), Para("LIST", <<Canal, Canal>>), De("PING"), De("TOPIC")>>,
          <<Pone("AWAY", FALSE), Para("NAMES", <<>>), De("PONG"), De("MOTD"), De("WHO"),
            Para("NAMES", <<Canal, ana>>)>>,
          <<Nick(ciro), De("USER"), Nick(ana)>> >>]
  }
=============================================================================
