------------------------ MODULE ComandosPropiedades ------------------------
(***************************************************************************)
(* What the commands must keep true when they run at the same time.        *)
(***************************************************************************)
EXTENDS Comandos

(* A message for the channel reaches everyone who is on it, under the same *)
(* nick, from the moment the nicks are listed until the last one is        *)
(* written to, whatever the others do meanwhile: join, part, be kicked,    *)
(* change nick, go away. A KICK takes its victim out of the channel before *)
(* it tells the channel, and the victim is told all the same: once the     *)
(* last message is sent, it has got it, is gone or has another nick.       *)
EntregaCompleta ==
    \A f \in Fds : Difundido(f) =>
        /\ testigos[f] = {}
        /\ Orden(f).tipo = "KICK" /\ token[f] # Canal => victima[f] = Nadie

(* kick and mode look at the rights of their author in one call and use    *)
(* them in a later one: then the author is still an operator, although     *)
(* others may have kicked, joined, left or created the channel anew in     *)
(* between.                                                                *)
OperadorAutorizado ==
    \A f \in Fds : pc[f] \in {"kickea", "modo"} => bd[f] \in operadores

(* A nick names one connection, which is still there, and the channel has  *)
(* only such nicks.                                                        *)
NickDeUno ==
    /\ \A f, g \in Fds : bd[f] = bd[g] /\ bd[f] # Nadie => f = g
    /\ \A n \in miembros : \E c \in ConnDe(n) : c # Nadie
=============================================================================
