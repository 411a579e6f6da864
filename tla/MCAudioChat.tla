----------------------------- MODULE MCAudioChat -----------------------------
(* Instances of AudioChat, and of the file transfers in it, for TLC.       *)
EXTENDS AudioChatPropiedades

Nada == [envios |-> 0, recepciones |-> 0, conectan |-> FALSE, cancelan |-> FALSE,
         fallan |-> FALSE, hablan |-> 0, escuchan |-> 0, cuelgan |-> FALSE,
         silencian |-> FALSE]

Envia(n) == [Nada EXCEPT !.envios = n, !.conectan = TRUE]
EnviaYRecibe == [Envia(1) EXCEPT !.recepciones = 1]
EnviaCancelado(n) == [Envia(n) EXCEPT !.cancelan = TRUE]

(* An FCANCEL with a conversation going on, or the end of one with a       *)
(* transfer that waits for its receiver.                                   *)
Compuestos ==
    {[EnviaCancelado(1) EXCEPT !.conectan = FALSE, !.hablan = 1],
     [EnviaCancelado(1) EXCEPT !.conectan = FALSE, !.escuchan = 1],
     [Envia(1) EXCEPT !.conectan = FALSE, !.hablan = 1, !.cuelgan = TRUE],
     [Envia(1) EXCEPT !.conectan = FALSE, !.escuchan = 1, !.cuelgan = TRUE]}

Conversaciones ==
    {[Nada EXCEPT !.hablan = 2],
     [Nada EXCEPT !.hablan = 1, !.escuchan = 1, !.silencian = TRUE],
     [Nada EXCEPT !.hablan = 1, !.escuchan = 1, !.cuelgan = TRUE, !.fallan = TRUE]}

ModosSeguridad ==
    {Envia(2), EnviaYRecibe,
     [Envia(2) EXCEPT !.fallan = TRUE],
     [EnviaCancelado(1) EXCEPT !.fallan = TRUE],
     [EnviaYRecibe EXCEPT !.conectan = FALSE, !.cancelan = TRUE, !.fallan = TRUE],
     [Nada EXCEPT !.recepciones = 2, !.fallan = TRUE]}
        \cup Conversaciones \cup Compuestos

ModosRecibe == {EnviaYRecibe}
ModosCancela == {EnviaCancelado(2)}
=============================================================================
