------------------------- MODULE ClientePruebasFiel -------------------------
(***************************************************************************)
(* Proof that, while the server executes one command at a time, the        *)
(* windows of the clients end up saying what the server has (VistaFiel,    *)
(* for JOIN, PART, KICK, MODE and texts; rplJoin, rplPart, rplKick and     *)
(* rplNamReply of irc_cliente.c against join, partirCanal, kick, mode and  *)
(* names of funciones_servidor.c).                                         *)
(*                                                                         *)
(* The client is followed as a machine of three states for each nick: no   *)
(* window, a window without the nick, and one that lists it.  Each answer  *)
(* moves it, and so does each step that a thread of the server has left.   *)
(* The invariant is that the answers received, those on their way and the  *)
(* steps left, taken in order from what the client shows now, end in what  *)
(* the server has.                                                         *)
(***************************************************************************)
EXTENDS ClientePruebasVista

(* What the client of u shows of a nick on the channel: no window, one     *)
(* without the nick, or one that lists it.                                 *)
SeVe(u, n) == IF ~EnCanal(u) THEN "cerrada" ELSE IF <<Canal, n>> \in vista[u] THEN "con" ELSE "sin"

(* What each answer does to that (comandos_recv of irc_cliente.c).         *)
Cambian == {"JOIN", "TEXTO", "NAMREPLY", "PART", "KICK", "ERR_BANNEDFROMCHAN"}
Efecto(u, n, e, m) ==
    CASE m.tipo = "JOIN" -> IF m.de = n \/ e = "con" THEN "con" ELSE "sin"
      [] m.tipo = "TEXTO" -> IF e = "cerrada" THEN "sin" ELSE e
      [] m.tipo = "NAMREPLY" -> IF e = "sin" /\ n \in m.nicks THEN "con" ELSE e
      [] m.tipo = "PART" -> IF m.de = <<u, 1>> THEN "cerrada"
                            ELSE IF e = "con" /\ m.de = n THEN "sin" ELSE e
      [] m.tipo = "KICK" -> IF <<u, 1>> \in m.nicks THEN "cerrada"
                            ELSE IF e = "con" /\ n \in m.nicks THEN "sin" ELSE e
      [] m.tipo = "ERR_BANNEDFROMCHAN" -> IF e = "con" /\ n \in m.nicks THEN "sin" ELSE e
      [] OTHER -> e

(* What a step that the thread of d has left will do to it, with M on the  *)
(* channel and R the connections that go by the nick of CONNECT, which is  *)
(* the same pair as the first connection of its user.                      *)
EfectoPaso(u, n, d, M, R, e, p) ==
    CASE p.paso = "canal" -> IF <<u, 1>> \in M /\ <<u, 1>> \notin p.nicks THEN Efecto(u, n, e, p.msg) ELSE e
      [] p.paso = "nicks" -> IF <<u, 1>> \in R /\ <<u, 1>> \in p.nicks THEN Efecto(u, n, e, p.msg) ELSE e
      [] p.paso = "aqui" -> IF d = <<u, 1>> THEN Efecto(u, n, e, p.msg) ELSE e
      [] p.paso = "names" -> IF d = <<u, 1>> /\ e = "sin" /\ n \in M THEN "con" ELSE e
      [] OTHER -> e

(* What a step with effect is like: it leaves the thread running, copies   *)
(* nicks of registered connections, and lists names with NAMREPLY.         *)
Consta(p) ==
    /\ p.paso # "fin"
    /\ p.paso = "names" => p.msg.tipo = "NAMREPLY"
    /\ p.paso = "nicks" /\ p.msg.tipo \in Cambian => Nadie \notin p.nicks

(* The answers of s take what is shown from e to f: there are the states   *)
(* in between.  The same of the steps of a thread.                         *)
Lleva(u, n, s, e, f) ==
    \E V : /\ V[0] = e /\ V[Len(s)] = f
           /\ \A i \in 1..Len(s) : V[i] = Efecto(u, n, V[i-1], s[i])
LlevaHilo(u, n, d, M, R, s, e, f) ==
    \E V : /\ V[0] = e /\ V[Len(s)] = f
           /\ \A i \in 1..Len(s) : Consta(s[i]) /\ V[i] = EfectoPaso(u, n, d, M, R, V[i-1], s[i])

(* Steps that change no window of the channel.                             *)
Inocuo(s) == \A i \in 1..Len(s) : s[i].msg.tipo \notin Cambian /\ s[i].paso # "names"
-----------------------------------------------------------------------------
(* No answers take it nowhere.                                             *)
LEMMA LlevaNada ==
    ASSUME NEW u, NEW n, NEW e, NEW f
    PROVE  Lleva(u, n, <<>>, e, f) <=> e = f
<1>1. Len(<<>>) = 0 /\ 1..0 = {}
  OBVIOUS
<1>2. ASSUME e = f
      PROVE  Lleva(u, n, <<>>, e, f)
  <2>1. [i \in {0} |-> e][0] = e
    OBVIOUS
  <2> QED
    BY <1>1, <1>2, <2>1 DEF Lleva
<1>3. ASSUME Lleva(u, n, <<>>, e, f)
      PROVE  e = f
  BY <1>1, <1>3 DEF Lleva
<1> QED
  BY <1>2, <1>3

(* The first of the answers is handled.                                    *)
LEMMA LlevaPrimera ==
    ASSUME NEW u, NEW n, NEW e, NEW f, NEW S, NEW s \in Seq(S), s # <<>>, Lleva(u, n, s, e, f)
    PROVE  Lleva(u, n, Tail(s), Efecto(u, n, e, Head(s)), f)
<1>1. PICK V : /\ V[0] = e /\ V[Len(s)] = f
               /\ \A i \in 1..Len(s) : V[i] = Efecto(u, n, V[i-1], s[i])
  BY DEF Lleva
<1>2. Len(s) \in Nat \ {0} /\ Head(s) = s[1] /\ Len(Tail(s)) = Len(s) - 1
      /\ \A i \in 1..Len(Tail(s)) : Tail(s)[i] = s[i + 1]
  <2>1. Len(s) \in Nat /\ Len(s) # 0
    BY EmptySeq
  <2> QED
    BY <2>1, HeadTailProperties
<1> DEFINE W == [i \in 0..Len(Tail(s)) |-> V[i + 1]]
<1>3. W[0] = Efecto(u, n, e, Head(s))
  <2>1. V[1] = Efecto(u, n, V[1-1], s[1])
    BY <1>1, <1>2
  <2>2. 0 \in 0..Len(Tail(s)) /\ 1 - 1 = 0 /\ 0 + 1 = 1
    BY <1>2
  <2> QED
    BY <1>1, <1>2, <2>1, <2>2
<1>4. W[Len(Tail(s))] = f
  BY <1>1, <1>2
<1>5. ASSUME NEW i \in 1..Len(Tail(s))
      PROVE  W[i] = Efecto(u, n, W[i-1], Tail(s)[i])
  <2>1. i \in 0..Len(Tail(s)) /\ i - 1 \in 0..Len(Tail(s)) /\ i + 1 \in 1..Len(s) /\ i + 1 - 1 = i /\ i - 1 + 1 = i
    BY <1>2
  <2>2. V[i + 1] = Efecto(u, n, V[i], s[i + 1])
    BY <1>1, <2>1
  <2> QED
    BY <1>2, <2>1, <2>2
<1> HIDE DEF W
<1> QED
  BY <1>3, <1>4, <1>5 DEF Lleva

(* One more answer arrives.                                                *)
LEMMA LlevaUnaMas ==
    ASSUME NEW u, NEW n, NEW e, NEW f, NEW S, NEW s \in Seq(S), NEW m, Lleva(u, n, s, e, f)
    PROVE  Lleva(u, n, Append(s, m), e, Efecto(u, n, f, m))
<1>1. PICK V : /\ V[0] = e /\ V[Len(s)] = f
               /\ \A i \in 1..Len(s) : V[i] = Efecto(u, n, V[i-1], s[i])
  BY DEF Lleva
<1>2. /\ Len(s) \in Nat /\ Len(Append(s, m)) = Len(s) + 1 /\ Append(s, m)[Len(s) + 1] = m
      /\ \A i \in 1..Len(s) : Append(s, m)[i] = s[i]
  <2>1. s \in Seq(S \cup {m})
    BY SeqMonotonic
  <2> QED
    BY <2>1, AppendProperties
<1> DEFINE W == [i \in 0..(Len(s) + 1) |-> IF i <= Len(s) THEN V[i] ELSE Efecto(u, n, f, m)]
<1>3. W[0] = e /\ W[Len(s) + 1] = Efecto(u, n, f, m)
  BY <1>1, <1>2
<1>4. ASSUME NEW i \in 1..(Len(s) + 1)
      PROVE  W[i] = Efecto(u, n, W[i-1], Append(s, m)[i])
  <2>1. CASE i \in 1..Len(s)
    <3>1. W[i] = V[i] /\ W[i-1] = V[i-1]
      BY <1>2, <2>1
    <3> QED
      BY <1>1, <1>2, <2>1, <3>1
  <2>2. CASE i = Len(s) + 1
    <3>1. W[i] = Efecto(u, n, f, m) /\ W[i-1] = V[Len(s)]
      BY <1>2, <2>2
    <3> QED
      BY <1>1, <1>2, <2>2, <3>1
  <2> QED
    BY <1>2, <2>1, <2>2
<1> HIDE DEF W
<1> QED
  BY <1>2, <1>3, <1>4 DEF Lleva
-----------------------------------------------------------------------------
(* No steps take it nowhere.                                               *)
LEMMA HiloNada ==
    ASSUME NEW u, NEW n, NEW d, NEW M, NEW R, NEW e, NEW f
    PROVE  LlevaHilo(u, n, d, M, R, <<>>, e, f) <=> e = f
<1>1. Len(<<>>) = 0 /\ 1..0 = {}
  OBVIOUS
<1>2. ASSUME e = f
      PROVE  LlevaHilo(u, n, d, M, R, <<>>, e, f)
  <2>1. [i \in {0} |-> e][0] = e
    OBVIOUS
  <2> QED
    BY <1>1, <1>2, <2>1 DEF LlevaHilo
<1>3. ASSUME LlevaHilo(u, n, d, M, R, <<>>, e, f)
      PROVE  e = f
  BY <1>1, <1>3 DEF LlevaHilo
<1> QED
  BY <1>2, <1>3

(* The first of the steps is taken.                                        *)
LEMMA HiloPrimero ==
    ASSUME NEW u, NEW n, NEW d, NEW M, NEW R, NEW e, NEW f, NEW S, NEW s \in Seq(S), s # <<>>, LlevaHilo(u, n, d, M, R, s, e, f)
    PROVE  LlevaHilo(u, n, d, M, R, Tail(s), EfectoPaso(u, n, d, M, R, e, Head(s)), f) /\ Consta(Head(s))
<1>1. PICK V : /\ V[0] = e /\ V[Len(s)] = f
               /\ \A i \in 1..Len(s) : Consta(s[i]) /\ V[i] = EfectoPaso(u, n, d, M, R, V[i-1], s[i])
  BY DEF LlevaHilo
<1>2. Len(s) \in Nat \ {0} /\ Head(s) = s[1] /\ Len(Tail(s)) = Len(s) - 1
      /\ \A i \in 1..Len(Tail(s)) : Tail(s)[i] = s[i + 1]
  <2>1. Len(s) \in Nat /\ Len(s) # 0
    BY EmptySeq
  <2> QED
    BY <2>1, HeadTailProperties
<1> DEFINE W == [i \in 0..Len(Tail(s)) |-> V[i + 1]]
<1>3. W[0] = EfectoPaso(u, n, d, M, R, e, Head(s))
  <2>1. V[1] = EfectoPaso(u, n, d, M, R, V[1-1], s[1])
    BY <1>1, <1>2
  <2>2. 0 \in 0..Len(Tail(s)) /\ 1 - 1 = 0 /\ 0 + 1 = 1
    BY <1>2
  <2> QED
    BY <1>1, <1>2, <2>1, <2>2
<1>4. W[Len(Tail(s))] = f
  BY <1>1, <1>2
<1>5. ASSUME NEW i \in 1..Len(Tail(s))
      PROVE  Consta(Tail(s)[i]) /\ W[i] = EfectoPaso(u, n, d, M, R, W[i-1], Tail(s)[i])
  <2>1. i \in 0..Len(Tail(s)) /\ i - 1 \in 0..Len(Tail(s)) /\ i + 1 \in 1..Len(s) /\ i + 1 - 1 = i /\ i - 1 + 1 = i
    BY <1>2
  <2>2. Consta(s[i + 1]) /\ V[i + 1] = EfectoPaso(u, n, d, M, R, V[i], s[i + 1])
    BY <1>1, <2>1
  <2> QED
    BY <1>2, <2>1, <2>2
<1> HIDE DEF W
<1>6. Consta(Head(s))
  BY <1>1, <1>2
<1> QED
  BY <1>3, <1>4, <1>5, <1>6 DEF LlevaHilo

(* A step is put before others.                                            *)
LEMMA HiloAntes ==
    ASSUME NEW u, NEW n, NEW d, NEW M, NEW R, NEW e, NEW f, NEW S, NEW s \in Seq(S), NEW p, Consta(p),
           LlevaHilo(u, n, d, M, R, s, EfectoPaso(u, n, d, M, R, e, p), f)
    PROVE  LlevaHilo(u, n, d, M, R, <<p>> \o s, e, f)
<1> DEFINE g == EfectoPaso(u, n, d, M, R, e, p)
           t == <<p>> \o s
<1>1. PICK V : /\ V[0] = g /\ V[Len(s)] = f
               /\ \A i \in 1..Len(s) : Consta(s[i]) /\ V[i] = EfectoPaso(u, n, d, M, R, V[i-1], s[i])
  BY DEF LlevaHilo
<1>2. /\ Len(s) \in Nat /\ Len(t) = Len(s) + 1 /\ t[1] = p
      /\ \A i \in 2..(Len(s) + 1) : t[i] = s[i - 1]
  <2>1. s \in Seq(S \cup {p}) /\ <<p>> \in Seq(S \cup {p}) /\ Len(<<p>>) = 1
    BY SeqMonotonic
  <2> QED
    BY <2>1, ConcatProperties
<1> HIDE DEF t
<1> DEFINE W == [i \in 0..(Len(s) + 1) |-> IF i = 0 THEN e ELSE V[i - 1]]
<1>3. W[0] = e /\ W[1] = g /\ W[Len(s) + 1] = f
  BY <1>1, <1>2
<1>4. ASSUME NEW i \in 1..(Len(s) + 1)
      PROVE  Consta(t[i]) /\ W[i] = EfectoPaso(u, n, d, M, R, W[i-1], t[i])
  <2>1. CASE i = 1
    BY <1>2, <1>3, <2>1
  <2>2. CASE i \in 2..(Len(s) + 1)
    <3>1. W[i] = V[i-1] /\ W[i-1] = V[i-1-1] /\ i - 1 \in 1..Len(s)
      BY <1>2, <2>2
    <3>2. Consta(s[i-1]) /\ V[i-1] = EfectoPaso(u, n, d, M, R, V[i-1-1], s[i-1])
      BY <1>1, <3>1
    <3> QED
      BY <1>2, <2>2, <3>1, <3>2
  <2> QED
    BY <1>2, <2>1, <2>2
<1> HIDE DEF W
<1>5. LlevaHilo(u, n, d, M, R, t, e, f)
  BY <1>2, <1>3, <1>4 DEF LlevaHilo
<1> QED
  BY <1>5 DEF t

(* One step, and a step before another.                                    *)
LEMMA HiloUno ==
    ASSUME NEW u, NEW n, NEW d, NEW M, NEW R, NEW e, NEW p, Consta(p)
    PROVE  LlevaHilo(u, n, d, M, R, <<p>>, e, EfectoPaso(u, n, d, M, R, e, p))
<1> DEFINE g == EfectoPaso(u, n, d, M, R, e, p)
<1>1. LlevaHilo(u, n, d, M, R, <<>>, g, g)
  BY HiloNada
<1>2. <<>> \in Seq({p}) /\ <<p>> \o <<>> = <<p>>
  OBVIOUS
<1> HIDE DEF g
<1>3. LlevaHilo(u, n, d, M, R, <<p>> \o <<>>, e, g)
  BY <1>1, <1>2, HiloAntes DEF g
<1> QED
  BY <1>2, <1>3 DEF g

(* Two steps.                                                              *)
LEMMA HiloDos ==
    ASSUME NEW u, NEW n, NEW d, NEW M, NEW R, NEW e, NEW p, NEW q, NEW g, NEW f,
           Consta(p), Consta(q), g = EfectoPaso(u, n, d, M, R, e, p), f = EfectoPaso(u, n, d, M, R, g, q)
    PROVE  LlevaHilo(u, n, d, M, R, <<p, q>>, e, f)
<1> DEFINE V == [i \in 0..2 |-> IF i = 0 THEN e ELSE IF i = 1 THEN g ELSE f]
           s == <<p, q>>
<1>1. V[0] = e /\ V[1] = g /\ V[2] = f
  OBVIOUS
<1>2. Len(s) = 2 /\ s[1] = p /\ s[2] = q
  OBVIOUS
<1>3. \A i \in 1..2 : (i = 1 /\ i - 1 = 0) \/ (i = 2 /\ i - 1 = 1)
  OBVIOUS
<1> HIDE DEF V, s
<1>4. LlevaHilo(u, n, d, M, R, s, e, f)
  BY <1>1, <1>2, <1>3 DEF LlevaHilo
<1> QED
  BY <1>4 DEF s

(* Three steps: the echo of JOIN, the names and what follows.              *)
LEMMA HiloTres ==
    ASSUME NEW u, NEW n, NEW d, NEW M, NEW R, NEW e, NEW p, NEW q, NEW r, NEW g, NEW h, NEW f,
           Consta(p), Consta(q), Consta(r), g = EfectoPaso(u, n, d, M, R, e, p), h = EfectoPaso(u, n, d, M, R, g, q),
           f = EfectoPaso(u, n, d, M, R, h, r)
    PROVE  LlevaHilo(u, n, d, M, R, <<p, q, r>>, e, f)
<1> DEFINE V == [i \in 0..3 |-> IF i = 0 THEN e ELSE IF i = 1 THEN g ELSE IF i = 2 THEN h ELSE f]
           s == <<p, q, r>>
<1>1. V[0] = e /\ V[1] = g /\ V[2] = h /\ V[3] = f
  OBVIOUS
<1>2. Len(s) = 3 /\ s[1] = p /\ s[2] = q /\ s[3] = r
  OBVIOUS
<1>3. \A i \in 1..3 : (i = 1 /\ i - 1 = 0) \/ (i = 2 /\ i - 1 = 1) \/ (i = 3 /\ i - 1 = 2)
  OBVIOUS
<1> HIDE DEF V, s
<1>4. LlevaHilo(u, n, d, M, R, s, e, f)
  BY <1>1, <1>2, <1>3 DEF LlevaHilo
<1> QED
  BY <1>4 DEF s

(* Nothing else of the channel counts for one user and one nick.           *)
LEMMA HiloIgual ==
    ASSUME NEW u, NEW n, NEW d, NEW M, NEW R, NEW M2, NEW R2, NEW s, NEW e, NEW f,
           <<u, 1>> \in M2 <=> <<u, 1>> \in M, n \in M2 <=> n \in M, <<u, 1>> \in R2 <=> <<u, 1>> \in R,
           LlevaHilo(u, n, d, M, R, s, e, f)
    PROVE  LlevaHilo(u, n, d, M2, R2, s, e, f)
<1>1. \A g, p : EfectoPaso(u, n, d, M2, R2, g, p) = EfectoPaso(u, n, d, M, R, g, p)
  BY DEF EfectoPaso
<1> QED
  BY <1>1 DEF LlevaHilo

(* A step without effect, whoever it is for.                               *)
LEMMA PasoInocuo ==
    ASSUME NEW u, NEW n, NEW d, NEW M, NEW R, NEW e, NEW p, p.msg.tipo \notin Cambian, p.paso # "names"
    PROVE  EfectoPaso(u, n, d, M, R, e, p) = e
BY DEF EfectoPaso, Efecto, Cambian

(* A thread without a step to take has none with effect, and neither have  *)
(* one or two steps of that kind, nor the rest of such steps, nor one put  *)
(* before them.                                                            *)
LEMMA InocuoNada == Inocuo(<<>>)
BY DEF Inocuo

(* One step without effect.                                                *)
LEMMA InocuoUno ==
    ASSUME NEW p, p.msg.tipo \notin Cambian, p.paso # "names"
    PROVE  Inocuo(<<p>>)
BY DEF Inocuo

(* The first step of those without effect, and the rest.                   *)
LEMMA InocuoSigue ==
    ASSUME NEW S, NEW s \in Seq(S), s # <<>>, Inocuo(s)
    PROVE  Inocuo(Tail(s)) /\ Head(s).msg.tipo \notin Cambian /\ Head(s).paso # "names"
<1>1. Len(s) \in Nat \ {0} /\ Head(s) = s[1] /\ Len(Tail(s)) = Len(s) - 1
      /\ \A i \in 1..Len(Tail(s)) : Tail(s)[i] = s[i + 1]
  <2>1. Len(s) \in Nat /\ Len(s) # 0
    BY EmptySeq
  <2> QED
    BY <2>1, HeadTailProperties
<1>2. \A i \in 1..Len(Tail(s)) : i + 1 \in 1..Len(s)
  BY <1>1
<1>3. 1 \in 1..Len(s)
  BY <1>1
<1> QED
  BY <1>1, <1>2, <1>3 DEF Inocuo

(* A step without effect before others.                                    *)
LEMMA InocuoAntes ==
    ASSUME NEW S, NEW s \in Seq(S), Inocuo(s), NEW p, p.msg.tipo \notin Cambian, p.paso # "names"
    PROVE  Inocuo(<<p>> \o s)
<1> DEFINE t == <<p>> \o s
<1>1. /\ Len(s) \in Nat /\ Len(t) = Len(s) + 1 /\ t[1] = p
      /\ \A i \in 2..(Len(s) + 1) : t[i] = s[i - 1]
  <2>1. s \in Seq(S \cup {p}) /\ <<p>> \in Seq(S \cup {p}) /\ Len(<<p>>) = 1
    BY SeqMonotonic
  <2> QED
    BY <2>1, ConcatProperties
<1> HIDE DEF t
<1>2. \A i \in 1..Len(t) : i = 1 \/ (i \in 2..(Len(s) + 1) /\ i - 1 \in 1..Len(s))
  BY <1>1
<1> SUFFICES Inocuo(t)
  BY DEF t
<1> QED
  BY <1>1, <1>2 DEF Inocuo
-----------------------------------------------------------------------------
(* The connections that go by the nick of CONNECT.                         *)
Suyas == {c \in Conexiones : nombre[c] = c}

(* What the client of u should show of n with M on the channel, and with   *)
(* those that the server has there.                                        *)
DebeCon(u, n, M) == IF <<u, 1>> \notin M THEN "cerrada" ELSE IF n \in M THEN "con" ELSE "sin"
Debe(u, n) == DebeCon(u, n, miembros)

(* The user has not connected, or is on its first connection with the nick *)
(* of CONNECT, if registered.                                              *)
Sano(v) ==
    \/ conexiones[v] = 0
    \/ /\ UnaSola(v)
       /\ <<v, 1>> \notin cerrada
       /\ nombre[<<v, 1>>] \in {Nadie, <<v, 1>>}

(* What the client will show with all it has received and has on its way;  *)
(* and what it has to show by then for the thread that changed the channel *)
(* last to take it, with the steps it has left, to what the server has.    *)
Llegara(u, n, f) ==
    \E g : /\ Lleva(u, n, buffer[<<u, 1>>], SeVe(u, n), g)
           /\ Lleva(u, n, alCliente[<<u, 1>>], g, f)
Dira(u, n, f) ==
    \/ f = Debe(u, n) /\ \A x \in Conexiones : Inocuo(hilo[x])
    \/ \E d \in Conexiones :
        /\ \A x \in Conexiones \ {d} : Inocuo(hilo[x])
        /\ LlevaHilo(u, n, d, miembros, Suyas, hilo[d], f, Debe(u, n))
VeraA(u, n) == \E f : Llegara(u, n, f) /\ Dira(u, n, f)

Fiel ==
    modo.serie => \A u \in Usuarios : \A n \in Nicks :
        <<u, 1>> \in Conexiones /\ Sano(u) /\ Sano(n[1]) => VeraA(u, n)

(* A connection that is closed is nobody's, and whoever has not connected  *)
(* has no windows.                                                         *)
Cerradas == \A c \in cerrada : ~Registrado(c)
SinAbrir == \A u \in Usuarios : conexiones[u] = 0 => abiertas[u] = {}

FielInv == Cerradas /\ SinAbrir /\ Fiel
-----------------------------------------------------------------------------
(* Each handler of an answer does to the window of the channel what Efecto *)
(* says.                                                                   *)
LEMMA RespuestaSeVe ==
    ASSUME TipoVentanas, NEW u \in Usuarios, cnick[u] = <<u, 1>>, NEW n \in Nicks, NEW m \in MensajesPara(u),
           ComandosRecv(u, m)
    PROVE  SeVe(u, n)' = Efecto(u, n, SeVe(u, n), m)
<1> DEFINE par == <<Canal, n>>
           Ve1 == Canal \in abiertas'[u]
           Ve0 == Canal \in abiertas[u]
           e == SeVe(u, n)
<1>0. /\ abiertas \in [Usuarios -> SUBSET Ventanas]
      /\ vista \in [Usuarios -> SUBSET (Ventanas \X Nicks)]
      /\ vista[u] \subseteq abiertas[u] \X Nicks
  BY DEF TipoVentanas
<1>1. /\ SeVe(u, n)' = IF ~Ve1 THEN "cerrada" ELSE IF par \in vista'[u] THEN "con" ELSE "sin"
      /\ e = IF ~Ve0 THEN "cerrada" ELSE IF par \in vista[u] THEN "con" ELSE "sin"
      /\ par \in vista[u] => Ve0
  BY <1>0 DEF SeVe, EnCanal
<1>2. \A ns : par \in {Canal} \X ns <=> n \in ns
  OBVIOUS
<1> HIDE DEF par, e
<1>3. CASE RplJoin(u, m)
  <2>1. abiertas'[u] = abiertas[u] \cup {Canal} /\ vista'[u] = vista[u] \cup ({Canal} \X {m.de})
    BY <1>0, <1>3 DEF RplJoin, Abre, Pon
  <2>2. Efecto(u, n, e, m) = IF m.de = n \/ e = "con" THEN "con" ELSE "sin"
    BY <1>3 DEF RplJoin, Efecto
  <2>3. par \in vista'[u] <=> par \in vista[u] \/ n = m.de
    BY <1>2, <2>1
  <2>4. e = "con" <=> par \in vista[u]
    BY <1>1
  <2> QED
    BY <1>1, <2>1, <2>2, <2>3, <2>4 DEF e
<1>4. CASE RplPrivMsgCanal(u, m)
  <2>1. abiertas'[u] = abiertas[u] \cup {Canal} /\ vista'[u] = vista[u]
    BY <1>0, <1>4 DEF RplPrivMsgCanal, Abre
  <2>2. Efecto(u, n, e, m) = IF e = "cerrada" THEN "sin" ELSE e
    BY <1>4 DEF RplPrivMsgCanal, Efecto
  <2> QED
    BY <1>1, <2>1, <2>2 DEF e
<1>5. CASE RplPrivMsg(u, m)
  <2>1. m.de \in Nicks /\ m.tipo = "PRIVADO"
    BY <1>5 DEF RplPrivMsg, MensajesPara, MensajesIRC
  <2>2. m.de # Canal
    BY <2>1 DEF Nicks, Canal
  <2>3. abiertas'[u] = abiertas[u] \cup {m.de}
    BY <1>0, <1>5 DEF RplPrivMsg, Abre
  <2>4. vista'[u] = vista[u] \/ vista'[u] = vista[u] \cup ({m.de} \X {m.de, cnick[u]})
    BY <1>0, <1>5 DEF RplPrivMsg, Pon
  <2>5. par \notin {m.de} \X {m.de, cnick[u]}
    BY <2>2 DEF par
  <2>6. Efecto(u, n, e, m) = e
    BY <2>1 DEF Efecto
  <2> QED
    BY <1>1, <2>2, <2>3, <2>4, <2>5, <2>6 DEF e
<1>6. CASE RplNamReply(u, m)
  <2>1. abiertas' = abiertas
    BY <1>6 DEF RplNamReply
  <2>2. vista'[u] = IF Ve0 THEN vista[u] \cup ({Canal} \X m.nicks) ELSE vista[u]
    BY <1>0, <1>6 DEF RplNamReply, Pon, EnCanal
  <2>3. Efecto(u, n, e, m) = IF e = "sin" /\ n \in m.nicks THEN "con" ELSE e
    BY <1>6 DEF RplNamReply, Efecto
  <2>4. Ve0 => (par \in vista'[u] <=> par \in vista[u] \/ n \in m.nicks)
    BY <1>2, <2>2
  <2> QED
    BY <1>1, <2>1, <2>2, <2>3, <2>4 DEF e
<1>7. CASE RplNick(u, m)
  <2>1. m.de = Servicio /\ m.tipo = "NICK"
    BY <1>7 DEF RplNick, MensajesPara, MensajesIRC
  <2>2. Servicio \notin Nicks
    BY DEF Servicio, Nicks
  <2> DEFINE nuevo == CHOOSE x \in m.nicks : TRUE
             Cambia(x) == <<x[1], IF x[2] = m.de THEN nuevo ELSE x[2]>>
  <2>3. abiertas' = abiertas /\ vista' = [vista EXCEPT ![u] = {Cambia(x) : x \in @}]
    BY <1>7 DEF RplNick
  <2>4. vista'[u] = {Cambia(x) : x \in vista[u]}
    BY <1>0, <2>3
  <2>5. ASSUME NEW x \in vista[u]
        PROVE  Cambia(x) = x
    <3>1. x = <<x[1], x[2]>> /\ x[2] \in Nicks
      BY <1>0
    <3> QED
      BY <2>1, <2>2, <3>1
  <2> HIDE DEF Cambia
  <2>6. vista'[u] = vista[u]
    BY <2>4, <2>5
  <2>7. Efecto(u, n, e, m) = e
    BY <2>1 DEF Efecto
  <2> QED
    BY <1>1, <2>3, <2>6, <2>7 DEF e
<1>8. ASSUME NEW ns, Quita(u, Canal, ns), UNCHANGED abiertas
      PROVE  SeVe(u, n)' = IF e = "con" /\ n \in ns THEN "sin" ELSE e
  <2>1. vista'[u] = vista[u] \ ({Canal} \X ns)
    BY <1>0, <1>8 DEF Quita
  <2>2. par \in vista'[u] <=> par \in vista[u] /\ n \notin ns
    BY <1>2, <2>1
  <2> QED
    BY <1>1, <1>8, <2>2 DEF e
<1>9. ASSUME Cierra(u, Canal)
      PROVE  SeVe(u, n)' = "cerrada"
  <2>1. abiertas'[u] = abiertas[u] \ {Canal}
    BY <1>0, <1>9 DEF Cierra
  <2> QED
    BY <1>1, <2>1
<1>10. CASE RplPart(u, m)
  <2>1. Efecto(u, n, e, m) = IF m.de = <<u, 1>> THEN "cerrada" ELSE IF e = "con" /\ m.de = n THEN "sin" ELSE e
    BY <1>10 DEF RplPart, Efecto
  <2>2. CASE m.de = <<u, 1>>
    BY <1>9, <1>10, <2>1, <2>2 DEF RplPart, e
  <2>3. CASE m.de # <<u, 1>>
    <3>1. Quita(u, Canal, {m.de}) /\ UNCHANGED abiertas
      BY <1>10, <2>3 DEF RplPart
    <3>2. n \in {m.de} <=> m.de = n
      OBVIOUS
    <3> QED
      BY <1>8, <2>1, <2>3, <3>1, <3>2 DEF e
  <2> QED
    BY <2>2, <2>3
<1>11. CASE RplKick(u, m)
  <2>1. Efecto(u, n, e, m) = IF <<u, 1>> \in m.nicks THEN "cerrada"
                             ELSE IF e = "con" /\ n \in m.nicks THEN "sin" ELSE e
    BY <1>11 DEF RplKick, Efecto
  <2>2. CASE <<u, 1>> \in m.nicks
    BY <1>9, <1>11, <2>1, <2>2 DEF RplKick, e
  <2>3. CASE <<u, 1>> \notin m.nicks
    <3>1. Quita(u, Canal, m.nicks) /\ UNCHANGED abiertas
      BY <1>11, <2>3 DEF RplKick
    <3> QED
      BY <1>8, <2>1, <2>3, <3>1 DEF e
  <2> QED
    BY <2>2, <2>3
<1>12. CASE ErrBannedFromChannel(u, m)
  <2>1. Efecto(u, n, e, m) = IF e = "con" /\ n \in m.nicks THEN "sin" ELSE e
    BY <1>12 DEF ErrBannedFromChannel, Efecto
  <2>2. Quita(u, Canal, m.nicks) /\ UNCHANGED abiertas
    BY <1>12 DEF ErrBannedFromChannel
  <2> QED
    BY <1>8, <2>1, <2>2 DEF e
<1>13. CASE RplMode(u, m) \/ ParseNoIRC(u, m) \/ Muestra(u, m)
  <2>1. UNCHANGED <<abiertas, vista>> /\ m.tipo \notin Cambian
    BY <1>13 DEF RplMode, ParseNoIRC, Muestra, SoloSeMuestran, Saludos, Informes, Temas, Errores, Ausencias,
        Dialogos, Desconocidos, Cambian
  <2>2. Efecto(u, n, e, m) = e
    BY <2>1 DEF Efecto, Cambian
  <2> QED
    BY <1>1, <2>1, <2>2 DEF e
<1> QED
  BY <1>3, <1>4, <1>5, <1>6, <1>7, <1>10, <1>11, <1>12, <1>13 DEF ComandosRecv, e
-----------------------------------------------------------------------------
(* A user that has only connected once, with the nick of CONNECT: nobody   *)
(* else has its nicks, and it has the second one neither.                  *)
LEMMA Suya ==
    ASSUME EnvioTypeOK, TipoBase, Nuevas, NEW n \in Nicks, Sano(n[1]), NEW c \in Conexiones
    PROVE  nombre[c] = n <=> c = n /\ Registrado(c)
<1>0. /\ n = <<n[1], n[2]>> /\ n[1] \in Usuarios /\ n # Nadie
      /\ c = <<c[1], c[2]>> /\ c[1] \in Usuarios /\ c[2] \in Nat \ {0}
      /\ nombre[c] \in NicksDe(c[1]) \cup {Nadie}
  BY Cs DEF Nicks, Nadie, TipoBase
<1>1. ASSUME Registrado(c), c[1] = n[1]
      PROVE  c = <<n[1], 1>> /\ nombre[c] = c
  <2>1. conexiones[n[1]] \in Nat /\ c[2] <= conexiones[c[1]]
    BY <1>0, <1>1 DEF EnvioTypeOK, Nuevas, Registrado
  <2>2. conexiones[n[1]] = 1 /\ nombre[<<n[1], 1>>] \in {Nadie, <<n[1], 1>>}
    BY <1>0, <1>1, <2>1 DEF Sano, UnaSola
  <2>3. c[2] = 1
    BY <1>0, <1>1, <2>1, <2>2
  <2> QED
    BY <1>0, <1>1, <2>2, <2>3 DEF Registrado
<1>2. ASSUME nombre[c] = n
      PROVE  c = n /\ Registrado(c)
  <2>1. Registrado(c) /\ c[1] = n[1]
    BY <1>0, <1>2 DEF Registrado, NicksDe
  <2> QED
    BY <1>1, <1>2, <2>1
<1>3. ASSUME c = n, Registrado(c)
      PROVE  nombre[c] = n
  BY <1>1, <1>3
<1> QED
  BY <1>2, <1>3

(* So its nick is among those of the members when it is one.               *)
LEMMA SuyaNombre ==
    ASSUME EnvioTypeOK, TipoBase, Nuevas, NEW n \in Nicks, Sano(n[1])
    PROVE  n \in Nombres(miembros) <=> n \in miembros
<1>1. \A c \in miembros : c \in Conexiones /\ Registrado(c)
  BY DEF TipoBase
<1>2. \A c \in miembros : nombre[c] = n <=> c = n
  BY <1>1, Suya
<1> QED
  BY <1>1, <1>2 DEF Nombres

(* The nick of a registered connection stays until it is closed, if it was *)
(* not that of CONNECT: nobody asks for that one twice.                    *)
LEMMA OtroNick ==
    ASSUME EnvioTypeOK, TipoOrdenes, TipoBase, TipoHilo, PrimerNick, NEW c \in Conexiones, Registrado(c),
           NEW d \in Conexiones, Hilo(d), c \notin cerrada'
    PROVE  nombre'[c] = nombre[c] \/ nombre'[c] \notin {Nadie, <<c[1], 1>>}
<1>0. nombre \in [Conexiones -> Nicks \cup {Nadie}]
  BY DEF TipoBase
<1>1. CASE d # c
  BY <1>1, HiloPropio
<1>2. CASE d = c /\ Nick(c)
  <2>1. UNCHANGED nombre \/ nombre' = [nombre EXCEPT ![c] = Head(alServidor[c]).a]
    BY <1>2 DEF Nick
  <2>2. alServidor[c] # <<>> /\ Head(alServidor[c]).tipo = "NICK"
    BY <1>2 DEF Nick, Recibe
  <2>3. SinPrimero(c[1], alServidor[c])
    BY DEF PrimerNick
  <2>4. Len(alServidor[c]) \in Nat \ {0} /\ Head(alServidor[c]) = alServidor[c][1]
    <3>1. alServidor[c] \in Seq(OrdenesDe(c[1]))
      BY DEF TipoOrdenes
    <3>2. Len(alServidor[c]) \in Nat /\ Len(alServidor[c]) # 0
      BY <2>2, <3>1, EmptySeq
    <3> QED
      BY <3>1, <3>2
  <2>5. 1 \in 1..Len(alServidor[c])
    BY <2>4
  <2>6. Head(alServidor[c]).a # <<c[1], 1>>
    BY <2>2, <2>3, <2>4, <2>5 DEF SinPrimero
  <2>7. Head(alServidor[c]).a \in NicksDe(c[1])
    BY <2>2, OrdenDe
  <2>8. Head(alServidor[c]).a # Nadie
    BY <2>7, Cs DEF NicksDe, Nadie
  <2> QED
    BY <1>0, <2>1, <2>6, <2>8
<1>3. CASE d = c /\ User(c)
  BY <1>3 DEF User, TipoBase
<1>4. CASE d = c /\ CerrarConexion(c)
  BY <1>4 DEF CerrarConexion
<1>5. CASE d = c /\ ~Nick(c) /\ ~User(c) /\ ~CerrarConexion(c)
  BY <1>5 DEF Hilo, ProcesaComando, SinRegistrar, Join, Join0, PartirCanal, Kick, Mode, SoloContesta, Privmsg,
     Quit, ComandoVacio, ListNicks, EnviarANick, Enviar, ListarNames, sinEnvios
<1> QED
  BY <1>1, <1>2, <1>3, <1>4, <1>5

(* What is closed stays closed.                                            *)
LEMMA CerradaCrece ==
    ASSUME NEW d \in Conexiones, Hilo(d)
    PROVE  cerrada \subseteq cerrada'
BY DEF Hilo, ProcesaComando, SinRegistrar, Nick, User, Join, Join0, PartirCanal, Kick, Mode, SoloContesta, Privmsg,
   Quit, ComandoVacio, ListNicks, EnviarANick, Enviar, ListarNames, CerrarConexion, sinEnvios

(* Whoever is so after a step was so before.                               *)
LEMMA SanoAntes ==
    ASSUME EnvioTypeOK, EnvioTypeOK', TipoInv, Nuevas, PrimerNick, [Next]_vars,
           NEW v \in Usuarios, Sano(v)'
    PROVE  Sano(v)
<1>0. /\ TipoInterfaz /\ TipoPreguntas /\ TipoOrdenes /\ TipoRecepcion /\ TipoBase /\ TipoHilo
      /\ conexiones[v] \in Nat /\ conexiones'[v] \in Nat /\ conexiones[v] <= conexiones'[v]
  BY TodoCrece DEF TipoInv, EnvioTypeOK
<1>1. CASE conexiones'[v] = 0
  BY <1>0, <1>1 DEF Sano
<1>2. CASE UnaSola(v)' /\ <<v, 1>> \notin cerrada' /\ nombre'[<<v, 1>>] \in {Nadie, <<v, 1>>}
  <2>1. CASE conexiones[v] = 0
    BY <2>1 DEF Sano
  <2>2. CASE UnaSola(v)
    <3>1. <<v, 1>> \in Conexiones
      BY <1>0, <2>2 DEF UnaSola, TipoInterfaz
    <3>2. ASSUME UNCHANGED <<cerrada, nombre>>
          PROVE  Sano(v)
      BY <1>2, <2>2, <3>2 DEF Sano
    <3>3. ASSUME NEW d \in Conexiones, Hilo(d)
          PROVE  Sano(v)
      <4>1. <<v, 1>> \notin cerrada
        BY <1>2, <3>3, CerradaCrece
      <4>2. nombre[<<v, 1>>] \in {Nadie, <<v, 1>>}
        <5>1. CASE ~Registrado(<<v, 1>>)
          BY <5>1 DEF Registrado
        <5>2. CASE Registrado(<<v, 1>>)
          BY <1>0, <1>2, <3>1, <3>3, <5>2, OtroNick
        <5> QED
          BY <5>1, <5>2
      <4> QED
        BY <2>2, <4>1, <4>2 DEF Sano
    <3>4. CASE \E u \in Usuarios : Interfaz(u) \/ Envio(u)
      BY <3>2, <3>4, ClienteDeja DEF servidor
    <3>5. CASE \E d \in Conexiones : RecvPthread(d)
      BY <1>0, <3>2, <3>5, RecvDeja DEF servidor
    <3>6. CASE UNCHANGED vars
      BY <3>2, <3>6 DEF vars, servidor
    <3> QED
      BY <3>3, <3>4, <3>5, <3>6 DEF Next
  <2> QED
    BY <1>0, <1>2, <2>1, <2>2, SolaDe
<1> QED
  BY <1>1, <1>2 DEF Sano
-----------------------------------------------------------------------------
(* Nobody has anything to send.                                            *)
LEMMA DiraVacia ==
    ASSUME NEW u, NEW n, NEW f, Dira(u, n, f), \A y \in Conexiones : hilo[y] = <<>>
    PROVE  f = Debe(u, n)
<1>1. CASE \E d \in Conexiones : LlevaHilo(u, n, d, miembros, Suyas, hilo[d], f, Debe(u, n))
  BY <1>1, HiloNada
<1> QED
  BY <1>1 DEF Dira

(* A thread that had nothing to send gets steps without effect.            *)
LEMMA DiraRespuesta ==
    ASSUME NEW u, NEW n, NEW f, Dira(u, n, f), NEW x \in Conexiones, hilo[x] = <<>>,
           \A y \in Conexiones \ {x} : hilo'[y] = hilo[y],
           Inocuo(hilo'[x]), UNCHANGED miembros, UNCHANGED nombre \/ \A y \in Conexiones : hilo[y] = <<>>
    PROVE  Dira(u, n, f)'
<1>0. Debe(u, n)' = Debe(u, n)
  BY DEF Debe
<1>1. CASE f = Debe(u, n) /\ \A y \in Conexiones : Inocuo(hilo[y])
  BY <1>0, <1>1 DEF Dira
<1>2. CASE ~(f = Debe(u, n) /\ \A y \in Conexiones : Inocuo(hilo[y]))
  <2>1. PICK d \in Conexiones : /\ \A y \in Conexiones \ {d} : Inocuo(hilo[y])
                                /\ LlevaHilo(u, n, d, miembros, Suyas, hilo[d], f, Debe(u, n))
    BY <1>2 DEF Dira
  <2>2. hilo[d] # <<>>
    <3> SUFFICES ASSUME hilo[d] = <<>>
                 PROVE  FALSE
      OBVIOUS
    <3>1. f = Debe(u, n)
      BY <2>1, HiloNada
    <3>2. \A y \in Conexiones : Inocuo(hilo[y])
      BY <2>1, InocuoNada
    <3> QED
      BY <1>2, <3>1, <3>2
  <2>3. d # x /\ hilo'[d] = hilo[d] /\ Suyas' = Suyas
    BY <2>2 DEF Suyas
  <2>4. \A y \in Conexiones \ {d} : Inocuo(hilo'[y])
    BY <2>1
  <2>5. LlevaHilo(u, n, d, miembros', Suyas', hilo'[d], f, Debe(u, n)')
    BY <1>0, <2>1, <2>3
  <2> QED
    BY <2>4, <2>5 DEF Dira
<1> QED
  BY <1>1, <1>2

(* A thread gets its steps while nobody has anything to send.              *)
LEMMA DiraNueva ==
    ASSUME NEW u, NEW n, NEW f, Dira(u, n, f), NEW x \in Conexiones, \A y \in Conexiones : hilo[y] = <<>>,
           \A y \in Conexiones \ {x} : hilo'[y] = hilo[y],
           LlevaHilo(u, n, x, miembros', Suyas', hilo'[x], Debe(u, n), Debe(u, n)')
    PROVE  Dira(u, n, f)'
<1>1. f = Debe(u, n)
  BY DiraVacia
<1>2. \A y \in Conexiones \ {x} : Inocuo(hilo'[y])
  BY InocuoNada
<1> QED
  BY <1>1, <1>2 DEF Dira

(* What the threads are given to send that no window of the channel shows. *)
LEMMA InocuoDe ==
    /\ \A tipo, n : tipo \notin Cambian => Inocuo(Respuesta(tipo, n))
    /\ \A m : m.tipo \notin Cambian => Inocuo(<<Aqui(m)>>) /\ \A ns : Inocuo(<<ANicks(m, ns)>>)
    /\ \A m, ns : m.tipo \notin Cambian => Inocuo(<<Aqui(m), AlCanal(m, ns)>>)
    /\ \A n : Inocuo(Append(Respuesta("NOTICE", n), Fin))
    /\ Servicio # Nadie
<1>1. \A m : m.tipo \notin Cambian => Inocuo(<<Aqui(m)>>) /\ \A ns : Inocuo(<<ANicks(m, ns)>>)
  BY InocuoUno DEF Aqui, ANicks
<1>2. \A tipo, n : tipo \notin Cambian => Inocuo(Respuesta(tipo, n))
  BY <1>1 DEF Respuesta, Mensaje
<1>3. ASSUME NEW m, NEW ns, m.tipo \notin Cambian
      PROVE  Inocuo(<<Aqui(m), AlCanal(m, ns)>>)
  BY <1>3 DEF Inocuo, Aqui, AlCanal
<1>4. ASSUME NEW n
      PROVE  Inocuo(Append(Respuesta("NOTICE", n), Fin))
  <2> DEFINE a == Aqui(Mensaje("NOTICE", Servicio, {}, n))
             t == Append(<<a>>, Fin)
  <2>1. Len(t) = 2 /\ t[1] = a /\ t[2] = Fin
    <3>1. <<a>> \in Seq({a, Fin}) /\ Len(<<a>>) = 1 /\ <<a>>[1] = a
      OBVIOUS
    <3> HIDE DEF a, Fin
    <3> QED
      BY <3>1, AppendProperties
  <2>2. /\ a.msg.tipo = "NOTICE" /\ a.paso = "aqui"
        /\ Fin.msg.tipo = "QUIT" /\ Fin.paso = "fin"
    BY DEF Aqui, Mensaje, Fin
  <2>3. Respuesta("NOTICE", n) = <<a>>
    BY DEF Respuesta
  <2> HIDE DEF Fin, a, t
  <2>4. Inocuo(t)
    <3>1. \A i \in 1..Len(t) : i = 1 \/ i = 2
      BY <2>1
    <3> QED
      BY <2>1, <2>2, <3>1 DEF Inocuo, Cambian
  <2> QED
    BY <2>3, <2>4 DEF t
<1> QED
  BY <1>1, <1>2, <1>3, <1>4 DEF Servicio, Nadie

(* What is known of the nicks of two users that are so, and of who is on   *)
(* the channel.                                                            *)
LEMMA Conocidos ==
    ASSUME EnvioTypeOK, TipoInv, Nuevas, NEW u \in Usuarios, NEW n \in Nicks, Sano(u), Sano(n[1]),
           NEW c \in Conexiones, c = <<u, 1>>
    PROVE  /\ \A x \in Conexiones : Registrado(x) => (nombre[x] = n <=> x = n) /\ (nombre[x] = c <=> x = c)
           /\ miembros \subseteq {x \in Conexiones : Registrado(x)}
           /\ c \in miembros => c \in Suyas
           /\ n \in Nombres(miembros) <=> n \in miembros
           /\ c \in Nombres(miembros) <=> c \in miembros
           /\ Nadie \notin Nombres(miembros)
<1>0. TipoBase /\ c \in Nicks /\ c[1] = u
  BY DEF TipoInv, Nicks
<1>1. miembros \subseteq {x \in Conexiones : Registrado(x)}
  BY <1>0 DEF TipoBase
<1>2. \A x \in Conexiones : Registrado(x) => (nombre[x] = n <=> x = n) /\ (nombre[x] = c <=> x = c)
  BY <1>0, Suya
<1>3. c \in miembros => c \in Suyas
  BY <1>1, <1>2 DEF Suyas
<1>4. Nadie \notin Nombres(miembros)
  BY <1>1 DEF Nombres, Registrado
<1>5. n \in Nombres(miembros) <=> n \in miembros
  BY <1>0, SuyaNombre
<1>6. c \in Nombres(miembros) <=> c \in miembros
  BY <1>0, SuyaNombre
<1> QED
  BY <1>1, <1>2, <1>3, <1>4, <1>5, <1>6
-----------------------------------------------------------------------------
(* The fields of the steps of a thread.                                    *)
LEMMA PasoCampos ==
    /\ \A m, s : AlCanal(m, s).paso = "canal" /\ AlCanal(m, s).msg = m /\ AlCanal(m, s).nicks = s
    /\ \A m, s : ANicks(m, s).paso = "nicks" /\ ANicks(m, s).msg = m /\ ANicks(m, s).nicks = s
    /\ \A m : Aqui(m).paso = "aqui" /\ Aqui(m).msg = m
    /\ Names.paso = "names" /\ Names.msg.tipo = "NAMREPLY"
    /\ \A t, de, ns, o : /\ Mensaje(t, de, ns, o).tipo = t /\ Mensaje(t, de, ns, o).de = de
                         /\ Mensaje(t, de, ns, o).nicks = ns
BY DEF AlCanal, ANicks, Aqui, Names, Mensaje

(* The echo of JOIN goes to the members, to its author, and the names of   *)
(* all to the author.                                                      *)
LEMMA JoinLleva ==
    ASSUME NEW u, NEW n, NEW M, NEW R, NEW x, NEW c, c = <<u, 1>>, NEW eco, eco.tipo = "JOIN",
           eco.de = n <=> x = n, eco.de = c <=> x = c, x \notin M
    PROVE  LlevaHilo(u, n, x, M \cup {x}, R, <<AlCanal(eco, {eco.de}), Aqui(eco), Names>>,
                     DebeCon(u, n, M), DebeCon(u, n, M \cup {x}))
<1> DEFINE p == AlCanal(eco, {eco.de})
           q == Aqui(eco)
           e == DebeCon(u, n, M)
           f == DebeCon(u, n, M \cup {x})
           g == IF c \in M /\ x # c THEN f ELSE e
           h == IF x = c THEN IF c = n THEN "con" ELSE "sin" ELSE g
<1>1. Consta(p) /\ Consta(q) /\ Consta(Names)
  BY PasoCampos DEF Consta
<1>2. /\ p.paso = "canal" /\ p.msg = eco /\ p.nicks = {eco.de}
      /\ q.paso = "aqui" /\ q.msg = eco
      /\ Names.paso = "names"
  BY PasoCampos
<1>3. \A a : Efecto(u, n, a, eco) = IF eco.de = n \/ a = "con" THEN "con" ELSE "sin"
  BY DEF Efecto
<1> HIDE DEF p, q
<1>4. /\ e = IF c \notin M THEN "cerrada" ELSE IF n \in M THEN "con" ELSE "sin"
      /\ f = IF c \notin M /\ c # x THEN "cerrada" ELSE IF n \in M \/ n = x THEN "con" ELSE "sin"
  BY DEF DebeCon
<1> HIDE DEF e, f
<1>5. g = EfectoPaso(u, n, x, M \cup {x}, R, e, p)
  <2>1. EfectoPaso(u, n, x, M \cup {x}, R, e, p)
            = IF c \in M \cup {x} /\ c \notin {eco.de} THEN Efecto(u, n, e, eco) ELSE e
    BY <1>2 DEF EfectoPaso
  <2> QED
    BY <1>3, <1>4, <2>1
<1>6. h = EfectoPaso(u, n, x, M \cup {x}, R, g, q)
  <2>1. EfectoPaso(u, n, x, M \cup {x}, R, g, q) = IF x = c THEN Efecto(u, n, g, eco) ELSE g
    BY <1>2 DEF EfectoPaso
  <2> QED
    BY <1>3, <1>4, <2>1
<1>7. f = EfectoPaso(u, n, x, M \cup {x}, R, h, Names)
  <2>1. EfectoPaso(u, n, x, M \cup {x}, R, h, Names) = IF x = c /\ h = "sin" /\ n \in M \cup {x} THEN "con" ELSE h
    BY <1>2 DEF EfectoPaso
  <2> QED
    BY <1>4, <2>1
<1> HIDE DEF g, h
<1>8. LlevaHilo(u, n, x, M \cup {x}, R, <<p, q, Names>>, e, f)
  BY <1>1, <1>5, <1>6, <1>7, HiloTres
<1> QED
  BY <1>8 DEF p, q, e, f

(* PART goes to its author, who is off the channel, and to those who are   *)
(* left on it.                                                             *)
LEMMA PartLleva ==
    ASSUME NEW u, NEW n, NEW M, NEW R, NEW x, NEW c, c = <<u, 1>>, NEW eco, eco.tipo = "PART",
           eco.de = n <=> x = n, eco.de = c <=> x = c
    PROVE  LlevaHilo(u, n, x, M \ {x}, R, <<Aqui(eco), AlCanal(eco, {})>>,
                     DebeCon(u, n, M), DebeCon(u, n, M \ {x}))
<1> DEFINE p == Aqui(eco)
           q == AlCanal(eco, {})
           e == DebeCon(u, n, M)
           f == DebeCon(u, n, M \ {x})
           g == IF x = c THEN "cerrada" ELSE e
<1>1. Consta(p) /\ Consta(q)
  BY PasoCampos DEF Consta
<1>2. /\ p.paso = "aqui" /\ p.msg = eco
      /\ q.paso = "canal" /\ q.msg = eco /\ q.nicks = {}
  BY PasoCampos
<1>3. \A a : Efecto(u, n, a, eco) = IF eco.de = c THEN "cerrada" ELSE IF a = "con" /\ eco.de = n THEN "sin" ELSE a
  BY DEF Efecto
<1> HIDE DEF p, q
<1>4. /\ e = IF c \notin M THEN "cerrada" ELSE IF n \in M THEN "con" ELSE "sin"
      /\ f = IF c \notin M \/ c = x THEN "cerrada" ELSE IF n \in M /\ n # x THEN "con" ELSE "sin"
  BY DEF DebeCon
<1> HIDE DEF e, f
<1>5. g = EfectoPaso(u, n, x, M \ {x}, R, e, p)
  <2>1. EfectoPaso(u, n, x, M \ {x}, R, e, p) = IF x = c THEN Efecto(u, n, e, eco) ELSE e
    BY <1>2 DEF EfectoPaso
  <2> QED
    BY <1>3, <1>4, <2>1
<1>6. f = EfectoPaso(u, n, x, M \ {x}, R, g, q)
  <2>1. EfectoPaso(u, n, x, M \ {x}, R, g, q) = IF c \in M \ {x} /\ c \notin {} THEN Efecto(u, n, g, eco) ELSE g
    BY <1>2 DEF EfectoPaso
  <2> QED
    BY <1>3, <1>4, <2>1
<1> HIDE DEF g
<1>7. LlevaHilo(u, n, x, M \ {x}, R, <<p, q>>, e, f)
  BY <1>1, <1>5, <1>6, HiloDos
<1> QED
  BY <1>7 DEF p, q, e, f

(* KICK of k, who goes by the nick a, goes to those who are left on the    *)
(* channel and to k.                                                       *)
LEMMA KickLleva ==
    ASSUME NEW u, NEW n, NEW M, NEW R, NEW x, NEW c, c = <<u, 1>>, NEW k, NEW a, NEW aviso, aviso.tipo = "KICK",
           aviso.nicks = {a}, a = n <=> k = n, a = c <=> k = c, a # Nadie, c \in M => c \in R, k \in M
    PROVE  LlevaHilo(u, n, x, M \ {k}, R, <<AlCanal(aviso, {a}), ANicks(aviso, {a})>>,
                     DebeCon(u, n, M), DebeCon(u, n, M \ {k}))
<1> DEFINE p == AlCanal(aviso, {a})
           q == ANicks(aviso, {a})
           e == DebeCon(u, n, M)
           f == DebeCon(u, n, M \ {k})
           g == IF k = c THEN e ELSE f
<1>1. Consta(p) /\ Consta(q)
  BY PasoCampos DEF Consta
<1>2. /\ p.paso = "canal" /\ p.msg = aviso /\ p.nicks = {a}
      /\ q.paso = "nicks" /\ q.msg = aviso /\ q.nicks = {a}
  BY PasoCampos
<1>3. \A b : Efecto(u, n, b, aviso) = IF c \in {a} THEN "cerrada" ELSE IF b = "con" /\ n \in {a} THEN "sin" ELSE b
  BY DEF Efecto
<1> HIDE DEF p, q
<1>4. /\ e = IF c \notin M THEN "cerrada" ELSE IF n \in M THEN "con" ELSE "sin"
      /\ f = IF c \notin M \/ c = k THEN "cerrada" ELSE IF n \in M /\ n # k THEN "con" ELSE "sin"
  BY DEF DebeCon
<1> HIDE DEF e, f
<1>5. g = EfectoPaso(u, n, x, M \ {k}, R, e, p)
  <2>1. EfectoPaso(u, n, x, M \ {k}, R, e, p)
            = IF c \in M \ {k} /\ c \notin {a} THEN Efecto(u, n, e, aviso) ELSE e
    BY <1>2 DEF EfectoPaso
  <2> QED
    BY <1>3, <1>4, <2>1
<1>6. f = EfectoPaso(u, n, x, M \ {k}, R, g, q)
  <2>1. EfectoPaso(u, n, x, M \ {k}, R, g, q) = IF c \in R /\ c \in {a} THEN Efecto(u, n, g, aviso) ELSE g
    BY <1>2 DEF EfectoPaso
  <2> QED
    BY <1>3, <1>4, <2>1
<1> HIDE DEF g
<1>7. LlevaHilo(u, n, x, M \ {k}, R, <<p, q>>, e, f)
  BY <1>1, <1>5, <1>6, HiloDos
<1> QED
  BY <1>7 DEF p, q, e, f

(* A text opens no window for whoever is not on the channel, and the rest  *)
(* have theirs; and nobody is told of a ban but its author.                *)
LEMMA TextoLleva ==
    ASSUME NEW u, NEW n, NEW M, NEW R, NEW x, NEW m, NEW s, m.tipo = "TEXTO"
    PROVE  LlevaHilo(u, n, x, M, R, <<AlCanal(m, s)>>, DebeCon(u, n, M), DebeCon(u, n, M))
<1> DEFINE p == AlCanal(m, s)
           e == DebeCon(u, n, M)
<1>1. Consta(p) /\ p.paso = "canal" /\ p.msg = m /\ p.nicks = s
  BY PasoCampos DEF Consta
<1>2. Efecto(u, n, e, m) = IF e = "cerrada" THEN "sin" ELSE e
  BY DEF Efecto
<1>3. e = "cerrada" => <<u, 1>> \notin M
  BY DEF DebeCon
<1> HIDE DEF p, e
<1>4. EfectoPaso(u, n, x, M, R, e, p) = e
  BY <1>1, <1>2, <1>3 DEF EfectoPaso
<1>5. LlevaHilo(u, n, x, M, R, <<p>>, e, e)
  BY <1>1, <1>4, HiloUno
<1> QED
  BY <1>5 DEF p, e

(* join of whoever is banned: the server does not have it on the channel.  *)
LEMMA BaneadoLleva ==
    ASSUME NEW u, NEW n, NEW M, NEW R, NEW x, x \notin M, NEW m, m.tipo = "ERR_BANNEDFROMCHAN"
    PROVE  LlevaHilo(u, n, x, M, R, <<Aqui(m)>>, DebeCon(u, n, M), DebeCon(u, n, M))
<1> DEFINE p == Aqui(m)
           e == DebeCon(u, n, M)
<1>1. Consta(p) /\ p.paso = "aqui" /\ p.msg = m
  BY PasoCampos DEF Consta
<1>2. Efecto(u, n, e, m) = IF e = "con" /\ n \in m.nicks THEN "sin" ELSE e
  BY DEF Efecto
<1>3. x = <<u, 1>> => e = "cerrada"
  BY DEF DebeCon
<1> HIDE DEF p, e
<1>4. EfectoPaso(u, n, x, M, R, e, p) = e
  BY <1>1, <1>2, <1>3 DEF EfectoPaso
<1>5. LlevaHilo(u, n, x, M, R, <<p>>, e, e)
  BY <1>1, <1>4, HiloUno
<1> QED
  BY <1>5 DEF p, e
-----------------------------------------------------------------------------
(* A command of x (join, partirCanal, kick...) while nobody has anything   *)
(* to send, or one that is no command: what its thread is given to send    *)
(* takes the clients to the change it made.                                *)
LEMMA ProcesaDira ==
    ASSUME EnvioTypeOK, TipoInv, Nuevas, modo.serie, NEW u \in Usuarios, NEW n \in Nicks, Sano(u), Sano(n[1]),
           NEW c \in Conexiones, c = <<u, 1>>, NEW x \in Conexiones, ProcesaComando(x), NEW f, Dira(u, n, f)
    PROVE  Dira(u, n, f)' /\ UNCHANGED alCliente
<1>0. /\ TipoOrdenes /\ TipoBase /\ TipoHilo
      /\ \A y \in Conexiones \ {x} : hilo'[y] = hilo[y]
      /\ DOMAIN hilo = Conexiones
  <2>1. TipoOrdenes /\ TipoBase /\ TipoHilo
    BY DEF TipoInv
  <2>2. Hilo(x)
    BY DEF Hilo
  <2> QED
    BY <2>1, <2>2, HiloPropio DEF TipoHilo
<1>1. UNCHANGED alCliente
  BY DEF ProcesaComando, SinRegistrar, Nick, User, Join, Join0, PartirCanal, Kick, Mode, SoloContesta, Privmsg,
     Quit, ComandoVacio
<1> SUFFICES Dira(u, n, f)'
  BY <1>1
<1>2. ASSUME NEW t, Recibe(x, t)
      PROVE  \A y \in Conexiones : hilo[y] = <<>>
  BY <1>2 DEF Recibe
<1>3. ASSUME NEW s, Manda(x, s)
      PROVE  hilo'[x] = s
  BY <1>0, <1>3 DEF Manda
<1>4. ASSUME NEW s, Manda(x, s), Inocuo(s), UNCHANGED miembros, NEW t, Recibe(x, t)
      PROVE  Dira(u, n, f)'
  BY <1>0, <1>2, <1>3, <1>4, DiraRespuesta
<1>5. ASSUME NEW s, Manda(x, s), UNCHANGED nombre, NEW t, Recibe(x, t),
             LlevaHilo(u, n, x, miembros', Suyas, s, DebeCon(u, n, miembros), DebeCon(u, n, miembros'))
      PROVE  Dira(u, n, f)'
  <2>1. Suyas' = Suyas
    BY <1>5 DEF Suyas
  <2>2. hilo'[x] = s
    BY <1>3, <1>5
  <2>3. Debe(u, n) = DebeCon(u, n, miembros) /\ Debe(u, n)' = DebeCon(u, n, miembros')
    BY DEF Debe, DebeCon
  <2>4. LlevaHilo(u, n, x, miembros', Suyas', hilo'[x], Debe(u, n), Debe(u, n)')
    BY <1>5, <2>1, <2>2, <2>3
  <2> QED
    BY <1>0, <1>2, <1>5, <2>4, DiraNueva
<1>6. /\ \A y \in Conexiones : Registrado(y) => (nombre[y] = n <=> y = n) /\ (nombre[y] = c <=> y = c)
      /\ miembros \subseteq {y \in Conexiones : Registrado(y)}
      /\ c \in miembros => c \in Suyas
  BY Conocidos
<1>7. CASE ComandoVacio(x)
  <2>1. /\ hilo[x] = <<>> /\ UNCHANGED <<miembros, nombre>>
        /\ Manda(x, Respuesta("ERR_UNKNOWNCOMMAND", 0))
    BY <1>7 DEF ComandoVacio, delCanal
  <2>2. Inocuo(Respuesta("ERR_UNKNOWNCOMMAND", 0))
    BY InocuoDe DEF Cambian
  <2>3. Inocuo(hilo'[x])
    BY <1>3, <2>1, <2>2
  <2> QED
    BY <1>0, <2>1, <2>3, DiraRespuesta
<1>8. ASSUME NEW t, Recibe(x, t), NEW tipo, NEW o, tipo \notin Cambian, Manda(x, Respuesta(tipo, o)), UNCHANGED miembros
      PROVE  Dira(u, n, f)'
  <2>1. Inocuo(Respuesta(tipo, o))
    BY <1>8, InocuoDe
  <2> QED
    BY <1>4, <1>8, <2>1
<1>9. CASE SinRegistrar(x)
  <2>1. /\ \E t : Recibe(x, t)
        /\ Manda(x, Respuesta("ERR_NOTREGISTERED", Head(alServidor[x]).orden)) /\ UNCHANGED miembros
    BY <1>9 DEF SinRegistrar, delCanal
  <2> QED
    BY <1>8, <2>1 DEF Cambian
<1>10. CASE Nick(x)
  <2> DEFINE m == Head(alServidor[x])
  <2>1. Recibe(x, "NICK") /\ UNCHANGED miembros
    BY <1>10 DEF Nick, delCanal
  <2>2. CASE UNCHANGED hilo
    <3>1. \A y \in Conexiones : hilo'[y] = <<>>
      BY <1>2, <2>1, <2>2
    <3>2. f = Debe(u, n) /\ Debe(u, n)' = Debe(u, n)
      BY <1>2, <2>1, DiraVacia DEF Debe, DebeCon
    <3> QED
      BY <3>1, <3>2, InocuoNada DEF Dira
  <2>3. CASE Manda(x, <<Aqui(Mensaje("NICK", Servicio, {m.a}, m.orden))>>)
    <3>1. Mensaje("NICK", Servicio, {m.a}, m.orden).tipo = "NICK"
      BY PasoCampos
    <3>2. Inocuo(<<Aqui(Mensaje("NICK", Servicio, {m.a}, m.orden))>>)
      BY <3>1, InocuoDe DEF Cambian
    <3> QED
      BY <1>4, <2>1, <2>3, <3>2
  <2>4. CASE Manda(x, Respuesta("ERR_NICKNAMEINUSE", m.orden))
    BY <1>8, <2>1, <2>4 DEF Cambian
  <2> QED
    BY <1>10, <2>2, <2>3, <2>4 DEF Nick
<1>11. CASE User(x)
  <2>1. /\ Recibe(x, "USER") /\ UNCHANGED miembros
        /\ \E tipo \in {"WELCOME", "ERR_NICKNAMEINUSE", "ERR_NONICKNAMEGIVEN"} :
                Manda(x, Respuesta(tipo, Head(alServidor[x]).orden))
    BY <1>11 DEF User, delCanal
  <2> QED
    BY <1>8, <2>1 DEF Cambian
<1>12. CASE Join(x)
  <2> DEFINE m == Head(alServidor[x])
             eco == Mensaje("JOIN", nombre[x], {}, m.orden)
  <2>1. Recibe(x, "JOIN") /\ Registrado(x) /\ UNCHANGED nombre
    BY <1>12 DEF Join
  <2>2. CASE /\ x \notin miembros
             /\ miembros' = miembros \cup {x}
             /\ Manda(x, <<AlCanal(eco, {nombre[x]}), Aqui(eco), Names>>)
    <3>1. eco.tipo = "JOIN" /\ eco.de = nombre[x]
      BY PasoCampos
    <3>2. (eco.de = n <=> x = n) /\ (eco.de = c <=> x = c)
      BY <1>6, <2>1, <3>1
    <3> HIDE DEF eco
    <3>3. LlevaHilo(u, n, x, miembros \cup {x}, Suyas, <<AlCanal(eco, {eco.de}), Aqui(eco), Names>>,
                    DebeCon(u, n, miembros), DebeCon(u, n, miembros \cup {x}))
      BY <2>2, <3>1, <3>2, JoinLleva
    <3>4. Manda(x, <<AlCanal(eco, {eco.de}), Aqui(eco), Names>>)
      BY <2>2, <3>1
    <3> QED
      BY <1>5, <2>1, <2>2, <3>3, <3>4
  <2>3. CASE Manda(x, Respuesta("ERR_USERONCHANNEL", m.orden)) /\ UNCHANGED miembros
    BY <1>8, <2>1, <2>3 DEF Cambian
  <2>4. CASE /\ x \notin miembros
             /\ Manda(x, <<Aqui(Mensaje("ERR_BANNEDFROMCHAN", Servicio, {nombre[x]}, m.orden))>>)
             /\ UNCHANGED miembros
    <3>1. PICK b : b = Mensaje("ERR_BANNEDFROMCHAN", Servicio, {nombre[x]}, m.orden)
      OBVIOUS
    <3>2. b.tipo = "ERR_BANNEDFROMCHAN"
      BY <3>1, PasoCampos
    <3>3. LlevaHilo(u, n, x, miembros, Suyas, <<Aqui(b)>>, DebeCon(u, n, miembros), DebeCon(u, n, miembros))
      BY <2>4, <3>2, BaneadoLleva
    <3> QED
      BY <1>5, <2>1, <2>4, <3>1, <3>3
  <2> QED
    BY <1>12, <2>2, <2>3, <2>4 DEF Join
<1>13. CASE Join0(x)
  <2>1. /\ Recibe(x, "JOIN0") /\ UNCHANGED miembros
        /\ Manda(x, Respuesta("ERR_NOSUCHCHANNEL", Head(alServidor[x]).orden))
    BY <1>13 DEF Join0, delCanal
  <2> QED
    BY <1>8, <2>1 DEF Cambian
<1>14. CASE PartirCanal(x)
  <2>1. PICK eco : eco = Mensaje(IF x \in miembros THEN "PART" ELSE "ERR_NOTONCHANNEL", nombre[x], {},
                                 Head(alServidor[x]).orden)
    OBVIOUS
  <2>2. /\ Recibe(x, "PART") /\ Registrado(x) /\ UNCHANGED nombre
        /\ Manda(x, <<Aqui(eco), AlCanal(eco, {})>>)
        /\ IF x \in miembros THEN miembros' = miembros \ {x} ELSE UNCHANGED miembros
    BY <1>14, <2>1 DEF PartirCanal, Sale, delCanal
  <2>3. eco.tipo = (IF x \in miembros THEN "PART" ELSE "ERR_NOTONCHANNEL") /\ eco.de = nombre[x]
    BY <2>1, PasoCampos
  <2>4. CASE x \in miembros
    <3>1. (eco.de = n <=> x = n) /\ (eco.de = c <=> x = c)
      BY <1>6, <2>2, <2>3
    <3>2. LlevaHilo(u, n, x, miembros \ {x}, Suyas, <<Aqui(eco), AlCanal(eco, {})>>,
                    DebeCon(u, n, miembros), DebeCon(u, n, miembros \ {x}))
      BY <2>3, <2>4, <3>1, PartLleva
    <3> QED
      BY <1>5, <2>2, <2>4, <3>2
  <2>5. CASE x \notin miembros
    <3>1. Inocuo(<<Aqui(eco), AlCanal(eco, {})>>)
      BY <2>3, <2>5, InocuoDe DEF Cambian
    <3> QED
      BY <1>4, <2>2, <2>5, <3>1
  <2> QED
    BY <2>4, <2>5
<1>15. CASE Kick(x)
  <2> DEFINE m == Head(alServidor[x])
  <2>1. PICK aviso : aviso = Mensaje("KICK", nombre[x], {m.a}, m.orden)
    OBVIOUS
  <2>2. Recibe(x, "KICK") /\ UNCHANGED nombre
    BY <1>15 DEF Kick
  <2>3. ASSUME NEW k \in Vivos(m.a) \cap miembros, miembros' = miembros \ {k},
               Manda(x, <<AlCanal(aviso, {m.a}), ANicks(aviso, {m.a})>>)
        PROVE  Dira(u, n, f)'
    <3>1. PICK a : a = m.a
      OBVIOUS
    <3>2. aviso.tipo = "KICK" /\ aviso.nicks = {a}
      BY <2>1, <3>1, PasoCampos
    <3>3. k \in miembros /\ k \in Conexiones /\ Registrado(k) /\ a = nombre[k]
      BY <1>6, <2>3, <3>1 DEF Vivos
    <3>4. (a = n <=> k = n) /\ (a = c <=> k = c) /\ a # Nadie
      BY <1>6, <3>3 DEF Registrado
    <3>5. LlevaHilo(u, n, x, miembros \ {k}, Suyas, <<AlCanal(aviso, {a}), ANicks(aviso, {a})>>,
                    DebeCon(u, n, miembros), DebeCon(u, n, miembros \ {k}))
      BY <1>6, <3>2, <3>3, <3>4, KickLleva
    <3> QED
      BY <1>5, <2>2, <2>3, <3>1, <3>5
  <2>4. CASE \E tipo \in {"ERR_NOTONCHANNEL", "ERR_CHANOPRIVSNEEDED"} : Manda(x, Respuesta(tipo, m.orden)) /\ UNCHANGED miembros
    BY <1>8, <2>2, <2>4 DEF Cambian
  <2> QED
    BY <1>15, <2>1, <2>3, <2>4 DEF Kick, Sale, delCanal
<1>16. CASE Mode(x)
  <2>1. /\ Recibe(x, "MODE") /\ UNCHANGED miembros
        /\ \E tipo \in {"MODE", "ERR_CHANOPRIVSNEEDED"} : Manda(x, Respuesta(tipo, Head(alServidor[x]).orden))
    BY <1>16 DEF Mode
  <2> QED
    BY <1>8, <2>1 DEF Cambian
<1>17. CASE SoloContesta(x)
  <2>1. /\ UNCHANGED miembros
        /\ \E tipo \in {"TOPIC", "WHOIS", "AWAY"} :
            Recibe(x, tipo) /\ Manda(x, Respuesta(tipo, Head(alServidor[x]).orden))
    BY <1>17 DEF SoloContesta, delCanal
  <2> QED
    BY <1>8, <2>1 DEF Cambian
<1>18. CASE Privmsg(x)
  <2> DEFINE m == Head(alServidor[x])
  <2>1. PICK texto : texto = Mensaje(m.tipo, nombre[x], {}, 0)
    OBVIOUS
  <2>2. /\ m.tipo \in {"TEXTO", "PRIVADO", "FSEND", "FCANCEL"} /\ Recibe(x, m.tipo)
        /\ UNCHANGED <<nombre, miembros>>
        /\ Manda(x, IF m.tipo = "TEXTO" THEN <<AlCanal(texto, {nombre[x]})>> ELSE <<ANicks(texto, {m.a})>>)
    BY <1>18, <2>1 DEF Privmsg, Recibe, delCanal
  <2>3. texto.tipo = m.tipo
    BY <2>1, PasoCampos
  <2>4. CASE m.tipo = "TEXTO"
    <3>1. LlevaHilo(u, n, x, miembros, Suyas, <<AlCanal(texto, {nombre[x]})>>,
                    DebeCon(u, n, miembros), DebeCon(u, n, miembros))
      BY <2>3, <2>4, TextoLleva
    <3> QED
      BY <1>5, <2>2, <2>4, <3>1
  <2>5. CASE m.tipo # "TEXTO"
    <3>1. Inocuo(<<ANicks(texto, {m.a})>>)
      BY <2>2, <2>3, <2>5, InocuoDe DEF Cambian
    <3> QED
      BY <1>4, <2>2, <2>5, <3>1
  <2> QED
    BY <2>4, <2>5
<1>19. CASE Quit(x)
  <2>1. Recibe(x, "QUIT") /\ UNCHANGED miembros /\ Manda(x, Append(Respuesta("NOTICE", 0), Fin))
    BY <1>19 DEF Quit, delCanal
  <2> QED
    BY <1>4, <2>1, InocuoDe
<1> QED
  BY <1>1, <1>7, <1>9, <1>10, <1>11, <1>12, <1>13, <1>14, <1>15, <1>16, <1>17, <1>18, <1>19 DEF ProcesaComando
-----------------------------------------------------------------------------
(* What a thread has left after a send: the rest, perhaps after more.      *)
LEMMA DespuesForma ==
    ASSUME TipoHilo, NEW x \in Conexiones, hilo[x] # <<>>, NEW q, Despues(x, q)
    PROVE  /\ Tail(hilo[x]) \in Seq(PasosDe(x))
           /\ hilo'[x] = q \o Tail(hilo[x])
           /\ q = <<>> => hilo'[x] = Tail(hilo[x])
           /\ \A a, b : q = <<b>> \o <<a>> => hilo'[x] = <<b>> \o (<<a>> \o Tail(hilo[x]))
<1> DEFINE t == Tail(hilo[x])
<1>1. t \in Seq(PasosDe(x))
  BY CabezaCola DEF TipoHilo
<1>2. hilo'[x] = q \o t
  BY DEF Despues, Manda, TipoHilo
<1> HIDE DEF t
<1>3. q = <<>> => hilo'[x] = t
  BY <1>1, <1>2, ConcatEmptySeq
<1>4. ASSUME NEW a, NEW b, q = <<b>> \o <<a>>
      PROVE  hilo'[x] = <<b>> \o (<<a>> \o t)
  <2>1. t \in Seq(PasosDe(x) \cup {a, b})
    BY <1>1, SeqMonotonic
  <2>2. <<a>> \in Seq(PasosDe(x) \cup {a, b}) /\ <<b>> \in Seq(PasosDe(x) \cup {a, b})
    OBVIOUS
  <2> QED
    BY <1>2, <1>4, <2>1, <2>2, ConcatAssociative
<1> QED
  BY <1>1, <1>2, <1>3, <1>4 DEF t

(* What a step of a thread sends is of a known kind.                       *)
LEMMA CabezaHilo ==
    ASSUME TipoHilo, NEW x \in Conexiones, hilo[x] # <<>>
    PROVE  LET h == Head(hilo[x]) IN
           /\ h \in PasosDe(x) /\ hilo[x] \in Seq(PasosDe(x))
           /\ \A m : m \in {h.msg, [h.msg EXCEPT !.orden = 0]} =>
                m.tipo = h.msg.tipo /\ m.de = h.msg.de /\ m.nicks = h.msg.nicks
           /\ \A ns : LET m == [h.msg EXCEPT !.nicks = ns] IN m.tipo = h.msg.tipo /\ m.nicks = ns
<1>1. Head(hilo[x]) \in PasosDe(x) /\ hilo[x] \in Seq(PasosDe(x))
  BY CabezaCola DEF TipoHilo
<1>2. Head(hilo[x]).msg \in MensajesIRC
  BY <1>1 DEF PasosDe, MensajesPara
<1>3. Head(hilo[x]).msg \in [tipo : Anuncios, de : Nicks \cup {Servicio}, nicks : SUBSET Argumentos, orden : Nat]
  BY <1>2 DEF MensajesIRC
<1> QED
  BY <1>1, <1>3

(* enviarMensajePrivado sends to the connection of one nick, or tells the  *)
(* author that it is gone, and leaves the other nicks for later.           *)
EnviaUno(x, c, h, t, k) ==
    LET p == ANicks(h.msg, h.nicks \ {k}) IN
    \/ \E d \in Vivos(k) :
        /\ IF d = c
           THEN \E m : /\ alCliente'[c] = Append(alCliente[c], m)
                       /\ m.tipo = h.msg.tipo /\ m.de = h.msg.de /\ m.nicks = h.msg.nicks
           ELSE alCliente'[c] = alCliente[c]
        /\ IF h.nicks = {k} THEN hilo'[x] = t ELSE hilo'[x] = <<p>> \o t
    \/ /\ Vivos(k) = {}
       /\ alCliente'[c] = alCliente[c]
       /\ \/ IF h.nicks = {k} THEN hilo'[x] = t ELSE hilo'[x] = <<p>> \o t
          \/ \E b : /\ b.paso = "aqui" /\ b.msg.tipo = "ERR_NOSUCHNICK"
                    /\ IF h.nicks = {k} THEN hilo'[x] = <<b>> \o t
                       ELSE hilo'[x] = <<b>> \o (<<p>> \o t)

(* So does each step of enviarMensajePrivado.                              *)
LEMMA NickForma ==
    ASSUME TipoHilo, TipoRecepcion, NEW x \in Conexiones, EnviarANick(x), NEW c \in Conexiones
    PROVE  /\ hilo[x] # <<>> /\ Head(hilo[x]).paso = "nicks"
           /\ \E k \in Head(hilo[x]).nicks : EnviaUno(x, c, Head(hilo[x]), Tail(hilo[x]), k)
<1> DEFINE h == Head(hilo[x])
           P(k) == ANicks(h.msg, h.nicks \ {k})
           Q(k) == IF h.nicks = {k} THEN <<>> ELSE <<P(k)>>
           b == Aqui(Mensaje("ERR_NOSUCHNICK", Servicio, {}, 0))
           Deja(k) == IF h.nicks = {k} THEN hilo'[x] = Tail(hilo[x]) ELSE hilo'[x] = <<P(k)>> \o Tail(hilo[x])
<1>1. hilo[x] # <<>> /\ h.paso = "nicks" /\ DOMAIN alCliente = Conexiones
  BY DEF EnviarANick, Paso, TipoRecepcion
<1>2. PICK k \in h.nicks :
        \/ \E d \in Vivos(k) :
            /\ alCliente' = [alCliente EXCEPT ![d] =
                    Append(@, IF d = x THEN h.msg ELSE [h.msg EXCEPT !.orden = 0])]
            /\ Despues(x, Q(k))
        \/ /\ Vivos(k) = {}
           /\ Despues(x, Q(k)) \/ Despues(x, Respuesta("ERR_NOSUCHNICK", 0) \o Q(k))
           /\ UNCHANGED alCliente
  BY DEF EnviarANick
<1>3. ASSUME Despues(x, Q(k))
      PROVE  Deja(k)
  <2>1. hilo'[x] = Q(k) \o Tail(hilo[x]) /\ (Q(k) = <<>> => hilo'[x] = Tail(hilo[x]))
    BY <1>1, <1>3, DespuesForma
  <2> QED
    BY <2>1
<1>4. b.paso = "aqui" /\ b.msg.tipo = "ERR_NOSUCHNICK" /\ Respuesta("ERR_NOSUCHNICK", 0) = <<b>>
  BY DEF Aqui, Mensaje, Respuesta
<1> SUFFICES EnviaUno(x, c, h, Tail(hilo[x]), k)
  BY <1>1
<1>5. CASE Vivos(k) = {} /\ Despues(x, Respuesta("ERR_NOSUCHNICK", 0) \o Q(k)) /\ UNCHANGED alCliente
  <2> HIDE DEF b
  <2>1. Despues(x, <<b>> \o Q(k))
    BY <1>4, <1>5
  <2>2. CASE h.nicks = {k}
    <3>1. <<b>> \o Q(k) = <<b>>
      <4>1. <<b>> \in Seq({b}) /\ Q(k) = <<>>
        BY <2>2
      <4> QED
        BY <4>1, ConcatEmptySeq
    <3>2. hilo'[x] = <<b>> \o Tail(hilo[x])
      BY <1>1, <2>1, <3>1, DespuesForma
    <3> QED
      BY <1>4, <1>5, <2>2, <3>2 DEF EnviaUno
  <2>3. CASE h.nicks # {k}
    <3>1. PICK p : p = P(k)
      OBVIOUS
    <3>2. Despues(x, <<b>> \o <<p>>)
      BY <2>1, <2>3, <3>1
    <3>3. hilo'[x] = <<b>> \o (<<p>> \o Tail(hilo[x]))
      BY <1>1, <3>2, DespuesForma
    <3> QED
      BY <1>4, <1>5, <2>3, <3>1, <3>3 DEF EnviaUno
  <2> QED
    BY <2>2, <2>3
<1>6. CASE Vivos(k) = {} /\ Despues(x, Q(k)) /\ UNCHANGED alCliente
  BY <1>3, <1>6 DEF EnviaUno
<1>7. ASSUME NEW d \in Vivos(k), Despues(x, Q(k)),
             alCliente' = [alCliente EXCEPT ![d] = Append(@, IF d = x THEN h.msg ELSE [h.msg EXCEPT !.orden = 0])]
      PROVE  IF d = c
             THEN \E m : /\ alCliente'[c] = Append(alCliente[c], m)
                         /\ m.tipo = h.msg.tipo /\ m.de = h.msg.de /\ m.nicks = h.msg.nicks
             ELSE alCliente'[c] = alCliente[c]
  <2>1. CASE d # c
    BY <1>7, <2>1
  <2>2. CASE d = c
    <3>1. PICK m : m = IF d = x THEN h.msg ELSE [h.msg EXCEPT !.orden = 0]
      OBVIOUS
    <3>2. alCliente'[c] = Append(alCliente[c], m)
      BY <1>1, <1>7, <2>2, <3>1
    <3>3. m.tipo = h.msg.tipo /\ m.de = h.msg.de /\ m.nicks = h.msg.nicks
      <4>1. m \in {h.msg, [h.msg EXCEPT !.orden = 0]}
        BY <3>1
      <4> QED
        BY <1>1, <4>1, CabezaHilo
    <3> QED
      BY <2>2, <3>2, <3>3
  <2> QED
    BY <2>1, <2>2
<1> HIDE DEF h
<1> QED
  BY <1>2, <1>3, <1>5, <1>6, <1>7 DEF EnviaUno, h
-----------------------------------------------------------------------------
(* enviarMensajeACanal copies the nicks of the channel; the other sends go *)
(* to the author, and names makes a list for it.                           *)
LEMMA CanalForma ==
    ASSUME TipoHilo, NEW x \in Conexiones, ListNicks(x)
    PROVE  LET h == Head(hilo[x])
               nicks == Nombres(miembros) \ h.nicks
           IN /\ hilo[x] # <<>> /\ h.paso = "canal" /\ UNCHANGED alCliente
              /\ \/ nicks = {} /\ hilo'[x] = Tail(hilo[x])
                 \/ hilo'[x] = <<ANicks(h.msg, nicks)>> \o Tail(hilo[x])
                 \/ miembros = {} /\ \E b : /\ b.paso = "aqui" /\ b.msg.tipo = "ERR_NOSUCHNICK"
                                            /\ hilo'[x] = <<b>> \o Tail(hilo[x])
<1> DEFINE h == Head(hilo[x])
           nicks == Nombres(miembros) \ h.nicks
           b == Aqui(Mensaje("ERR_NOSUCHNICK", Servicio, {}, 0))
<1>1. hilo[x] # <<>> /\ h.paso = "canal" /\ UNCHANGED alCliente
  BY DEF ListNicks, Paso
<1>2. b.paso = "aqui" /\ b.msg.tipo = "ERR_NOSUCHNICK" /\ Respuesta("ERR_NOSUCHNICK", 0) = <<b>>
  BY DEF Aqui, Mensaje, Respuesta
<1>3. \/ miembros = {} /\ Despues(x, <<b>>)
      \/ nicks = {} /\ Despues(x, <<>>)
      \/ Despues(x, <<ANicks(h.msg, nicks)>>)
  BY <1>2 DEF ListNicks
<1> HIDE DEF b, h, nicks
<1>4. ASSUME NEW q, Despues(x, q)
      PROVE  hilo'[x] = q \o Tail(hilo[x]) /\ (q = <<>> => hilo'[x] = Tail(hilo[x]))
  BY <1>1, <1>4, DespuesForma
<1> QED
  BY <1>1, <1>2, <1>3, <1>4 DEF h, nicks

(* An answer goes to the connection of the thread.                         *)
LEMMA AquiForma ==
    ASSUME TipoHilo, TipoRecepcion, NEW x \in Conexiones, Enviar(x)
    PROVE  /\ hilo[x] # <<>> /\ Head(hilo[x]).paso = "aqui"
           /\ hilo'[x] = Tail(hilo[x])
           /\ alCliente'[x] = Append(alCliente[x], Head(hilo[x]).msg)
           /\ \A c \in Conexiones \ {x} : alCliente'[c] = alCliente[c]
<1>1. hilo[x] # <<>> /\ Head(hilo[x]).paso = "aqui" /\ DOMAIN alCliente = Conexiones
  BY DEF Enviar, Paso, TipoRecepcion
<1>2. hilo'[x] = Tail(hilo[x])
  BY <1>1, DespuesForma DEF Enviar
<1>3. /\ alCliente'[x] = Append(alCliente[x], Head(hilo[x]).msg)
      /\ \A c \in Conexiones \ {x} : alCliente'[c] = alCliente[c]
  BY <1>1 DEF Enviar
<1> QED
  BY <1>1, <1>2, <1>3

(* names copies the nicks that are on the channel when it runs.            *)
LEMMA NamesForma ==
    ASSUME TipoHilo, NEW x \in Conexiones, ListarNames(x)
    PROVE  /\ hilo[x] # <<>> /\ Head(hilo[x]).paso = "names" /\ UNCHANGED alCliente
           /\ \E p : /\ p.paso = "aqui" /\ p.msg.tipo = Head(hilo[x]).msg.tipo /\ p.msg.nicks = Nombres(miembros)
                     /\ hilo'[x] = <<p>> \o Tail(hilo[x])
<1>1. hilo[x] # <<>> /\ Head(hilo[x]).paso = "names" /\ UNCHANGED alCliente
  BY DEF ListarNames, Paso
<1>2. PICK m : m = [Head(hilo[x]).msg EXCEPT !.nicks = Nombres(miembros)]
  OBVIOUS
<1>3. m.tipo = Head(hilo[x]).msg.tipo /\ m.nicks = Nombres(miembros)
  BY <1>1, <1>2, CabezaHilo
<1>4. hilo'[x] = <<Aqui(m)>> \o Tail(hilo[x])
  BY <1>1, <1>2, DespuesForma DEF ListarNames
<1>5. Aqui(m).paso = "aqui" /\ Aqui(m).msg = m
  BY PasoCampos
<1> QED
  BY <1>1, <1>3, <1>4, <1>5

(* The thread sends.                                                       *)
Envia(x) == ListNicks(x) \/ EnviarANick(x) \/ Enviar(x) \/ ListarNames(x)

(* A thread whose steps have no effect sends: the rest have none.          *)
LEMMA EnviaInocuo ==
    ASSUME TipoHilo, TipoRecepcion, NEW x \in Conexiones, Inocuo(hilo[x]), Envia(x), NEW c \in Conexiones
    PROVE  /\ Inocuo(hilo'[x])
           /\ \/ alCliente'[c] = alCliente[c]
              \/ \E m : m.tipo \notin Cambian /\ alCliente'[c] = Append(alCliente[c], m)
<1> DEFINE h == Head(hilo[x])
           t == Tail(hilo[x])
<1>0. hilo[x] # <<>>
  BY DEF Envia, ListNicks, EnviarANick, Enviar, ListarNames, Paso
<1>1. /\ t \in Seq(PasosDe(x)) /\ Inocuo(t)
      /\ h.msg.tipo \notin Cambian /\ h.paso # "names"
  BY <1>0, InocuoSigue, CabezaCola DEF TipoHilo
<1>2. ASSUME NEW p, p.msg.tipo \notin Cambian, p.paso # "names"
      PROVE  Inocuo(<<p>> \o t)
  <2> HIDE DEF t
  <2> QED
    BY <1>1, <1>2, InocuoAntes
<1>3. ASSUME NEW p, p.msg.tipo \notin Cambian, p.paso # "names",
             NEW q, q.msg.tipo \notin Cambian, q.paso # "names"
      PROVE  Inocuo(<<q>> \o (<<p>> \o t))
  <2> HIDE DEF t
  <2>1. t \in Seq(PasosDe(x) \cup {p}) /\ <<p>> \in Seq(PasosDe(x) \cup {p})
    BY <1>1, SeqMonotonic
  <2>2. <<p>> \o t \in Seq(PasosDe(x) \cup {p})
    BY <2>1, ConcatProperties
  <2> QED
    BY <1>2, <1>3, <2>2, InocuoAntes
<1>4. CASE ListNicks(x)
  <2>1. ANicks(h.msg, Nombres(miembros) \ h.nicks).paso = "nicks"
        /\ ANicks(h.msg, Nombres(miembros) \ h.nicks).msg = h.msg
    BY PasoCampos
  <2>2. UNCHANGED alCliente /\ (hilo'[x] = t \/ \E p : p.msg.tipo \notin Cambian /\ p.paso # "names" /\ hilo'[x] = <<p>> \o t)
    <3> HIDE DEF t
    <3>1. \A b : b.paso = "aqui" /\ b.msg.tipo = "ERR_NOSUCHNICK" => b.msg.tipo \notin Cambian /\ b.paso # "names"
      BY DEF Cambian
    <3> QED
      BY <1>1, <1>4, <2>1, <3>1, CanalForma DEF t
  <2> QED
    BY <1>1, <1>2, <2>2
<1>5. CASE EnviarANick(x)
  <2>1. \A k : ANicks(h.msg, h.nicks \ {k}).paso = "nicks" /\ ANicks(h.msg, h.nicks \ {k}).msg = h.msg
    BY PasoCampos
  <2>2. \A b : b.paso = "aqui" /\ b.msg.tipo = "ERR_NOSUCHNICK" => b.msg.tipo \notin Cambian /\ b.paso # "names"
    BY DEF Cambian
  <2>3. \A k : LET p == ANicks(h.msg, h.nicks \ {k}) IN
            /\ Inocuo(<<p>> \o t)
            /\ \A b : b.paso = "aqui" /\ b.msg.tipo = "ERR_NOSUCHNICK" =>
                    Inocuo(<<b>> \o t) /\ Inocuo(<<b>> \o (<<p>> \o t))
    <3> HIDE DEF t, h
    <3> QED
      BY <1>1, <1>2, <1>3, <2>1, <2>2
  <2>4. PICK k \in h.nicks : EnviaUno(x, c, h, t, k)
    BY <1>5, NickForma
  <2> HIDE DEF h, t
  <2>5. Inocuo(hilo'[x])
    BY <1>1, <2>3, <2>4 DEF EnviaUno
  <2>6. \/ alCliente'[c] = alCliente[c]
        \/ \E m : m.tipo = h.msg.tipo /\ alCliente'[c] = Append(alCliente[c], m)
    BY <2>4 DEF EnviaUno
  <2> QED
    BY <1>1, <2>5, <2>6
<1>6. CASE Enviar(x)
  <2>1. hilo'[x] = t /\ (alCliente'[c] = alCliente[c] \/ alCliente'[c] = Append(alCliente[c], h.msg))
    BY <1>6, AquiForma
  <2> QED
    BY <1>1, <2>1
<1>7. CASE ListarNames(x)
  BY <1>1, <1>7, NamesForma
<1> QED
  BY <1>4, <1>5, <1>6, <1>7 DEF Envia
-----------------------------------------------------------------------------
(* The thread that changed the channel sends: its client shows a step more *)
(* of what it was to show, or what is left to send does the same.          *)
LEMMA EnviaLleva ==
    ASSUME EnvioTypeOK, TipoInv, Nuevas, NEW u \in Usuarios, NEW n \in Nicks, Sano(u), Sano(n[1]),
           NEW c \in Conexiones, c = <<u, 1>>, NEW x \in Conexiones, Envia(x), NEW f, NEW D,
           LlevaHilo(u, n, x, miembros, Suyas, hilo[x], f, D)
    PROVE  \/ /\ alCliente'[c] = alCliente[c]
              /\ LlevaHilo(u, n, x, miembros, Suyas, hilo'[x], f, D)
           \/ \E m : /\ alCliente'[c] = Append(alCliente[c], m)
                     /\ LlevaHilo(u, n, x, miembros, Suyas, hilo'[x], Efecto(u, n, f, m), D)
<1> DEFINE h == Head(hilo[x])
           t == Tail(hilo[x])
           E(e, p) == EfectoPaso(u, n, x, miembros, Suyas, e, p)
           L(s, e) == LlevaHilo(u, n, x, miembros, Suyas, s, e, D)
           g == E(f, h)
<1>0. hilo[x] # <<>> /\ TipoHilo /\ TipoRecepcion
  BY DEF Envia, ListNicks, EnviarANick, Enviar, ListarNames, Paso, TipoInv
<1>1. L(t, g) /\ Consta(h)
  BY <1>0, HiloPrimero, CabezaHilo
<1>2. t \in Seq(PasosDe(x))
  BY <1>0, CabezaCola DEF TipoHilo
<1>3. ASSUME NEW e, NEW p, Consta(p), E(e, p) = g
      PROVE  L(<<p>> \o t, e)
  <2> HIDE DEF t, g
  <2> QED
    BY <1>1, <1>2, <1>3, HiloAntes
<1>4. ASSUME NEW b, b.paso = "aqui", b.msg.tipo = "ERR_NOSUCHNICK"
      PROVE  Consta(b) /\ \A e : E(e, b) = e
  BY <1>4, PasoInocuo DEF Consta, Cambian
<1>5. ASSUME NEW b, b.paso = "aqui", b.msg.tipo = "ERR_NOSUCHNICK", NEW e, NEW p, Consta(p), E(e, p) = g
      PROVE  L(<<b>> \o (<<p>> \o t), e)
  <2>1. L(<<p>> \o t, e)
    BY <1>3, <1>5
  <2>2. <<p>> \o t \in Seq(PasosDe(x) \cup {p})
    <3> HIDE DEF t
    <3>1. t \in Seq(PasosDe(x) \cup {p}) /\ <<p>> \in Seq(PasosDe(x) \cup {p})
      BY <1>2, SeqMonotonic
    <3> QED
      BY <3>1, ConcatProperties
  <2>3. PICK s : s = <<p>> \o t
    OBVIOUS
  <2>4. Consta(b) /\ E(e, b) = e
    BY <1>4, <1>5
  <2> HIDE DEF t, g
  <2>5. L(<<b>> \o s, e)
    BY <2>1, <2>2, <2>3, <2>4, HiloAntes
  <2> QED
    BY <2>3, <2>5
<1>6. /\ \A y \in Conexiones : Registrado(y) => (nombre[y] = n <=> y = n) /\ (nombre[y] = c <=> y = c)
      /\ c \in miembros => c \in Suyas
      /\ n \in Nombres(miembros) <=> n \in miembros
      /\ c \in Nombres(miembros) <=> c \in miembros
      /\ Nadie \notin Nombres(miembros)
  BY Conocidos
<1>7. CASE ListNicks(x)
  <2> DEFINE nicks == Nombres(miembros) \ h.nicks
             p == ANicks(h.msg, nicks)
  <2>1. /\ h.paso = "canal" /\ UNCHANGED alCliente
        /\ \/ nicks = {} /\ hilo'[x] = t
           \/ hilo'[x] = <<p>> \o t
           \/ miembros = {} /\ \E b : /\ b.paso = "aqui" /\ b.msg.tipo = "ERR_NOSUCHNICK"
                                      /\ hilo'[x] = <<b>> \o t
    BY <1>0, <1>7, CanalForma
  <2>2. g = IF c \in miembros /\ c \notin h.nicks THEN Efecto(u, n, f, h.msg) ELSE f
    BY <2>1 DEF EfectoPaso
  <2>3. p.paso = "nicks" /\ p.msg = h.msg /\ p.nicks = nicks
    BY PasoCampos
  <2> HIDE DEF p, h, t, g
  <2>4. nicks = {} => g = f
    BY <1>6, <2>2
  <2>5. Consta(p)
    BY <1>6, <2>3 DEF Consta
  <2>6. E(f, p) = g
    <3>1. E(f, p) = IF c \in Suyas /\ c \in nicks THEN Efecto(u, n, f, h.msg) ELSE f
      BY <2>3 DEF EfectoPaso
    <3> QED
      BY <1>6, <2>2, <3>1
  <2>7. miembros = {} => g = f
    BY <2>2
  <2> HIDE DEF nicks, E, L
  <2>8. CASE nicks = {} /\ hilo'[x] = t
    <3>1. L(hilo'[x], f)
      BY <1>1, <2>4, <2>8
    <3> QED
      BY <2>1, <3>1 DEF L
  <2>9. CASE hilo'[x] = <<p>> \o t
    <3>1. L(hilo'[x], f)
      BY <1>3, <2>5, <2>6, <2>9
    <3> QED
      BY <2>1, <3>1 DEF L
  <2>10. CASE miembros = {} /\ \E b : /\ b.paso = "aqui" /\ b.msg.tipo = "ERR_NOSUCHNICK"
                                      /\ hilo'[x] = <<b>> \o t
    <3>1. L(hilo'[x], f)
      BY <1>3, <1>4, <2>7, <2>10
    <3> QED
      BY <2>1, <3>1 DEF L
  <2> QED
    BY <2>1, <2>8, <2>9, <2>10
<1>8. CASE EnviarANick(x)
  <2>1. h.paso = "nicks"
    BY <1>0, <1>8, NickForma
  <2>2. PICK k \in h.nicks : EnviaUno(x, c, h, t, k)
    BY <1>0, <1>8, NickForma
  <2> DEFINE p == ANicks(h.msg, h.nicks \ {k})
  <2>3. p.paso = "nicks" /\ p.msg = h.msg /\ p.nicks = h.nicks \ {k}
    BY PasoCampos
  <2>4. g = IF c \in Suyas /\ c \in h.nicks THEN Efecto(u, n, f, h.msg) ELSE f
    BY <2>1 DEF EfectoPaso
  <2>5. \A e : E(e, p) = IF c \in Suyas /\ c \in h.nicks /\ c # k THEN Efecto(u, n, e, h.msg) ELSE e
    BY <2>3 DEF EfectoPaso
  <2>6. Consta(p)
    BY <1>1, <2>1, <2>3 DEF Consta
  <2>7. \A d \in Vivos(k) : d \in Conexiones /\ nombre[d] = k
    BY DEF Vivos
  <2>8. c \in Suyas /\ c = k => c \in Vivos(k)
    BY DEF Suyas, Vivos
  <2> HIDE DEF h, t, g, p
  <2>9. ASSUME NEW e, h.nicks = {k} => e = g, E(e, p) = g,
               IF h.nicks = {k} THEN hilo'[x] = t ELSE hilo'[x] = <<p>> \o t
        PROVE  L(hilo'[x], e)
    <3> HIDE DEF E, L
    <3> QED
      BY <1>1, <1>3, <2>6, <2>9
  <2>10. CASE \E d \in Vivos(k) :
                    /\ IF d = c
                       THEN \E m : /\ alCliente'[c] = Append(alCliente[c], m)
                                   /\ m.tipo = h.msg.tipo /\ m.de = h.msg.de /\ m.nicks = h.msg.nicks
                       ELSE alCliente'[c] = alCliente[c]
                    /\ IF h.nicks = {k} THEN hilo'[x] = t ELSE hilo'[x] = <<p>> \o t
    <3>1. PICK d \in Vivos(k) :
                    /\ IF d = c
                       THEN \E m : /\ alCliente'[c] = Append(alCliente[c], m)
                                   /\ m.tipo = h.msg.tipo /\ m.de = h.msg.de /\ m.nicks = h.msg.nicks
                       ELSE alCliente'[c] = alCliente[c]
                    /\ IF h.nicks = {k} THEN hilo'[x] = t ELSE hilo'[x] = <<p>> \o t
      BY <2>10
    <3>2. CASE d = c
      <4>1. PICK m : /\ alCliente'[c] = Append(alCliente[c], m)
                     /\ m.tipo = h.msg.tipo /\ m.de = h.msg.de /\ m.nicks = h.msg.nicks
        BY <3>1, <3>2
      <4>2. \A e : Efecto(u, n, e, m) = Efecto(u, n, e, h.msg)
        BY <4>1 DEF Efecto
      <4>3. nombre[c] = k
        BY <2>7, <3>2
      <4>4. CASE h.msg.tipo \notin Cambian
        <5>1. \A e : Efecto(u, n, e, h.msg) = e
          BY <4>4 DEF Efecto, Cambian
        <5>2. g = f /\ E(f, p) = f /\ Efecto(u, n, f, m) = f
          BY <2>4, <2>5, <4>2, <5>1
        <5>3. L(hilo'[x], f)
          BY <2>9, <3>1, <5>2
        <5> HIDE DEF E
        <5> QED
          BY <4>1, <5>2, <5>3
      <4>5. CASE h.msg.tipo \in Cambian
        <5>1. k # Nadie
          BY <1>1, <2>1, <4>5 DEF Consta
        <5>2. c = k /\ c \in Suyas
          BY <1>6, <4>3, <5>1 DEF Registrado, Suyas
        <5>3. PICK e : e = Efecto(u, n, f, h.msg)
          OBVIOUS
        <5>4. g = e /\ E(e, p) = e /\ Efecto(u, n, f, m) = e
          BY <2>4, <2>5, <4>2, <5>2, <5>3
        <5>5. L(hilo'[x], e)
          BY <2>9, <3>1, <5>4
        <5> QED
          BY <4>1, <5>4, <5>5
      <4> QED
        BY <4>4, <4>5
    <3>3. CASE d # c
      <4>1. c \in Suyas => c # k
        <5> SUFFICES ASSUME c \in Suyas, c = k
                     PROVE  FALSE
          OBVIOUS
        <5>1. nombre[d] = c /\ d \in Conexiones /\ Registrado(d)
          BY <2>7, <3>1 DEF Registrado, Nadie, Nicks
        <5> QED
          BY <1>6, <3>3, <5>1
      <4>2. (h.nicks = {k} => f = g) /\ E(f, p) = g
        BY <2>4, <2>5, <4>1
      <4>3. L(hilo'[x], f)
        BY <2>9, <3>1, <4>2
      <4> QED
        BY <3>1, <3>3, <4>3
    <3> QED
      BY <3>2, <3>3
  <2>11. CASE Vivos(k) = {} /\ alCliente'[c] = alCliente[c]
              /\ \/ IF h.nicks = {k} THEN hilo'[x] = t ELSE hilo'[x] = <<p>> \o t
                 \/ \E b : /\ b.paso = "aqui" /\ b.msg.tipo = "ERR_NOSUCHNICK"
                           /\ IF h.nicks = {k} THEN hilo'[x] = <<b>> \o t
                              ELSE hilo'[x] = <<b>> \o (<<p>> \o t)
    <3>1. (h.nicks = {k} => f = g) /\ E(f, p) = g
      BY <2>4, <2>5, <2>8, <2>11
    <3>2. ASSUME NEW b, b.paso = "aqui", b.msg.tipo = "ERR_NOSUCHNICK",
                 IF h.nicks = {k} THEN hilo'[x] = <<b>> \o t ELSE hilo'[x] = <<b>> \o (<<p>> \o t)
          PROVE  L(hilo'[x], f)
      <4>1. CASE h.nicks = {k}
        <5>1. E(f, b) = g /\ Consta(b)
          BY <1>4, <3>1, <3>2, <4>1
        <5> HIDE DEF E, L
        <5> QED
          BY <1>3, <3>2, <4>1, <5>1
      <4>2. CASE h.nicks # {k}
        <5> HIDE DEF E, L
        <5> QED
          BY <1>5, <2>6, <3>1, <3>2, <4>2
      <4> QED
        BY <4>1, <4>2
    <3>3. L(hilo'[x], f)
      BY <2>9, <2>11, <3>1, <3>2
    <3> QED
      BY <2>11, <3>3
  <2> QED
    BY <2>2, <2>10, <2>11 DEF EnviaUno, p
<1>9. CASE Enviar(x)
  <2>1. /\ h.paso = "aqui" /\ hilo'[x] = t
        /\ alCliente'[x] = Append(alCliente[x], h.msg)
        /\ x # c => alCliente'[c] = alCliente[c]
    BY <1>0, <1>9, AquiForma
  <2>2. g = IF x = c THEN Efecto(u, n, f, h.msg) ELSE f
    BY <2>1 DEF EfectoPaso
  <2>3. CASE x = c
    <3>1. PICK m : m = h.msg
      OBVIOUS
    <3>2. alCliente'[c] = Append(alCliente[c], m) /\ L(hilo'[x], Efecto(u, n, f, m))
      BY <1>1, <2>1, <2>2, <2>3, <3>1
    <3> QED
      BY <3>2
  <2>4. CASE x # c
    BY <1>1, <2>1, <2>2, <2>4
  <2> QED
    BY <2>3, <2>4
<1>10. CASE ListarNames(x)
  <2>1. PICK p : /\ p.paso = "aqui" /\ p.msg.tipo = h.msg.tipo /\ p.msg.nicks = Nombres(miembros)
                 /\ hilo'[x] = <<p>> \o t
    BY <1>0, <1>10, NamesForma
  <2>2. h.paso = "names" /\ UNCHANGED alCliente
    BY <1>0, <1>10, NamesForma
  <2>3. p.msg.tipo = "NAMREPLY"
    BY <1>1, <2>1, <2>2 DEF Consta
  <2>4. g = IF x = c /\ f = "sin" /\ n \in miembros THEN "con" ELSE f
    BY <2>2 DEF EfectoPaso
  <2>5. E(f, p) = IF x = c THEN Efecto(u, n, f, p.msg) ELSE f
    BY <2>1 DEF EfectoPaso
  <2>6. Efecto(u, n, f, p.msg) = IF f = "sin" /\ n \in Nombres(miembros) THEN "con" ELSE f
    BY <2>1, <2>3 DEF Efecto
  <2>7. Consta(p) /\ E(f, p) = g
    BY <1>6, <2>1, <2>4, <2>5, <2>6 DEF Consta
  <2>8. L(hilo'[x], f)
    <3> HIDE DEF E, L, t, g
    <3> QED
      BY <1>3, <2>1, <2>7
  <2> QED
    BY <2>2, <2>8
<1> QED
  BY <1>7, <1>8, <1>9, <1>10 DEF Envia
-----------------------------------------------------------------------------
(* What the server has sent is on its way.                                 *)
LEMMA ServidorLlega ==
    ASSUME TipoRecepcion, NEW u \in Usuarios, NEW n, NEW c \in Conexiones, c = <<u, 1>>, NEW f, Llegara(u, n, f),
           UNCHANGED <<buffer, abiertas, vista>>
    PROVE  /\ alCliente'[c] = alCliente[c] => Llegara(u, n, f)'
           /\ \A m : alCliente'[c] = Append(alCliente[c], m) => Llegara(u, n, Efecto(u, n, f, m))'
<1>1. PICK g : Lleva(u, n, buffer[c], SeVe(u, n), g) /\ Lleva(u, n, alCliente[c], g, f)
  BY DEF Llegara
<1>2. SeVe(u, n)' = SeVe(u, n)
  BY DEF SeVe, EnCanal
<1>3. alCliente'[c] = alCliente[c] => Llegara(u, n, f)'
  BY <1>1, <1>2 DEF Llegara
<1>4. ASSUME NEW m, alCliente'[c] = Append(alCliente[c], m)
      PROVE  Llegara(u, n, Efecto(u, n, f, m))'
  <2>1. alCliente[c] \in Seq(MensajesPara(c[1]))
    BY DEF TipoRecepcion
  <2>2. Lleva(u, n, alCliente'[c], g, Efecto(u, n, f, m))
    BY <1>1, <1>4, <2>1, LlevaUnaMas
  <2>3. PICK e : e = Efecto(u, n, f, m)
    OBVIOUS
  <2>4. Llegara(u, n, e)'
    BY <1>1, <1>2, <2>2, <2>3 DEF Llegara
  <2> QED
    BY <2>3, <2>4
<1> QED
  BY <1>3, <1>4

(* A thread sends while nothing else has an effect, or while another one   *)
(* has.                                                                    *)
LEMMA EnviaDira ==
    ASSUME EnvioTypeOK, TipoInv, Nuevas, NEW u \in Usuarios, NEW n \in Nicks, Sano(u), Sano(n[1]),
           NEW c \in Conexiones, c = <<u, 1>>, NEW x \in Conexiones, Envia(x), NEW f, Dira(u, n, f)
    PROVE  \/ alCliente'[c] = alCliente[c] /\ Dira(u, n, f)'
           \/ \E m : alCliente'[c] = Append(alCliente[c], m) /\ Dira(u, n, Efecto(u, n, f, m))'
<1>0. TipoHilo /\ TipoRecepcion /\ TipoBase /\ Hilo(x)
  BY DEF TipoInv, Hilo, Envia
<1>1. UNCHANGED <<miembros, nombre>>
  BY DEF Envia, ListNicks, EnviarANick, Enviar, ListarNames, sinEnvios, delCanal
<1>2. Debe(u, n)' = Debe(u, n) /\ Suyas' = Suyas
  BY <1>1 DEF Debe, DebeCon, Suyas
<1>3. \A y \in Conexiones \ {x} : hilo'[y] = hilo[y]
  BY <1>0, HiloPropio
<1>4. ASSUME Inocuo(hilo[x]), Inocuo(hilo'[x]) => Dira(u, n, f)'
      PROVE  \/ alCliente'[c] = alCliente[c] /\ Dira(u, n, f)'
             \/ \E m : alCliente'[c] = Append(alCliente[c], m) /\ Dira(u, n, Efecto(u, n, f, m))'
  <2>1. /\ Inocuo(hilo'[x])
        /\ \/ alCliente'[c] = alCliente[c]
           \/ \E m : m.tipo \notin Cambian /\ alCliente'[c] = Append(alCliente[c], m)
    BY <1>0, <1>4, EnviaInocuo
  <2>2. \A m : m.tipo \notin Cambian => Efecto(u, n, f, m) = f
    BY DEF Efecto, Cambian
  <2>3. CASE alCliente'[c] = alCliente[c]
    BY <1>4, <2>1, <2>3
  <2>4. ASSUME NEW m, m.tipo \notin Cambian, alCliente'[c] = Append(alCliente[c], m)
        PROVE  alCliente'[c] = Append(alCliente[c], m) /\ Dira(u, n, Efecto(u, n, f, m))'
    <3>1. Dira(u, n, f)'
      BY <1>4, <2>1
    <3>2. PICK e : e = Efecto(u, n, f, m)
      OBVIOUS
    <3>3. e = f
      BY <2>2, <2>4, <3>2
    <3> QED
      BY <2>4, <3>1, <3>2, <3>3
  <2> QED
    BY <2>1, <2>3, <2>4
<1>5. CASE f = Debe(u, n) /\ \A y \in Conexiones : Inocuo(hilo[y])
  <2>1. Inocuo(hilo'[x]) => Dira(u, n, f)'
    BY <1>2, <1>3, <1>5 DEF Dira
  <2> QED
    BY <1>4, <1>5, <2>1
<1>6. ASSUME NEW d \in Conexiones, \A y \in Conexiones \ {d} : Inocuo(hilo[y]),
             LlevaHilo(u, n, d, miembros, Suyas, hilo[d], f, Debe(u, n))
      PROVE  \/ alCliente'[c] = alCliente[c] /\ Dira(u, n, f)'
             \/ \E m : alCliente'[c] = Append(alCliente[c], m) /\ Dira(u, n, Efecto(u, n, f, m))'
  <2>1. CASE x # d
    <3>1. LlevaHilo(u, n, d, miembros', Suyas', hilo'[d], f, Debe(u, n)')
      BY <1>1, <1>2, <1>3, <1>6, <2>1
    <3>2. Inocuo(hilo'[x]) => Dira(u, n, f)'
      BY <1>3, <1>6, <3>1 DEF Dira
    <3> QED
      BY <1>4, <1>6, <2>1, <3>2
  <2>2. CASE x = d
    <3>1. PICK D : D = Debe(u, n)
      OBVIOUS
    <3>2. \/ /\ alCliente'[c] = alCliente[c]
             /\ LlevaHilo(u, n, x, miembros, Suyas, hilo'[x], f, D)
          \/ \E m : /\ alCliente'[c] = Append(alCliente[c], m)
                    /\ LlevaHilo(u, n, x, miembros, Suyas, hilo'[x], Efecto(u, n, f, m), D)
      BY <1>6, <2>2, <3>1, EnviaLleva
    <3>3. ASSUME NEW e, LlevaHilo(u, n, x, miembros, Suyas, hilo'[x], e, D)
          PROVE  Dira(u, n, e)'
      <4>1. LlevaHilo(u, n, x, miembros', Suyas', hilo'[x], e, Debe(u, n)')
        BY <1>1, <1>2, <3>1, <3>3
      <4>2. \A y \in Conexiones \ {x} : Inocuo(hilo'[y])
        BY <1>3, <1>6, <2>2
      <4> QED
        BY <4>1, <4>2 DEF Dira
    <3>4. CASE alCliente'[c] = alCliente[c] /\ LlevaHilo(u, n, x, miembros, Suyas, hilo'[x], f, D)
      BY <3>3, <3>4
    <3>5. ASSUME NEW m, alCliente'[c] = Append(alCliente[c], m),
                 LlevaHilo(u, n, x, miembros, Suyas, hilo'[x], Efecto(u, n, f, m), D)
          PROVE  Dira(u, n, Efecto(u, n, f, m))'
      <4>1. PICK e : e = Efecto(u, n, f, m)
        OBVIOUS
      <4>2. Dira(u, n, e)'
        BY <3>3, <3>5, <4>1
      <4> QED
        BY <4>1, <4>2
    <3> QED
      BY <3>2, <3>4, <3>5
  <2> QED
    BY <2>1, <2>2
<1> QED
  BY <1>5, <1>6 DEF Dira

(* A connection that is closed (cerrarConexion) is of nobody that is so.   *)
LEMMA CierraDira ==
    ASSUME EnvioTypeOK, TipoInv, Nuevas, NEW u \in Usuarios, NEW n \in Nicks, Sano(u), Sano(n[1]), Sano(u)', Sano(n[1])',
           NEW c \in Conexiones, c = <<u, 1>>, NEW x \in Conexiones, CerrarConexion(x), NEW f, Dira(u, n, f)
    PROVE  Dira(u, n, f)' /\ UNCHANGED alCliente
<1>0. TipoHilo /\ TipoRecepcion /\ TipoBase /\ Hilo(x)
  BY DEF TipoInv, Hilo
<1>1. /\ cerrada' = cerrada \cup {x} /\ miembros' = miembros \ {x} /\ UNCHANGED <<alCliente, conexiones>>
      /\ hilo'[x] = <<>> /\ \A y \in Conexiones \ {x} : hilo'[y] = hilo[y] /\ nombre'[y] = nombre[y]
      /\ hilo[x] = <<>> \/ Paso(x, "fin")
  <2>1. /\ cerrada' = cerrada \cup {x} /\ miembros' = miembros \ {x} /\ UNCHANGED <<alCliente, conexiones>>
        /\ hilo[x] = <<>> \/ Paso(x, "fin")
    BY DEF CerrarConexion, Sale, sinServidor
  <2>2. hilo'[x] = <<>>
    BY <1>0 DEF CerrarConexion, Manda, TipoHilo
  <2> QED
    BY <1>0, <2>1, <2>2, HiloPropio
<1>2. ASSUME NEW v \in Usuarios, Sano(v)'
      PROVE  x[1] # v
  <2>0. x = <<x[1], x[2]>> /\ x[2] \in Nat \ {0} /\ conexiones[x[1]] \in Nat /\ x[2] <= conexiones[x[1]]
    BY <1>0, Cs, NuevaQuieta DEF EnvioTypeOK
  <2> SUFFICES ASSUME x[1] = v
               PROVE  FALSE
    OBVIOUS
  <2>1. conexiones[v] # 0 /\ conexiones'[v] = conexiones[v]
    BY <1>1, <2>0
  <2>2. conexiones'[v] = 1 /\ <<v, 1>> \notin cerrada'
    BY <1>2, <2>1 DEF Sano, UnaSola
  <2>3. x[2] = 1
    BY <2>0, <2>1, <2>2
  <2> QED
    BY <1>1, <2>0, <2>2, <2>3
<1>3. x # c /\ x # n
  <2>1. n[1] \in Usuarios /\ c[1] = u
    BY DEF Nicks
  <2> QED
    BY <1>2, <2>1
<1>4. /\ c \in miembros' <=> c \in miembros
      /\ n \in miembros' <=> n \in miembros
      /\ c \in Suyas' <=> c \in Suyas
  BY <1>1, <1>3 DEF Suyas
<1>5. Debe(u, n)' = Debe(u, n)
  BY <1>4 DEF Debe, DebeCon
<1>6. CASE f = Debe(u, n) /\ \A y \in Conexiones : Inocuo(hilo[y])
  <2>1. \A y \in Conexiones : Inocuo(hilo'[y])
    BY <1>1, <1>6, InocuoNada
  <2> QED
    BY <1>1, <1>5, <1>6, <2>1 DEF Dira
<1>7. ASSUME NEW d \in Conexiones, \A y \in Conexiones \ {d} : Inocuo(hilo[y]),
             LlevaHilo(u, n, d, miembros, Suyas, hilo[d], f, Debe(u, n))
      PROVE  Dira(u, n, f)'
  <2>1. \A y \in Conexiones \ {d} : Inocuo(hilo'[y])
    BY <1>1, <1>7, InocuoNada
  <2>2. hilo'[d] = hilo[d]
    <3>1. CASE d # x
      BY <1>1, <3>1
    <3>2. CASE d = x
      <4>1. ~Paso(x, "fin")
        <5> SUFFICES ASSUME Paso(x, "fin")
                     PROVE  FALSE
          OBVIOUS
        <5>1. hilo[x] # <<>> /\ Head(hilo[x]).paso = "fin"
          BY DEF Paso
        <5>2. Consta(Head(hilo[x]))
          BY <1>0, <1>7, <3>2, <5>1, CabezaHilo, HiloPrimero
        <5> QED
          BY <5>1, <5>2 DEF Consta
      <4> QED
        BY <1>1, <3>2, <4>1
    <3> QED
      BY <3>1, <3>2
  <2>3. LlevaHilo(u, n, d, miembros', Suyas', hilo'[d], f, Debe(u, n)')
    <3>1. LlevaHilo(u, n, d, miembros', Suyas', hilo[d], f, Debe(u, n))
      BY <1>4, <1>7, HiloIgual
    <3> QED
      BY <1>5, <2>2, <3>1
  <2> QED
    BY <2>1, <2>3 DEF Dira
<1> QED
  BY <1>1, <1>6, <1>7 DEF Dira

(* Whatever a thread of the server does.                                   *)
LEMMA HiloVeraA ==
    ASSUME EnvioTypeOK, TipoInv, Nuevas, modo.serie, NEW u \in Usuarios, NEW n \in Nicks,
           Sano(u), Sano(n[1]), Sano(u)', Sano(n[1])', NEW c \in Conexiones, c = <<u, 1>>,
           NEW x \in Conexiones, Hilo(x), VeraA(u, n)
    PROVE  VeraA(u, n)'
<1>0. TipoRecepcion /\ UNCHANGED <<buffer, abiertas, vista>>
  BY HiloPropio DEF TipoInv, interfaz
<1>1. PICK f : Llegara(u, n, f) /\ Dira(u, n, f)
  BY DEF VeraA
<1>2. alCliente'[c] = alCliente[c] => Llegara(u, n, f)'
  BY <1>0, <1>1, ServidorLlega
<1>3. CASE ProcesaComando(x)
  <2>1. Dira(u, n, f)' /\ UNCHANGED alCliente
    BY <1>1, <1>3, ProcesaDira
  <2> QED
    BY <1>2, <2>1 DEF VeraA
<1>4. CASE CerrarConexion(x)
  <2>1. Dira(u, n, f)' /\ UNCHANGED alCliente
    BY <1>1, <1>4, CierraDira
  <2> QED
    BY <1>2, <2>1 DEF VeraA
<1>5. CASE Envia(x)
  <2>1. \/ alCliente'[c] = alCliente[c] /\ Dira(u, n, f)'
        \/ \E m : alCliente'[c] = Append(alCliente[c], m) /\ Dira(u, n, Efecto(u, n, f, m))'
    BY <1>1, <1>5, EnviaDira
  <2>2. CASE alCliente'[c] = alCliente[c] /\ Dira(u, n, f)'
    BY <1>2, <2>2 DEF VeraA
  <2>3. ASSUME NEW m, alCliente'[c] = Append(alCliente[c], m), Dira(u, n, Efecto(u, n, f, m))'
        PROVE  VeraA(u, n)'
    <3>1. Llegara(u, n, Efecto(u, n, f, m))'
      BY <1>0, <1>1, <2>3, ServidorLlega
    <3>2. PICK e : e = Efecto(u, n, f, m)
      OBVIOUS
    <3>3. Llegara(u, n, e)' /\ Dira(u, n, e)'
      BY <2>3, <3>1, <3>2
    <3> QED
      BY <3>3 DEF VeraA
  <2> QED
    BY <2>1, <2>2, <2>3
<1> QED
  BY <1>3, <1>4, <1>5 DEF Hilo, Envia
-----------------------------------------------------------------------------
(* The clients leave alone what the server has to say.                     *)
LEMMA ClienteDira ==
    ASSUME NEW u, NEW n, NEW f, Dira(u, n, f), UNCHANGED <<miembros, nombre, hilo>>
    PROVE  Dira(u, n, f)'
<1>1. Debe(u, n)' = Debe(u, n) /\ Suyas' = Suyas
  BY DEF Debe, DebeCon, Suyas
<1> QED
  BY <1>1 DEF Dira

(* recv_pthread of the connection in use: what arrives passes to the       *)
(* buffer, and then to the windows, in order.                              *)
LEMMA RecvVeraA ==
    ASSUME EnvioTypeOK, TipoInv, Lectura, NEW u \in Usuarios, NEW n \in Nicks, UnaSola(u),
           NEW c \in Conexiones, c = <<u, 1>>, VeraA(u, n), RecvPthread(c)
    PROVE  VeraA(u, n)'
<1>0. /\ lee[c] = c /\ DOMAIN buffer = Conexiones /\ DOMAIN alCliente = Conexiones
      /\ receptor[c] \in {"entra", "recv", "maneja", "contesta", "contestado"} => tabla[u]
      /\ receptor[c] \in {"no", "inicio", "tabla", "entra", "recv", "fin"} => buffer[c] = <<>>
      /\ cnick[u] = <<u, 1>>
      /\ TipoInterfaz /\ TipoVentanas /\ TipoRecepcion
  <2>1. DOMAIN buffer = Conexiones /\ DOMAIN alCliente = Conexiones /\ TipoInterfaz /\ TipoVentanas /\ TipoRecepcion
    BY DEF TipoInv, TipoRecepcion
  <2>2. cnick[u] = <<u, 1>>
    BY <2>1 DEF TipoInterfaz, UnaSola
  <2>3. /\ lee[c] = c
        /\ receptor[c] \in {"entra", "recv", "maneja", "contesta", "contestado"} => tabla[u]
        /\ receptor[c] \in {"no", "inicio", "tabla", "entra", "recv", "fin"} => buffer[c] = <<>>
    BY DEF Lectura
  <2> QED
    BY <2>1, <2>2, <2>3
<1>1. UNCHANGED <<miembros, nombre, hilo>>
  BY <1>0, RecvDeja DEF servidor, delCanal
<1>2. PICK f, g : /\ Dira(u, n, f) /\ Lleva(u, n, buffer[c], SeVe(u, n), g)
                  /\ Lleva(u, n, alCliente[c], g, f)
  BY DEF VeraA, Llegara
<1>3. Dira(u, n, f)'
  BY <1>1, <1>2, ClienteDira
<1> SUFFICES \E k : Lleva(u, n, buffer'[c], SeVe(u, n)', k) /\ Lleva(u, n, alCliente'[c], k, f)
  BY <1>3 DEF VeraA, Llegara
<1>4. CASE RecvMensajes(c)
  <2>1. buffer[c] = <<>> /\ UNCHANGED <<abiertas, vista>>
    BY <1>0, <1>4 DEF RecvMensajes, interfaz
  <2>2. SeVe(u, n)' = SeVe(u, n)
    BY <2>1 DEF SeVe, EnCanal
  <2>3. CASE /\ buffer' = [buffer EXCEPT ![c] = alCliente[c]]
             /\ alCliente' = [alCliente EXCEPT ![c] = <<>>]
    <3>1. buffer'[c] = alCliente[c] /\ alCliente'[c] = <<>>
      BY <1>0, <2>3
    <3>2. g = SeVe(u, n)
      BY <1>2, <2>1, LlevaNada
    <3>3. Lleva(u, n, buffer'[c], SeVe(u, n)', f)
      BY <1>2, <2>2, <3>1, <3>2
    <3>4. Lleva(u, n, alCliente'[c], f, f)
      BY <3>1, LlevaNada
    <3> QED
      BY <3>3, <3>4
  <2>4. CASE UNCHANGED <<buffer, alCliente>>
    BY <1>2, <2>2, <2>4
  <2> QED
    BY <1>0, <1>4, <2>3, <2>4 DEF RecvMensajes
<1>5. CASE Maneja(c)
  <2> DEFINE b == buffer[c]
             m == Head(b)
  <2>1. m \in MensajesPara(u) /\ b \in Seq(MensajesPara(u)) /\ b # <<>>
    BY <1>0, <1>5, ManejaCabeza DEF Maneja
  <2>2. ComandosRecv(u, m) /\ UNCHANGED alCliente /\ buffer'[c] = Tail(b)
    BY <1>0, <1>5 DEF Maneja
  <2>3. PICK e : e = SeVe(u, n)
    OBVIOUS
  <2>4. PICK a : a = m
    OBVIOUS
  <2>5. SeVe(u, n)' = Efecto(u, n, e, a)
    BY <1>0, <2>1, <2>2, <2>3, <2>4, RespuestaSeVe
  <2>6. Lleva(u, n, Tail(b), Efecto(u, n, e, a), g)
    <3> HIDE DEF b
    <3>1. Lleva(u, n, b, e, g)
      BY <1>2, <2>3 DEF b
    <3> QED
      BY <2>1, <2>4, <3>1, LlevaPrimera
  <2> QED
    BY <1>2, <2>2, <2>5, <2>6
<1>6. CASE RecvInicio(c) \/ RecvTabla(c) \/ RecvEntra(c) \/ Contesta(c) \/ RecvVuelve(c)
  <2>1. UNCHANGED <<abiertas, vista, buffer, alCliente>>
    BY <1>6 DEF RecvInicio, RecvTabla, RecvEntra, Contesta, RecvVuelve, sinTabla, interfaz
  <2>2. SeVe(u, n)' = SeVe(u, n)
    BY <2>1 DEF SeVe, EnCanal
  <2> QED
    BY <1>2, <2>1, <2>2
<1> QED
  BY <1>4, <1>5, <1>6 DEF RecvPthread

(* The threads of other users leave the windows and the connection alone.  *)
LEMMA RecvDeOtro ==
    ASSUME TipoInv, NEW u \in Usuarios, NEW d \in Conexiones, d[1] # u, RecvPthread(d)
    PROVE  /\ abiertas'[u] = abiertas[u] /\ vista'[u] = vista[u]
           /\ \A c \in Conexiones : c[1] = u => buffer'[c] = buffer[c] /\ alCliente'[c] = alCliente[c]
<1>0. d[1] \in Usuarios /\ lee[d][1] = d[1] /\ DOMAIN alCliente = Conexiones /\ TipoVentanas /\ TipoRecepcion
  BY Cs DEF TipoInv, TipoRecepcion
<1>1. ASSUME NEW c \in Conexiones, c[1] = u
      PROVE  buffer'[c] = buffer[c] /\ alCliente'[c] = alCliente[c]
  <2>1. c # d /\ c # lee[d]
    BY <1>0, <1>1
  <2>2. buffer'[c] = buffer[c]
    BY <1>0, <2>1, RecvDeja
  <2>3. UNCHANGED alCliente \/ alCliente' = [alCliente EXCEPT ![lee[d]] = <<>>]
    BY DEF RecvPthread, RecvInicio, RecvTabla, RecvEntra, RecvMensajes, Maneja, Contesta, RecvVuelve, sinTabla
  <2> QED
    BY <1>0, <2>1, <2>2, <2>3
<1>2. abiertas'[u] = abiertas[u] /\ vista'[u] = vista[u]
  <2>1. CASE Maneja(d)
    <3>1. ComandosRecv(d[1], Head(buffer[d])) \/ UNCHANGED <<abiertas, vista>>
      BY <2>1 DEF Maneja
    <3>2. ASSUME NEW m, ComandosRecv(d[1], m)
          PROVE  abiertas'[u] = abiertas[u] /\ vista'[u] = vista[u]
      BY <1>0, <3>2, ManejaAjeno
    <3> QED
      BY <3>1, <3>2
  <2>2. CASE ~Maneja(d)
    BY <2>2 DEF RecvPthread, RecvInicio, RecvTabla, RecvEntra, RecvMensajes, Contesta, RecvVuelve, sinTabla, interfaz
  <2> QED
    BY <2>1, <2>2
<1> QED
  BY <1>1, <1>2

(* A user that has not connected has no thread that receives.              *)
LEMMA SinReceptor ==
    ASSUME EnvioTypeOK, TipoRecepcion, NEW u \in Usuarios, conexiones[u] = 0, NEW d \in Conexiones, RecvPthread(d)
    PROVE  d[1] # u
<1>1. receptor[d] # "no"
  BY RecvDeja
<1>2. d[2] <= conexiones[d[1]] /\ d[2] \in Nat \ {0}
  BY <1>1, Cs DEF TipoRecepcion
<1> QED
  BY <1>2

(* A user that has not connected opens no window.                          *)
LEMMA SinAbrirPaso ==
    ASSUME EnvioTypeOK, EnvioTypeOK', TipoInv, SinAbrir, [Next]_vars
    PROVE  SinAbrir'
<1> SUFFICES ASSUME NEW u \in Usuarios, conexiones'[u] = 0
             PROVE  abiertas'[u] = {}
  BY DEF SinAbrir
<1>0. /\ TipoPreguntas /\ TipoOrdenes /\ TipoRecepcion /\ TipoBase /\ TipoHilo /\ TipoVentanas /\ TipoInterfaz
      /\ abiertas \in [Usuarios -> SUBSET Ventanas]
  BY DEF TipoInv, TipoVentanas
<1>1. conexiones[u] = 0
  <2>1. conexiones[u] \in Nat /\ conexiones[u] <= conexiones'[u]
    BY <1>0, TodoCrece DEF EnvioTypeOK
  <2> QED
    BY <2>1
<1>2. abiertas[u] = {}
  BY <1>1 DEF SinAbrir
<1>3. ASSUME NEW v \in Usuarios, Interfaz(v) \/ Envio(v)
      PROVE  abiertas'[u] = {}
  <2>1. UNCHANGED abiertas \/ abiertas' = [abiertas EXCEPT ![v] = {}]
    <3>1. CASE Connect(v)
      BY <3>1 DEF Connect, interfaz
    <3>2. CASE TecleaSinTabla(v)
      BY <3>2 DEF TecleaSinTabla
    <3>3. CASE UNCHANGED ajenoOrden
      BY <3>3 DEF ajenoOrden, interfaz
    <3>4. CASE Envio(v)
      BY <3>4 DEF Envio, CierraSocket, Ofrece, EnviaResto, interfaz
    <3> QED
      BY <1>3, <3>1, <3>2, <3>3, <3>4, OtrasOrdenes
  <2> QED
    BY <1>0, <1>2, <2>1
<1>4. ASSUME NEW d \in Conexiones, RecvPthread(d)
      PROVE  abiertas'[u] = {}
  BY <1>0, <1>1, <1>2, <1>4, SinReceptor, RecvDeOtro
<1>5. ASSUME NEW d \in Conexiones, Hilo(d)
      PROVE  abiertas'[u] = {}
  BY <1>0, <1>2, <1>5, HiloPropio DEF interfaz
<1>6. CASE UNCHANGED vars
  BY <1>2, <1>6 DEF vars, interfaz
<1> QED
  BY <1>3, <1>4, <1>5, <1>6 DEF Next

(* CerrarConexion takes the nick away, and no command registers it later.  *)
LEMMA CerradasPaso ==
    ASSUME EnvioTypeOK, TipoInv, Cerradas, [Next]_vars
    PROVE  Cerradas'
<1>0. TipoBase /\ TipoHilo /\ TipoRecepcion /\ cerrada \subseteq Conexiones /\ DOMAIN nombre = Conexiones
  BY DEF TipoInv, TipoBase
<1>1. ASSUME UNCHANGED <<cerrada, nombre>>
      PROVE  Cerradas'
  BY <1>1 DEF Cerradas, Registrado
<1>2. ASSUME NEW d \in Conexiones, Hilo(d)
      PROVE  Cerradas'
  <2>1. CASE CerrarConexion(d)
    <3>1. cerrada' = cerrada \cup {d} /\ nombre' = [nombre EXCEPT ![d] = Nadie]
      BY <2>1 DEF CerrarConexion
    <3> QED
      BY <1>0, <3>1 DEF Cerradas, Registrado
  <2>2. CASE Nick(d) \/ User(d)
    <3>1. d \notin cerrada /\ UNCHANGED cerrada
      BY <2>2 DEF Nick, User, Recibe
    <3>2. \A c \in Conexiones \ {d} : nombre'[c] = nombre[c]
      BY <1>0, <1>2, HiloPropio
    <3> QED
      BY <1>0, <3>1, <3>2 DEF Cerradas, Registrado
  <2>3. CASE ~CerrarConexion(d) /\ ~Nick(d) /\ ~User(d)
    <3>1. UNCHANGED <<cerrada, nombre>>
      BY <1>2, <2>3 DEF Hilo, ProcesaComando, SinRegistrar, Join, Join0, PartirCanal, Kick, Mode, SoloContesta,
         Privmsg, Quit, ComandoVacio, ListNicks, EnviarANick, Enviar, ListarNames, sinEnvios
    <3> QED
      BY <1>1, <3>1
  <2> QED
    BY <2>1, <2>2, <2>3
<1>3. CASE \E u \in Usuarios : Interfaz(u) \/ Envio(u)
  BY <1>1, <1>3, ClienteDeja DEF servidor
<1>4. CASE \E d \in Conexiones : RecvPthread(d)
  BY <1>0, <1>1, <1>4, RecvDeja DEF servidor
<1>5. CASE UNCHANGED vars
  BY <1>1, <1>5 DEF vars, servidor
<1> QED
  BY <1>2, <1>3, <1>4, <1>5 DEF Next
-----------------------------------------------------------------------------
(* What leaves the window, the connection and the server alone.            *)
LEMMA IgualVeraA ==
    ASSUME NEW u \in Usuarios, NEW n, NEW c, c = <<u, 1>>, VeraA(u, n),
           abiertas'[u] = abiertas[u], vista'[u] = vista[u],
           buffer'[c] = buffer[c], alCliente'[c] = alCliente[c], UNCHANGED <<miembros, nombre, hilo>>
    PROVE  VeraA(u, n)'
<1>1. SeVe(u, n)' = SeVe(u, n)
  BY DEF SeVe, EnCanal
<1>2. PICK f : Llegara(u, n, f) /\ Dira(u, n, f)
  BY DEF VeraA
<1>3. Llegara(u, n, f)'
  BY <1>1, <1>2 DEF Llegara
<1>4. Dira(u, n, f)'
  BY <1>2, ClienteDira
<1> QED
  BY <1>3, <1>4 DEF VeraA

(* Every step keeps Fiel.                                                  *)
LEMMA FielPaso ==
    ASSUME EnvioTypeOK, EnvioTypeOK', TipoInv, Nuevas, Lectura, PrimerNick, SinAbrir, SinAbrir', Fiel, [Next]_vars
    PROVE  Fiel'
<1>0. /\ TipoInterfaz /\ TipoVentanas /\ TipoPreguntas /\ TipoOrdenes /\ TipoRecepcion
      /\ TipoBase /\ TipoHilo
  BY DEF TipoInv
<1>1. UNCHANGED modo
  BY <1>0, TodoCrece
<1> SUFFICES ASSUME modo.serie, NEW u \in Usuarios, NEW n \in Nicks, NEW c \in Conexiones, c = <<u, 1>>,
                    Sano(u)', Sano(n[1])'
             PROVE  VeraA(u, n)'
  BY <1>1 DEF Fiel
<1>2. Sano(u) /\ Sano(n[1]) /\ n[1] \in Usuarios
  <2>1. n[1] \in Usuarios
    BY DEF Nicks
  <2> QED
    BY <2>1, SanoAntes
<1>3. VeraA(u, n)
  BY <1>2 DEF Fiel
<1>4. ASSUME NEW v \in Usuarios, Interfaz(v) \/ Envio(v)
      PROVE  VeraA(u, n)'
  <2>1. UNCHANGED <<buffer, alCliente, servidor>>
    BY <1>4, ClienteDeja
  <2>2. abiertas'[u] = abiertas[u] /\ vista'[u] = vista[u]
    <3>1. CASE UnaSola(u)'
      BY <1>0, <1>4, <3>1, VentanasDeja
    <3>2. CASE conexiones'[u] = 0
      <4>1. conexiones[u] = 0
        <5>1. conexiones[u] \in Nat /\ conexiones[u] <= conexiones'[u]
          BY <1>0, TodoCrece DEF EnvioTypeOK
        <5> QED
          BY <3>2, <5>1
      <4>2. abiertas[u] = {} /\ abiertas'[u] = {}
        BY <3>2, <4>1 DEF SinAbrir
      <4>3. UNCHANGED vista \/ vista' = [vista EXCEPT ![v] = {}]
        <5>1. CASE Connect(v)
          BY <5>1 DEF Connect, interfaz
        <5>2. CASE TecleaSinTabla(v)
          BY <5>2 DEF TecleaSinTabla
        <5>3. CASE UNCHANGED ajenoOrden
          BY <5>3 DEF ajenoOrden, interfaz
        <5>4. CASE Envio(v)
          BY <5>4 DEF Envio, CierraSocket, Ofrece, EnviaResto, interfaz
        <5> QED
          BY <1>4, <5>1, <5>2, <5>3, <5>4, OtrasOrdenes
      <4>4. vista[u] = {}
        <5>1. vista[u] \subseteq abiertas[u] \X Nicks
          BY <1>0 DEF TipoVentanas
        <5> QED
          BY <4>2, <5>1
      <4> QED
        BY <1>0, <4>2, <4>3, <4>4 DEF TipoVentanas
    <3> QED
      BY <3>1, <3>2 DEF Sano
  <2>3. UNCHANGED <<miembros, nombre, hilo>>
    BY <2>1 DEF servidor, delCanal
  <2> QED
    BY <1>3, <2>1, <2>2, <2>3, IgualVeraA
<1>5. ASSUME NEW d \in Conexiones, RecvPthread(d)
      PROVE  VeraA(u, n)'
  <2>1. UNCHANGED servidor /\ receptor[d] # "no"
    BY <1>0, <1>5, RecvDeja
  <2>2. UNCHANGED <<miembros, nombre, hilo>>
    BY <2>1 DEF servidor, delCanal
  <2>3. CASE d[1] # u
    <3>1. /\ abiertas'[u] = abiertas[u] /\ vista'[u] = vista[u]
          /\ \A x \in Conexiones : x[1] = u => buffer'[x] = buffer[x] /\ alCliente'[x] = alCliente[x]
      BY <1>5, <2>3, RecvDeOtro
    <3>2. c[1] = u
      OBVIOUS
    <3> QED
      BY <1>3, <2>2, <3>1, <3>2, IgualVeraA
  <2>4. CASE d[1] = u
    <3>1. UnaSola(u)
      BY <1>0, <1>2, <1>5, <2>4, SinReceptor DEF Sano
    <3>2. d = c
      BY <1>0, <2>1, <2>4, <3>1, ReceptorSolo
    <3> QED
      BY <1>3, <1>5, <3>1, <3>2, RecvVeraA
  <2> QED
    BY <2>3, <2>4
<1>6. ASSUME NEW d \in Conexiones, Hilo(d)
      PROVE  VeraA(u, n)'
  BY <1>2, <1>3, <1>6, HiloVeraA
<1>7. CASE UNCHANGED vars
  <2>1. UNCHANGED <<buffer, alCliente, hilo, abiertas, vista, miembros, nombre>>
    BY <1>7 DEF vars, recepcion, servidor, delCanal, interfaz
  <2> QED
    BY <1>3, <2>1, IgualVeraA
<1> QED
  BY <1>4, <1>5, <1>6, <1>7 DEF Next

(* Nobody has connected, and no thread has anything to say.                *)
LEMMA FielInicial == Init => FielInv
<1> SUFFICES ASSUME Init
             PROVE  FielInv
  OBVIOUS
<1>1. Cerradas /\ SinAbrir
  BY DEF Init, Cerradas, SinAbrir
<1>2. ASSUME NEW u \in Usuarios, NEW n \in Nicks, <<u, 1>> \in Conexiones
      PROVE  VeraA(u, n)
  <2> DEFINE f == "cerrada"
  <2>1. SeVe(u, n) = f /\ Debe(u, n) = f
    BY DEF Init, SeVe, EnCanal, Debe, DebeCon
  <2>2. buffer[<<u, 1>>] = <<>> /\ alCliente[<<u, 1>>] = <<>> /\ \A x \in Conexiones : hilo[x] = <<>>
    BY <1>2 DEF Init
  <2>3. Llegara(u, n, f)
    <3> HIDE DEF f
    <3>1. Lleva(u, n, <<>>, f, f)
      BY LlevaNada
    <3> QED
      BY <2>1, <2>2, <3>1 DEF Llegara
  <2>4. Dira(u, n, f)
    <3> HIDE DEF f
    <3> QED
      BY <2>1, <2>2, InocuoNada DEF Dira
  <2> HIDE DEF f
  <2> QED
    BY <2>3, <2>4 DEF VeraA
<1>3. Fiel
  BY <1>2 DEF Fiel
<1> QED
  BY <1>1, <1>3 DEF FielInv

(* While commands are in series, for each user and each nick of users that *)
(* have not left: what the client shows of the nick, after the answers it  *)
(* has and those on their way to it, is what the server has, once its      *)
(* thread sends what it has left (join, partirCanal, kick and names of     *)
(* funciones_servidor.c against rplJoin, rplPart, rplKick, rplNamReply).   *)
THEOREM FielSiempre == Spec => []FielInv
<1>1. EnvioInv /\ EnvioInv' /\ TipoInv /\ PropiaInv /\ FielInv /\ [Next]_vars => FielInv'
  <2> SUFFICES ASSUME EnvioTypeOK, EnvioTypeOK', TipoInv, Nuevas, Lectura, PrimerNick,
                      Cerradas, SinAbrir, Fiel, [Next]_vars
               PROVE  FielInv'
    BY DEF EnvioInv, PropiaInv, FielInv
  <2>1. Cerradas'
    BY CerradasPaso
  <2>2. SinAbrir'
    BY SinAbrirPaso
  <2>3. Fiel'
    BY <2>2, FielPaso
  <2> QED
    BY <2>1, <2>2, <2>3 DEF FielInv
<1> QED
  BY <1>1, FielInicial, PropiaSiempre, TipoSiempre, EnvioSiempre, PTL DEF Spec
-----------------------------------------------------------------------------
(* Whoever has not left nor changed nick is on its first connection.       *)
LEMMA FiableSano ==
    ASSUME EnvioTypeOK, TipoInterfaz, Cerradas, NEW v \in Usuarios, Fiable(v)
    PROVE  Sano(v)
<1>1. CASE conexiones[v] = 0
  BY <1>1 DEF Sano
<1>2. CASE Sigue1(v) /\ nombre[<<v, 1>>] = cnick[v]
  <2>1. socket[v] = 1 /\ socket[v] \in {0, conexiones[v]} /\ Registrado(<<v, 1>>)
    BY <1>2 DEF Sigue1, TipoInterfaz
  <2>2. conexiones[v] = 1
    BY <2>1
  <2>3. cnick[v] = <<v, 1>>
    BY <2>2 DEF TipoInterfaz
  <2>4. <<v, 1>> \notin cerrada
    BY <2>1 DEF Cerradas
  <2> QED
    BY <1>2, <2>1, <2>2, <2>3, <2>4 DEF Sano, UnaSola
<1> QED
  BY <1>1, <1>2 DEF Fiable

(* When nothing is on its way, the client shows what the server has.       *)
LEMMA QuietoVe ==
    ASSUME EnvioTypeOK, TipoInv, Nuevas, Lectura, SinAbrir, Fiel, modo.serie, Quieto,
           NEW u \in Usuarios, Sano(u), NEW n \in Nicks, Sano(n[1])
    PROVE  SeVe(u, n) = Debe(u, n)
<1>0. TipoInterfaz /\ TipoBase
  BY DEF TipoInv
<1>1. CASE <<u, 1>> \in Conexiones
  <2>1. PICK f, g : /\ Dira(u, n, f) /\ Lleva(u, n, buffer[<<u, 1>>], SeVe(u, n), g)
                    /\ Lleva(u, n, alCliente[<<u, 1>>], g, f)
    BY <1>1 DEF Fiel, VeraA, Llegara
  <2>2. alCliente[<<u, 1>>] = <<>> /\ \A x \in Conexiones : hilo[x] = <<>>
    BY <1>1 DEF Quieto
  <2>3. buffer[<<u, 1>>] = <<>>
    <3>1. CASE UnaSola(u)
      BY <1>1, <3>1 DEF Quieto, Lectura
    <3>2. CASE conexiones[u] = 0
      <4>1. <<u, 1>>[2] > conexiones[<<u, 1>>[1]]
        BY <3>2
      <4> QED
        BY <1>1, <4>1 DEF Nuevas
    <3> QED
      BY <3>1, <3>2 DEF Sano
  <2>4. f = Debe(u, n)
    BY <2>1, <2>2, DiraVacia
  <2>5. g = f
    BY <2>1, <2>2, LlevaNada
  <2>6. SeVe(u, n) = g
    BY <2>1, <2>3, LlevaNada
  <2> QED
    BY <2>4, <2>5, <2>6
<1>2. CASE <<u, 1>> \notin Conexiones
  <2>1. conexiones[u] = 0
    BY <1>0, <1>2 DEF Sano, UnaSola, TipoInterfaz
  <2>2. abiertas[u] = {}
    BY <2>1 DEF SinAbrir
  <2>3. <<u, 1>> \notin miembros
    BY <1>0, <1>2 DEF TipoBase
  <2> QED
    BY <2>2, <2>3 DEF SeVe, EnCanal, Debe, DebeCon
<1> QED
  BY <1>1, <1>2

(* When nothing is on its way, the windows of the channel say what the     *)
(* server has.                                                             *)
LEMMA QuietoFiel ==
    ASSUME EnvioTypeOK, TipoInv, Nuevas, Lectura, FielInv
    PROVE  VistaFiel
<1>0. /\ TipoInterfaz /\ TipoBase /\ TipoVentanas /\ Cerradas /\ SinAbrir /\ Fiel
  BY DEF TipoInv, FielInv
<1> SUFFICES ASSUME modo.serie, Quieto, NEW u \in Usuarios, NEW v \in Usuarios, Fiable(u), Fiable(v)
             PROVE  /\ EnCanal(u) <=> <<u, 1>> \in miembros
                    /\ EnCanal(u) => \A n \in {<<v, 1>>, <<v, 2>>} :
                            n \in Lista(u, Canal) <=> n \in Nombres(miembros)
  BY DEF VistaFiel
<1>1. Sano(u) /\ Sano(v)
  BY <1>0, FiableSano
<1>2. ASSUME NEW n \in Nicks, n[1] = v
      PROVE  /\ EnCanal(u) <=> <<u, 1>> \in miembros
             /\ EnCanal(u) => (n \in Lista(u, Canal) <=> n \in Nombres(miembros))
  <2>1. SeVe(u, n) = Debe(u, n)
    BY <1>0, <1>1, <1>2, QuietoVe
  <2>2. n \in Nombres(miembros) <=> n \in miembros
    BY <1>0, <1>1, <1>2, SuyaNombre
  <2>3. n \in Lista(u, Canal) <=> <<Canal, n>> \in vista[u]
    BY DEF Lista
  <2> QED
    BY <2>1, <2>2, <2>3 DEF SeVe, Debe, DebeCon
<1>3. <<v, 1>> \in Nicks /\ <<v, 2>> \in Nicks /\ <<v, 1>>[1] = v /\ <<v, 2>>[1] = v
  BY DEF Nicks
<1> QED
  BY <1>2, <1>3

(* Once a series of commands has had its effect, the window of the channel *)
(* is open if the server has the user there, and lists of the others those *)
(* that the server lists (names), for users that have not left nor changed *)
(* nick: rplJoin, rplPart, rplKick and rplNamReply against the server.     *)
THEOREM VistaFielSiempre == Spec => []VistaFiel
<1>1. EnvioInv /\ TipoInv /\ PropiaInv /\ FielInv => VistaFiel
  BY QuietoFiel DEF EnvioInv, PropiaInv
<1> QED
  BY <1>1, FielSiempre, PropiaSiempre, TipoSiempre, EnvioSiempre, PTL

(* Once everything has arrived, whoever the server has on the channel has  *)
(* it open and is listed there (join and names of the server against       *)
(* rplJoin, rplPart and rplNamReply of the client), for any users that     *)
(* order at a time anything but KICK, and with KICK if in series.          *)
THEOREM VistaPropiaSiempre == Spec => []VistaPropia
<1>1. EnvioInv /\ TipoInv /\ PropiaInv /\ FielInv => VistaPropia
  <2> SUFFICES ASSUME EnvioTypeOK, TipoInv, Nuevas, Lectura, Propia, FielInv, modo.serie \/ ~HayKick, Quieto,
                      NEW u \in Usuarios, Sigue1(u), receptor[<<u, 1>>] = "recv",
                      <<u, 1>> \in miembros, nombre[<<u, 1>>] = cnick[u]
               PROVE  EnCanal(u) /\ cnick[u] \in Lista(u, Canal)
    BY DEF EnvioInv, PropiaInv, VistaPropia
  <2>0. TipoInterfaz /\ TipoBase
    BY DEF TipoInv
  <2>1. socket[u] = 1 /\ conexiones[u] = 1
    <3>1. socket[u] = 1 /\ socket[u] \in {0, conexiones[u]} /\ conexiones[u] \in Nat
      BY <2>0 DEF Sigue1, TipoInterfaz, EnvioTypeOK
    <3> QED
      BY <3>1
  <2>2. cnick[u] = <<u, 1>> /\ <<u, 1>> \in Conexiones
    BY <2>0, <2>1 DEF TipoInterfaz
  <2>3. CASE modo.serie
    <3>1. Fiable(u)
      BY DEF Fiable
    <3>2. VistaFiel
      BY QuietoFiel
    <3>3. EnCanal(u) /\ (<<u, 1>> \in Lista(u, Canal) <=> <<u, 1>> \in Nombres(miembros))
      BY <2>3, <3>1, <3>2 DEF VistaFiel
    <3>4. <<u, 1>> \in Nombres(miembros)
      BY <2>2 DEF Nombres
    <3> QED
      BY <2>2, <3>3, <3>4
  <2>4. CASE ~HayKick
    <3>1. UnaSola(u)
      BY <2>1 DEF UnaSola
    <3>2. hilo[<<u, 1>>] = <<>> /\ alCliente[<<u, 1>>] = <<>> /\ buffer[<<u, 1>>] = <<>>
      BY <2>2, <3>1 DEF Quieto, Lectura
    <3>3. Vera(u)
      BY <2>2, <2>4, <3>1 DEF Propia
    <3>4. Ve(u)
      BY <3>2, <3>3, ColaVacia DEF Vera, Recibira
    <3>5. <<u, 1>> \in Nicks
      BY DEF Nicks
    <3> QED
      BY <2>2, <3>4, <3>5 DEF Ve, Lista
  <2> QED
    BY <2>3, <2>4
<1> QED
  BY <1>1, FielSiempre, PropiaSiempre, TipoSiempre, EnvioSiempre, PTL
=============================================================================
