------------------------- MODULE UsuariosTemporales -------------------------
(***************************************************************************)
(* What the list of temporary users promises to its callers: newTempUser,  *)
(* pullTempUser and deleteTempUser behave as if each happened at one       *)
(* instant between its call and its return, on a queue of users in order   *)
(* of arrival.  TempUserList implements it with pointers and a mutex.      *)
(***************************************************************************)
EXTENDS Naturals, Sequences

CONSTANTS Hilos, Sockets, Nicks, NULL

VARIABLES
    usuarios,   \* the queue: records with socket and nick
    op,         \* op[h]: the operation thread h waits for, or "nada"
    arg         \* arg[h]: its socket; NULL when the operation is over

vars == <<usuarios, op, arg>>

Usuario == [socket : Sockets, nick : Nicks \cup {NULL}]

(* The oldest user of a socket, if any, is the one in position i.          *)
EsPrimero(i, s) ==
    /\ i \in 1..Len(usuarios)
    /\ usuarios[i].socket = s
    /\ \A j \in 1..(i - 1) : usuarios[j].socket # s

SinPosicion(seq, i) ==
    [j \in 1..(Len(seq) - 1) |-> IF j < i THEN seq[j] ELSE seq[j + 1]]

Init ==
    /\ usuarios = <<>>
    /\ op = [h \in Hilos |-> "nada"]
    /\ arg = [h \in Hilos |-> NULL]

Pide(h, o, s) ==
    /\ op[h] = "nada"
    /\ op' = [op EXCEPT ![h] = o]
    /\ arg' = [arg EXCEPT ![h] = s]
    /\ UNCHANGED usuarios

(* Thread h's operation is over, or becomes another one on its socket.     *)
Sigue(h, o) ==
    /\ op' = [op EXCEPT ![h] = o]
    /\ arg' = [arg EXCEPT ![h] = IF o = "nada" THEN NULL ELSE @]

(* The new user goes last; there may be no memory for it.                  *)
New(h) ==
    /\ op[h] = "new"
    /\ Sigue(h, "nada")
    /\ usuarios' \in {usuarios, Append(usuarios, [socket |-> arg[h], nick |-> NULL])}

(* The caller gets the oldest user of its socket, or nothing.              *)
Pull(h) ==
    /\ op[h] = "pull"
    /\ Sigue(h, IF \E i \in 1..Len(usuarios) : usuarios[i].socket = arg[h]
                THEN "tiene" ELSE "nada")
    /\ UNCHANGED usuarios

(* The oldest user of the socket goes; the caller may create one next.     *)
Delete(h) ==
    /\ op[h] = "delete"
    /\ \E luego \in {"nada", "new"} : Sigue(h, luego)
    /\ \/ \E i \in 1..Len(usuarios) :
            EsPrimero(i, arg[h]) /\ usuarios' = SinPosicion(usuarios, i)
       \/ /\ \A i \in 1..Len(usuarios) : usuarios[i].socket # arg[h]
          /\ UNCHANGED usuarios

(* A caller that has a user gives it a nick, or only looks at it and may   *)
(* ask for its deletion.                                                   *)
PonNick(h) ==
    /\ op[h] = "tiene"
    /\ Sigue(h, "nada")
    /\ \E i \in 1..Len(usuarios), n \in Nicks :
            EsPrimero(i, arg[h]) /\ usuarios' = [usuarios EXCEPT ![i].nick = n]

Suelta(h) ==
    /\ op[h] = "tiene"
    /\ \E luego \in {"nada", "delete"} : Sigue(h, luego)
    /\ UNCHANGED usuarios

Next ==
    \E h \in Hilos :
        \/ \E o \in {"pull", "delete"}, s \in Sockets : Pide(h, o, s)
        \/ New(h)
        \/ Pull(h)
        \/ Delete(h)
        \/ PonNick(h)
        \/ Suelta(h)

Spec == Init /\ [][Next]_vars
=============================================================================
