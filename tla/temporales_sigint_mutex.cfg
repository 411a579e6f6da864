SPECIFICATION SigintSpec
CONSTANTS
    Hilos = {h1, h2}
    principal = h1
    Sockets = {s1, s2}
    Nicks = {k1}
    Nodos = {n1, n2}
    NULL = NULL
    Sigint = TRUE
CHECK_DEADLOCK FALSE
PROPERTY SigintTermina
