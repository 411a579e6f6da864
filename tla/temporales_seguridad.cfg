SPECIFICATION Spec
CONSTANTS
    Hilos = {h1, h2}
    principal = h1
    Sockets = {s1, s2, s3}
    Nicks = {k1}
    Nodos = {n1, n2, n3}
    NULL = NULL
    Sigint = FALSE
SYMMETRY Simetria
INVARIANTS BienEnlazada SinUsoTrasLiberar SinFugas UnoPorSocket
PROPERTY ImplementaCola
