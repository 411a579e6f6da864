SPECIFICATION Spec
CONSTANTS
    Fds = {4, 5}
    sckt = 3
    principal = 0
    Hilos = {1, 2}
    PingPong = FALSE
    MaxConns = 2
    MaxBuffer = 3
    Seguros = {FALSE, TRUE}
    Guiones <- GuionesConQuit
    Finales = {2, 3, 6}
    Restos <- Ordenes
INVARIANTS
    TypeOK
    UnHiloPorConexion
    TempsDelDuenno
    BDDelDuenno
    Identificada
    SelectValido
    SinPerdidas
    CanalDelDuenno
PROPERTY
    ImplementaServicio
CHECK_DEADLOCK FALSE
