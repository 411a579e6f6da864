SPECIFICATION Spec
CONSTANTS
    Fds = {4, 5}
    sckt = 3
    principal = 0
    Hilos = {1, 2, 3}
    PingPong = FALSE
    MaxConns = 2
    MaxBuffer = 3
    Seguros = {FALSE}
    Guiones <- GuionesConQuit
    Finales = {2, 4, 6}
    Restos = {"OTRO"}
INVARIANT
    DescriptorVigilado
CHECK_DEADLOCK FALSE
