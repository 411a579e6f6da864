SPECIFICATION FairSpec
CONSTANTS
    Fds = {4, 5}
    sckt = 3
    principal = 0
    Hilos = {1, 2, 3}
    PingPong = FALSE
    MaxConns = 3
    MaxBuffer = 3
    Seguros = {FALSE}
    Guiones <- GuionesSinQuit
    Finales = {2, 4, 6}
    Restos = {"OTRO"}
PROPERTY
    SelectActualizado
CHECK_DEADLOCK FALSE
