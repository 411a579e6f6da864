SPECIFICATION FairSpec
CONSTANTS
    Fds = {4, 5}
    sckt = 3
    principal = 0
    Hilos = {1, 2}
    PingPong = TRUE
    MaxConns = 3
    MaxBuffer = 2
    Seguros = {FALSE, TRUE}
    Guiones <- GuionesSinQuit
    Finales = {4}
    Restos = {"OTRO"}
INVARIANT
    DescriptorVigilado
PROPERTIES
    MensajeAtendido
    ConexionAceptada
CHECK_DEADLOCK FALSE
