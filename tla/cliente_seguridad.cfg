SPECIFICATION FairSpec
CONSTANTS
    a = a
    b = b
    Usuarios = {a, b}
    Conexiones <- ConexionesCliente
    Modos <- ModosCliente
CHECK_DEADLOCK FALSE
INVARIANTS ClienteTypeOK VistaFiel VistaPropia SinCruces
PROPERTIES TodoRespondido NickLiberado
