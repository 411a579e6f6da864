SPECIFICATION Spec
CONSTANTS
    ana = ana
    blas = blas
    ciro = ciro
    dina = dina
    Fds = {4, 5, 6}
    Nicks = {ana, blas, ciro, dina}
    Canal = canal
    MaxConns = 3
    Cierran = {2}
    Escenarios <- EscenariosMC
CHECK_DEADLOCK FALSE
INVARIANTS
    EntregaCompleta
    OperadorAutorizado
    NickDeUno
