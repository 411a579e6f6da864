SPECIFICATION SpecCliente
CONSTANTS
    MaxEnvios = 2
    MaxRecepciones = 1
    MaxHablan = 0
    MaxEscuchan = 0
    Nicks = {n1,n2}
    Modos <- ModosCancela
CHECK_DEADLOCK FALSE
INVARIANT CanceladoPorDestino
