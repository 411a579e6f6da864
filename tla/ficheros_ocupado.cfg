SPECIFICATION SpecCliente
CONSTANTS
    MaxEnvios = 2
    MaxRecepciones = 1
    MaxHablan = 0
    MaxEscuchan = 0
    Nicks = {n1}
    Modos <- ModosRecibe
CHECK_DEADLOCK FALSE
INVARIANT OcupadoSiEnvia
