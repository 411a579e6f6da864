SPECIFICATION FairSpecCliente
CONSTANTS
    MaxEnvios = 2
    MaxRecepciones = 2
    MaxHablan = 2
    MaxEscuchan = 1
    Nicks = {n1}
    Modos <- ModosSeguridad
CHECK_DEADLOCK FALSE
INVARIANTS AudioTypeOK UnSoloEnvio DatosPropios OcupadoSiRecibe TodoDevuelto UnaRecepcion LibreTrasEnviar OcupadoSiHabla UnaEmision AudioDevuelto
PROPERTIES EsperaAcotada SenalTermina
