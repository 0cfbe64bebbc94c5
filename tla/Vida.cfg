\* The instants are those when the trips of the instance cross the street, meet
\* or go past midnight.
SPECIFICATION Spec
CONSTANTS
    Nada = Nada
    Tramas <- MCTramas
    Edificios <- MCEdificios
    Sorteos <- MCSorteos
    Ciudades <- MCCiudades
    Poblaciones <- MCPoblaciones
    Horas = {287700}
    Instantes <- MCInstantes
    Focos <- MCFocos
    Avances = {300}
    CacheMax = 1
    PodaCuadros = 1
    CalientaAntes = 600
    AvisoCebra = 40
    MaxAvance = 600
    Pasos = {1, 20}
    Nuevos = {0, 9}
    MaxCambios = 2
    MaxCiudades = 2
INVARIANTS
    WalksAreOfThePopulation
    PopulationIsOfTheCity
PROPERTIES
    StreetIsAFunctionOfTime
    MarkedCrossingsAreWalked
    NewPopulationComesOutWarm
    TurnsKeepStreetsApart
    StaffIsTheNearest
