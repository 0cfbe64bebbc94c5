SPECIFICATION Spec
CONSTANTS
  Nada = Nada
  Ana = Ana
  N = 2
  Celda = 200
  Huecos = 1
  MaxT = 6
  Horas = {3}
  Intentos <- MCIntentos
  Hitos <- MCHitos
  Fraccion <- MCFraccion
  Mar <- MCMar
  MediaPlanta <- MCMedia
  Portal <- MCPortal
  Insumos <- MCInsumos
  Tormentas <- MCTormentas
  PasoTravelling <- MCTravelling
  Guiones <- MCGuiones
  Ciudades <- MCCiudades
  Presencias <- MCPresencias
  Fantasmas <- MCFantasmas
  Destinos <- MCDestinos
  Tocados = {"mirar", "rami"}
  Poses <- MCPoses
INVARIANTS
  SolidsAreWhatIsDrawn
  MemoryIsOfTheCity
  StormDarkensOnce
PROPERTIES
  GivesBackThePose
  SoundButtonFlips
  SearchEnds
CHECK_DEADLOCK FALSE
