SPECIFICATION Spec
CONSTANTS
  Nadie = Nadie
  Rutas0 <- MCRutas
  Escenas <- MCEscenas
  Sitios <- MCSitios
  Pasos <- MCPasos
  Turno = 350
  MaxRecoloca = 1
  Fin = 900
INVARIANT NoCrash
INVARIANT WaitIsBounded
INVARIANT PlayerNotHit
CHECK_DEADLOCK FALSE
