------------------------------- MODULE Extras -------------------------------
(***************************************************************************)
(* The module `extras` of the city viewer (city/extras.js): the synthetic  *)
(* sound and its button, the photo mode and the sand storm.  An operator   *)
(* takes the module's state `x` and the viewer's state `s`.                *)
(*   Tormentas  the storms of the calendar, [ini, fin], in quarters of an  *)
(*   hour   PasoTravelling  [giro, paso] of a frame of the travelling shot *)
(***************************************************************************)
EXTENDS Nucleo
CONSTANTS Tormentas, PasoTravelling

Rampa == 2      \* quarters of an hour a storm takes to rise and to fall
PasoMano == 5   \* tenths of strength a storm put by hand gains or loses in a frame

(***************************************************************************)
(* Sound.  The audio context is made by the first click that wants it; its *)
(* suspend and resume are promises (`orden`) the browser fulfils later.  A *)
(* browser that has no audio (~disco.audio) makes none, and the press is   *)
(* lost.                                                                   *)
(* With the preference on, the first gesture on the page switches it on,   *)
(* unless that gesture is the button's own.                                *)
(***************************************************************************)
Suspende(snd) == [snd EXCEPT !.orden = "suspended"]
Reanuda(snd) == [snd EXCEPT !.orden = "running"]
CreaAudio(snd) == IF snd.ac = Nada THEN [snd EXCEPT !.ac = "running"] ELSE snd
AplicaVolumen(snd) == [snd EXCEPT !.volumen = snd.ac # Nada /\ snd.activo]
Enciende(snd) == LET con == [CreaAudio(snd) EXCEPT !.activo = TRUE] IN IF con.ac = "running" THEN con ELSE Reanuda(con)
Apaga(snd) == [snd EXCEPT !.activo = FALSE, !.callar = TRUE]
PintaBotones(x) == [x EXCEPT !.boton = x.snd.activo]
AlternaSonido(x) ==
  LET snd == AplicaVolumen(IF x.snd.activo THEN Apaga(x.snd) ELSE Enciende(x.snd))
  IN IF ~x.snd.activo /\ x.snd.ac = Nada /\ ~x.disco.audio THEN x
     ELSE PintaBotones([x EXCEPT !.snd = snd, !.disco.sonido = snd.activo])
(* The timer set when it was switched off, 400 ms later. *)
Calla(x) ==
  LET snd == [x.snd EXCEPT !.callar = FALSE]
  IN [x EXCEPT !.snd = IF ~snd.activo /\ snd.ac = "running" THEN Suspende(snd) ELSE snd]
(* As it would be without looking at which button the gesture falls on. *)
PrimerGestoDeCualquiera(x, boton) ==
  LET visto == [x EXCEPT !.snd.gesto = FALSE]
  IN IF x.snd.gesto /\ x.disco.sonido = TRUE /\ ~x.snd.activo THEN AlternaSonido(visto) ELSE visto
PrimerGesto(x, boton) ==
  LET visto == [x EXCEPT !.snd.gesto = FALSE]
  IN IF ~x.snd.gesto THEN x
     ELSE IF boton # "sonido" /\ x.disco.sonido = TRUE /\ ~x.snd.activo THEN AlternaSonido(visto) ELSE visto
VisibilidadSonido(x, oculto) ==
  IF x.snd.ac = Nada THEN x
  ELSE [x EXCEPT !.snd = IF oculto THEN Suspende(@) ELSE IF @.activo THEN Reanuda(@) ELSE @]
CumpleOrden(x) == [x EXCEPT !.snd.ac = x.snd.orden, !.snd.orden = Nada]
(* The watchman, each second: a view that draws nothing is silent. *)
Vigia(x) == IF x.snd.ac # Nada /\ x.snd.activo THEN [x EXCEPT !.snd.volumen = FALSE] ELSE x
Suena(x) == x.snd.ac = "running" /\ x.snd.activo
Andado(a, b) == Magnitud(a[1] - b[1]) + Magnitud(a[2] - b[2])
ActualizaSonido(x, s) ==
  LET aPie == s.mode = "walk" /\ s.fly < 2 /\ ~s.xr
      paso == x.snd.pasoPrev # Nada /\ Andado(x.snd.pasoPrev, s.pos) \in 1..19
  IN IF ~Suena(x) THEN x
     ELSE [x EXCEPT !.snd = [AplicaVolumen(@) EXCEPT !.pasoPrev = IF aPie THEN s.pos ELSE Nada, !.paso = aPie /\ paso]]

(***************************************************************************)
(* The photo mode.  It keeps the whole pose and the style of the container *)
(* on entering and gives them back on leaving; in between no label and no  *)
(* mark of the selection is drawn.  `rotulos` are the sets of labels of the *)
(* scene.                                                                   *)
(***************************************************************************)
FotoApagada == [activo |-> FALSE, pendiente |-> FALSE, travelling |-> FALSE, guardado |-> Nada, ocultas |-> {}, objetos |-> {}, capturas |-> 0]
MarcasSeleccion == {"hover", "selFill", "selLoop"}
OcultaEtiquetas(x, s, rotulos) ==
  [x |-> [x EXCEPT !.foto.ocultas = @ \cup rotulos, !.foto.objetos = @ \cup (s.visibles \cap MarcasSeleccion)],
   s |-> [s EXCEPT !.visibles = @ \ MarcasSeleccion]]
EntraFoto(x, s, rotulos) ==
  LET dentro == [x EXCEPT !.foto.activo = TRUE, !.foto.guardado = PoseDe(s), !.pantalla = "foto", !.escape = TRUE]
      sinRotulos == OcultaEtiquetas(dentro, s, rotulos)
  IN IF x.foto.activo \/ ~s.ready \/ s.xr THEN [x |-> x, s |-> s]
     ELSE [sinRotulos EXCEPT !.x = PintaBotones(@)]
(* Leaving: the pose goes back once the mode of entering is back, and never  *)
(* under a headset.                                                          *)
DevuelvePose(s, g) ==
  LET aPie == [s EXCEPT !.pos = g.pos, !.yaw = g.yaw, !.fly = g.fly]
  IN IF s.xr THEN s
     ELSE IF g.mode = "walk" THEN aPie ELSE [aPie EXCEPT !.cur = g.cur, !.goal = g.goal, !.flight = g.flight]
CierraFoto(x) == PintaBotones([x EXCEPT !.foto = [FotoApagada EXCEPT !.travelling = x.foto.travelling, !.capturas = x.foto.capturas, !.guardado = x.foto.guardado],
                                        !.pantalla = "panel", !.escape = FALSE])
MuestraMarcas(x, s) == [s EXCEPT !.visibles = @ \cup x.foto.objetos]
AlturaLibre(s) == [s EXCEPT !.fly = IF @ >= 2 THEN 0 ELSE 40]
Travelling(x, s) ==
  LET gira(v) == [v EXCEPT !.v = Vuelta360(@ + PasoTravelling.giro)]
      p == <<s.pos[1] + PasoTravelling.paso, s.pos[2]>>
  IN IF ~x.foto.travelling \/ p[1] > N * Celda THEN s      \* the edge of the map bounds the walk
     ELSE IF s.mode # "walk" THEN [s EXCEPT !.goal = gira(@), !.cur = gira(@)]
     ELSE [s EXCEPT !.pos = IF s.fly < 2 THEN EmpujarFuera(s.catastro, p, 1) ELSE p]
(* One frame of the photo; every sixteenth also hides what has appeared      *)
(* since.                                                                    *)
CuadroFoto(x, s, rotulos, decimosexto) ==
  LET limpia == IF decimosexto THEN OcultaEtiquetas(x, s, rotulos) ELSE [x |-> x, s |-> s]
      sin == [limpia.s EXCEPT !.visibles = @ \ limpia.x.foto.objetos]
  IN IF ~x.foto.activo THEN [x |-> x, s |-> s] ELSE [x |-> limpia.x, s |-> Travelling(x, sin)]
(* After the drawing, a picture asked for is taken from the canvas. *)
TrasPintar(x) == IF x.foto.activo /\ x.foto.pendiente THEN [x EXCEPT !.foto.pendiente = FALSE, !.foto.capturas = @ + 1] ELSE x

(***************************************************************************)
(* The storm.  The calendar is the same for everyone; a player may take    *)
(* away the storm of now, or put one when there is none.  Each frame takes *)
(* from the light the sun left, never from the light already taken from.   *)
(***************************************************************************)
Calendario(t) ==
  LET soplan == {c \in Tormentas : c.ini <= t /\ t < c.fin}
      k(c) == Min({10, ((t - c.ini) * 10) \div Rampa, ((c.fin - t) * 10) \div Rampa})
  IN IF soplan = {} THEN 0 ELSE k(CHOOSE c \in soplan : TRUE)
TormentaEnCurso(t) == {c \in Tormentas : c.ini <= t /\ t < c.fin}
BotonTormenta(x, t) ==
  LET cal == TormentaEnCurso(t)
      fin == (CHOOSE c \in cal : TRUE).fin
      tor == x.tormenta
      puesta == IF tor.forzada = TRUE THEN [tor EXCEPT !.forzada = Nada]
                ELSE IF cal = {} THEN [tor EXCEPT !.forzada = TRUE]
                ELSE [tor EXCEPT !.quitadaHasta = IF @ >= fin THEN 0 ELSE fin]
  IN PintaBotones([x EXCEPT !.tormenta = puesta])
(* The same from the panel's tests: TRUE puts one at full strength, FALSE    *)
(* takes every one away, Nada obeys the calendar.                            *)
PonTormenta(x, v) == PintaBotones([x EXCEPT !.tormenta.forzada = v, !.tormenta.quitadaHasta = 0, !.tormenta.kMano = IF v = TRUE THEN 10 ELSE 0])
GuardaBaseSol(x, luz) == [x EXCEPT !.tormenta.base = luz]
Atenua(luz, k) == [luz EXCEPT !.k = Min({10, @ + k})]
RestauraTormenta(x, s) ==
  [x |-> [x EXCEPT !.tormenta.aplicada = FALSE, !.tormenta.arena = FALSE],
   s |-> [s EXCEPT !.luz = IF x.tormenta.base = Nada THEN @ ELSE x.tormenta.base]]
(* As it would be if each frame darkened the light it finds. *)
CuadroTormentaSobreLoPuesto(x, s, t) ==
  LET k == IF x.tormenta.forzada = FALSE THEN 0 ELSE Calendario(t)
      medida == [x EXCEPT !.tormenta.k = k]
  IN IF k = 0 THEN (IF x.tormenta.aplicada THEN RestauraTormenta(medida, s) ELSE [x |-> medida, s |-> s])
     ELSE [x |-> [medida EXCEPT !.tormenta.aplicada = TRUE, !.tormenta.arena = TRUE], s |-> [s EXCEPT !.luz = Atenua(s.luz, k), !.niebla = TRUE]]
CuadroTormenta(x, s, t) ==
  LET tor == x.tormenta
      kMano == Tope(tor.kMano + (IF tor.forzada = TRUE THEN PasoMano ELSE -PasoMano), 0, 10)
      k == IF tor.forzada = FALSE THEN 0 ELSE Max({kMano, IF t < tor.quitadaHasta THEN 0 ELSE Calendario(t)})
      medida == [x EXCEPT !.tormenta.kMano = kMano, !.tormenta.k = k]
      base == IF tor.base = Nada THEN s.luz ELSE tor.base
  IN IF k = 0 THEN (IF tor.aplicada THEN RestauraTormenta(medida, s) ELSE [x |-> medida, s |-> s])
     ELSE [x |-> [medida EXCEPT !.tormenta.base = base, !.tormenta.aplicada = TRUE, !.tormenta.arena = TRUE],
           s |-> [s EXCEPT !.luz = Atenua(base, k), !.niebla = TRUE]]
ExtrasNuevo(disco) ==
  [snd |-> [ac |-> Nada, activo |-> FALSE, volumen |-> FALSE, callar |-> FALSE, orden |-> Nada, gesto |-> disco.sonido = TRUE, pasoPrev |-> Nada, paso |-> FALSE],
   foto |-> FotoApagada, pantalla |-> "panel", escape |-> FALSE,
   tormenta |-> [forzada |-> Nada, quitadaHasta |-> 0, kMano |-> 0, k |-> 0, base |-> Nada, aplicada |-> FALSE, arena |-> FALSE],
   boton |-> FALSE, disco |-> disco]
=============================================================================
