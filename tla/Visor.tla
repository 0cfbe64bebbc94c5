------------------------------- MODULE Visor -------------------------------
(***************************************************************************)
(* The city viewer with the modules `extras` and `memoria` mounted: the    *)
(* calls of the panel, the player's gestures, the frames of the loop and   *)
(* the hooks by which the core tells the modules what has changed.         *)
(*   s, mem, ext  the state of the core and of each module                 *)
(*   t  the clock of Dubai, in quarters of an hour   idioma, dentro  the   *)
(*   language of the panel and whether the visitor is inside a house       *)
(*   guion  the kind of session being played and the calls it has left     *)
(*   antes  the pose on entering the photo and on starting the measure     *)
(*   paso  what the last step was, with the parity of the frames           *)
(* Guiones  the sessions, [llamadas, max, discos, ancho, cuadros]: the calls *)
(* of its player, how many at most, what the disk may hold, the width of   *)
(* the container and the frames it meets.  Ciudades, Presencias, Fantasmas, *)
(* Poses, Horas, Destinos (cells) and Tocados (steps of the guide) are what *)
(* the calls are made with; the clock stops at MaxT.                       *)
(***************************************************************************)
EXTENDS Memoria, Extras
CONSTANTS Guiones, Ciudades, Presencias, Fantasmas, Poses, Horas, Destinos, Tocados, MaxT
(* What the node sends as a parcel, and the lights the viewer computes. *)
CamposParcela == {"celda", "kind", "owner", "since", "name", "handle", "pending", "sale", "distrito"}
Luces == [hora : Horas \cup 0..MaxT, k : 0..10]
(* The city has 35 districts (rami-core ciudad.rs NDISTRITOS), fewer than    *)
(* the labels of the errands; a view that is not there is told from one that *)
(* is.                                                                       *)
ASSUME NadaAssumption == Nada # "running"
ASSUME VisorAssumption ==
  /\ "media" \in DOMAIN Fraccion
  /\ MaxT \in Nat /\ Huecos \in Nat
  /\ \A c \in Tormentas : c.ini \in Int /\ c.fin \in Int
  /\ Nada \notin Luces /\ Nada \notin Ciudades
  /\ \A d \in Ciudades :
       /\ FirmaCiudad(d) # Nada
       /\ d.parcels \in Seq(ToSet(d.parcels))
       /\ \A i \in DOMAIN d.parcels : DOMAIN d.parcels[i] = CamposParcela /\ d.parcels[i].kind \in DOMAIN MediaPlanta
       /\ Cardinality({d.parcels[i].distrito : i \in DOMAIN d.parcels}) <= MaxEtiquetas
VARIABLES s, mem, ext, t, idioma, dentro, guion, antes, paso
vars == <<s, mem, ext, t, idioma, dentro, guion, antes, paso>>

NucleoNuevo ==
  [ready |-> FALSE, city |-> Nada, pending |-> Nada, aplicada |-> Nada, parcelAt |-> Nada, cellState |-> Nada,
   quality |-> "media", oculto |-> {}, edificios |-> Nada, barrios |-> Nada, catastro |-> Nada, parcelas |-> <<>>, saleRings |-> <<>>,
   saleLabels |-> SinEtiquetas, ownerLabels |-> SinEtiquetas, selLabel |-> SinEtiquetas, avatarLabels |-> SinEtiquetas,
   avatars |-> <<>>, avatarOrder |-> <<>>, ghosts |-> <<>>, fantasmas |-> <<>>, sel |-> Nada, hover |-> Nada, visibles |-> {}, grid |-> FALSE,
   mode |-> "orbit", cur |-> Vista(<<0, 0>>, 23, 1000), goal |-> Vista(<<0, 0>>, 23, 1000), flight |-> Nada, pendingFlight |-> Nada,
   pos |-> <<0, 0>>, yaw |-> 0, fly |-> 0, xr |-> FALSE, rig |-> RigNuevo,
   hour |-> Nada, luz |-> SinAtenuar(0), niebla |-> FALSE, visible |-> TRUE, docHidden |-> FALSE, disposed |-> FALSE, raf |-> TRUE, bench |-> SinMedida]
Escena(m) == {"sel", "sale", "owner", "avatar", "ghost", "towns"} \cup (IF m.encLabels = Nada THEN {} ELSE {"encargos"})

(***************************************************************************)
(* The hooks, and the calls of the core that go through them.              *)
(***************************************************************************)
EmitirModo(e) == [e EXCEPT !.x = PintaBotones(@), !.m = MemModo(@, e.s)]
EmitirCiudad(e, d) == [e EXCEPT !.m = MemCiudad(@, e.s, d)]
EmitirSol(e) == [e EXCEPT !.x = GuardaBaseSol(@, e.s.luz)]
EmitirListo(e) == [e EXCEPT !.m = MemListo(@, e.s)]
SetMode(e, m) == IF e.s.mode = m THEN e ELSE EmitirModo([e EXCEPT !.s = PonModo(@, m)])
UpdateSun(e) == EmitirSol([e EXCEPT !.s = PonLuz(@, t)])
AplicaCiudad(e, d) == EmitirCiudad([e EXCEPT !.s = ApplyCity(@, d)], d)
(* A flight: before the map has loaded it waits, the last asked for alone; a *)
(* view of the whole takes the visitor off his feet.                         *)
Vuela1(e, v) ==
  CASE ~e.s.ready -> [e EXCEPT !.s.pendingFlight = v]
    [] e.s.ready /\ v.fn = "celda" -> [e EXCEPT !.s = FlyTo(@, v.arg)]
    [] e.s.ready /\ v.fn = "hito" -> IF Hitos = <<>> THEN e ELSE [e EXCEPT !.s = FlyToLandmark(@, Hitos[1])]
    [] e.s.ready /\ v.fn \in {"skyline", "city"} -> [SetMode(e, "orbit") EXCEPT !.s = Fly(@, IF v.fn = "city" THEN CityView ELSE SkylineView)]
(* What waited for the map: the last city, then the last flight. *)
CiudadPendiente(e) ==
  LET d == IF e.s.pending # Nada THEN e.s.pending ELSE e.s.city IN IF d = Nada THEN e ELSE [AplicaCiudad(e, d) EXCEPT !.s.pending = Nada]
VueloPendiente(e) == IF e.s.pendingFlight = Nada THEN e ELSE Vuela1([e EXCEPT !.s.pendingFlight = Nada], e.s.pendingFlight)
Listo(e) == [e EXCEPT !.s.ready = TRUE]
Repone(e) == [e EXCEPT !.s = RebuildAvatarLabels(RefreshSelection(SetGhosts(@, @.ghosts)))]
BuildWorld(e) == VueloPendiente(EmitirListo(Repone(CiudadPendiente(Listo(UpdateSun([e EXCEPT !.s = Mundo(@)]))))))
(* As it would be if the pose went back before the mode. *)
SaleFotoAntesDelModo(e) ==
  LET g == e.x.foto.guardado
      vuelta == [e EXCEPT !.x.foto.activo = FALSE, !.s = MuestraMarcas(e.x, DevuelvePose(@, g))]
  IN IF ~e.x.foto.activo THEN e ELSE [SetMode(vuelta, IF e.s.xr THEN e.s.mode ELSE g.mode) EXCEPT !.x = CierraFoto(@)]
SaleFoto(e) ==
  LET g == e.x.foto.guardado
      cerrada == [e EXCEPT !.x.foto.activo = FALSE]
  IN IF ~e.x.foto.activo THEN e
     ELSE [SetMode(cerrada, IF e.s.xr THEN e.s.mode ELSE g.mode) EXCEPT !.s = MuestraMarcas(e.x, DevuelvePose(@, g)), !.x = CierraFoto(@)]
EntrarVR(e) == SaleFoto([e EXCEPT !.s = EnterVR(@)])
BenchFin(e) ==
  LET g == e.s.bench.guardado IN [SetMode([e EXCEPT !.s.bench = SinMedida], g.mode) EXCEPT !.s = BenchDevuelve(@, g)]
(* A frame of the measure: the next view, or, once its second of warming or  *)
(* its time is over, the next phase.                                         *)
BenchFrame(e, pasa) ==
  LET b == e.s.bench
      i == b.i + 1
      modo(v) == IF v = "a_pie" THEN "walk" ELSE "orbit"
  IN IF ~b.activo THEN e
     ELSE IF b.fase = 2 THEN
       IF i > Len(VistasBench) THEN BenchFin(e)
       ELSE [SetMode(e, modo(VistasBench[i])) EXCEPT !.s = [PonBench(@, VistasBench[i]) EXCEPT !.bench.i = i, !.bench.fase = 0]]
     ELSE IF pasa THEN [e EXCEPT !.s.bench.fase = @ + 1] ELSE e

(***************************************************************************)
(* A frame.  On the screen: the camera, the sun every two seconds, the     *)
(* modules in the order they were mounted, the cull of the labels, what is *)
(* under the pointer, the drawing and the measure.  In the headset the sun *)
(* comes after the modules and no label is culled.  `f` is what the frame  *)
(* meets: [llega, mov, sol, decimosexto, segundo, choca, pasa].            *)
(***************************************************************************)
(* The state of the viewer with what an operator of a module has left of it  *)
(* and of the module.                                                        *)
Deja(e, r) == [n \in DOMAIN e |-> IF n \in DOMAIN r THEN r[n] ELSE e[n]]
Foto(e, f) == Deja(e, CuadroFoto(e.x, e.s, Escena(e.m), f.decimosexto))
Sonido(e) == [e EXCEPT !.x = ActualizaSonido(@, e.s)]
CuadroExtras(e, f) == Sonido(Foto(Deja(e, CuadroTormenta(e.x, e.s, t)), f))
Segundo(e, f) == IF f.segundo THEN [e EXCEPT !.m = CadaSegundo(@, e.s, idioma, dentro)] ELSE e
CuadroMemoria(e, f) == Segundo(Deja(e, MemCuadro(e.m, e.s, 1)), f)
EmitirCuadro(e, f) == CuadroMemoria(CuadroExtras(e, f), f)
CullLabels(e, f) ==
  IF e.m.encLabels = Nada THEN e
  ELSE [e EXCEPT !.m.encLabels = Cull(@, IF f.choca THEN DOMAIN @.items ELSE {})]
Sol(e, f) == IF f.sol THEN UpdateSun(e) ELSE e
Mira(e, f) == [e EXCEPT !.s = [UpdateCamera(@, f.llega, f.mov) EXCEPT !.niebla = FALSE]]
Pinta(e, f) == [CullLabels(EmitirCuadro(Sol(Mira(e, f), f), f), f) EXCEPT !.x = TrasPintar(@)]
Cuadro(e, f) == BenchFrame(IF e.s.ready THEN Pinta(e, f) ELSE e, f.pasa)
XrFrame(e, f) ==
  LET p == <<e.s.rig.pos[1] + f.mov[1], e.s.rig.pos[2] + f.mov[2]>>
  IN Sol(EmitirCuadro([e EXCEPT !.s = XrInput(@, p, 0)], f), f)

(***************************************************************************)
(* The behaviour: the calls of a session, in any order, and its frames.    *)
(***************************************************************************)
Todo == [s |-> s, m |-> mem, x |-> ext]
Pon(e) == s' = e.s /\ mem' = e.m /\ ext' = e.x
Juega(llamada) == llamada \in guion.llamadas /\ guion.max > 0 /\ guion' = [guion EXCEPT !.max = @ - 1]
Es(que) == paso' = [paso EXCEPT !.que = que]
(* A gesture on the page is also the first one, and `boton` the button it    *)
(* falls on, if any.                                                         *)
ConGesto(e, boton) == [e EXCEPT !.x = PrimerGesto(@, boton)]
Init ==
  /\ s = NucleoNuevo
  /\ t = 0 /\ idioma = "es" /\ dentro = FALSE /\ antes = [foto |-> Nada, medida |-> Nada] /\ paso = [que |-> "otro", n |-> 0]
  /\ guion \in Guiones
  /\ \E disco \in guion.discos :
       mem = MemoriaNueva([guia |-> disco.guia, enc |-> disco.enc], guion.ancho, "es") /\ ext = ExtrasNuevo([sonido |-> disco.sonido, audio |-> disco.audio])

(* The map has loaded: the world is built, once. *)
Carga == ~s.ready /\ ~s.disposed /\ Pon(BuildWorld(Todo))
PideCiudad(d) ==
  LET puesta == [Todo EXCEPT !.s = SetCity(@, d)] IN Pon(IF d = s.city \/ ~s.ready THEN puesta ELSE AplicaCiudad(puesta, d))
PideModo(m) == Pon(SetMode(Todo, m))
PidePose(p) == s.ready /\ Pon([SetMode(Todo, "walk") EXCEPT !.s = PoseAPie(@, p)])
PideCalidad(q) == Pon([Todo EXCEPT !.s = SetQuality(@, q)])
PideHora(h) == Pon(UpdateSun([Todo EXCEPT !.s.hour = h]))
Elige(c) == s.ready /\ Pon([ConGesto(Todo, Nada) EXCEPT !.s = DoSelect(@, c, TRUE)])
Senala(c) == s.ready /\ Pon([Todo EXCEPT !.s = SetHover(@, c)])
(* The wheel or a drag; on the view from above, one long enough is a step of *)
(* the guide.                                                                *)
Ven(largo) ==
  ~s.xr /\ Pon([ConGesto(Todo, Nada) EXCEPT !.s = CancelFlight(@), !.m = MarcaSi(@, "mirar", largo /\ s.mode = "orbit")])
EntraEnFoto ==
  LET en == EntraFoto(ext, s, Escena(mem))
  IN /\ ~ext.foto.activo /\ s.ready /\ ~s.xr
     /\ Pon([Todo EXCEPT !.s = en.s, !.x = en.x]) /\ antes' = [antes EXCEPT !.foto = PoseDe(s)]
SaleDeFoto == ext.foto.activo /\ Pon(SaleFoto(Todo))
CamaraLibre ==
  /\ ext.foto.activo
  /\ LET e == SetMode(Todo, "walk") IN Pon([e EXCEPT !.s = AlturaLibre(@), !.x = PintaBotones(@)])
PideTravelling == ext.foto.activo /\ Pon([Todo EXCEPT !.x.foto.travelling = ~@])
PideFoto == ext.foto.activo /\ ~ext.foto.pendiente /\ Pon([Todo EXCEPT !.x.foto.pendiente = TRUE])
PulsaSonido == ext.pantalla = "panel" /\ Pon([ConGesto(Todo, "sonido") EXCEPT !.x = AlternaSonido(@)])
PulsaTormenta == ext.pantalla = "panel" /\ Pon([ConGesto(Todo, "tormenta") EXCEPT !.x = BotonTormenta(@, t)])
PideTormenta(v) == Pon([Todo EXCEPT !.x = PonTormenta(@, v)])
PulsaLista(i) ==
  LET tras == ClicLista(mem, s, i)
  IN mem.listaVista # Nada /\ i \in DOMAIN mem.listaVista /\ Pon([ConGesto(Todo, "lista") EXCEPT !.s = tras.s, !.m = tras.m])
PulsaEncargos == Pon([ConGesto(Todo, "encargos") EXCEPT !.m = ClicEncargos(@, s)])
PulsaGuia == Pon([ConGesto(Todo, "guia") EXCEPT !.m = AbreGuia(@, ~@.guiaOn)])
PulsaPaso(id) == mem.guiaOn /\ Pon([ConGesto(Todo, "guia") EXCEPT !.m = Marca(@, id, id \notin @.progreso.h)])
LlegaJugador == \E perfil \in BOOLEAN, saldo \in 0..1 : Pon([Todo EXCEPT !.m = Jugador(@, perfil, saldo)])
PonGafas == s.ready /\ ~s.xr /\ Pon(EntrarVR(Todo))
QuitaGafas == s.xr /\ Pon([Todo EXCEPT !.s = RestoreDesktop(@)])
(* The session is granted and cannot be set up: the screen is restored with  *)
(* the glasses still at the origin of the map.                               *)
FallanGafas == s.ready /\ ~s.xr /\ Pon([Todo EXCEPT !.s = RestoreDesktop(@)])
Mide == s.ready /\ ~s.xr /\ ~s.bench.activo /\ Pon([Todo EXCEPT !.s.bench = BenchNuevo(s)]) /\ antes' = [antes EXCEPT !.medida = PoseDe(s)]
Esconde(b) == Pon([Todo EXCEPT !.s = Visibility(@, b), !.x = VisibilidadSonido(@, b)])
Muestra(b) == Pon([Todo EXCEPT !.s = SetVisible(@, b)])
(* The viewer is closed and opened again: only the disk, and the style of    *)
(* the container, outlive it.                                                *)
Remonta ==
  /\ ~s.xr /\ antes' = [foto |-> Nada, medida |-> Nada]
  /\ s' = NucleoNuevo /\ mem' = MemoriaNueva(mem.disco, guion.ancho, idioma)
  /\ ext' = [ExtrasNuevo(ext.disco) EXCEPT !.pantalla = ext.pantalla]

Vuelos == {[fn |-> "celda", arg |-> c] : c \in Destinos} \cup {[fn |-> f, arg |-> Nada] : f \in {"hito", "skyline", "city"}}
Llamada ==
  \/ Juega("ciudad") /\ \E d \in Ciudades : PideCiudad(d)
  \/ Juega("modo") /\ \E m \in {"walk", "orbit"} : PideModo(m)
  \/ Juega("pose") /\ \E p \in Poses : PidePose(p)
  \/ Juega("calidad") /\ \E q \in DOMAIN Fraccion : PideCalidad(q)
  \/ Juega("hora") /\ \E h \in Horas \cup {Nada} : PideHora(h)
  \/ Juega("elige") /\ \E c \in Destinos \cup {Nada} : Elige(c)
  \/ Juega("senala") /\ \E c \in Destinos \cup {Nada} : Senala(c)
  \/ Juega("vuela") /\ \E v \in Vuelos : Pon(Vuela1(Todo, v))
  \/ Juega("mueve") /\ \E largo \in BOOLEAN : Ven(largo)
  \/ Juega("gente") /\ \E l \in Presencias : Pon([Todo EXCEPT !.s = SetPresence(@, l)])
  \/ Juega("fantasmas") /\ \E l \in Fantasmas : Pon([Todo EXCEPT !.s = SetGhosts(@, l)])
  \/ Juega("foto") /\ (SaleDeFoto \/ CamaraLibre \/ PideTravelling \/ PideFoto)
  \/ Juega("tormenta") /\ (PulsaTormenta \/ \E v \in {TRUE, FALSE, Nada} : PideTormenta(v))
  \/ Juega("lista") /\ \E i \in DOMAIN mem.lista : PulsaLista(i)
  \/ Juega("encargos") /\ PulsaEncargos
  \/ Juega("guia") /\ (PulsaGuia \/ (\E id \in Tocados : PulsaPaso(id)) \/ LlegaJugador)
  \/ Juega("gafas") /\ (PonGafas \/ QuitaGafas \/ FallanGafas)
  \/ Juega("esconde") /\ \E b \in BOOLEAN : Esconde(b) \/ Muestra(b)
(* The walks are bounded by the grid. *)
Cabe(p, mov) == \A eje \in 1..2 : p[eje] + mov[eje] \in 0..N * Celda
Dibuja(f) == s.raf /\ (s.mode = "walk" => Cabe(s.pos, f.mov)) /\ Pon(Cuadro(Todo, f))
DibujaVR(f) == s.xr /\ Cabe(s.rig.pos, f.mov) /\ Pon(XrFrame(Todo, f))
(* What the page does by itself: the timer that silences, the promises of    *)
(* the audio, the watchman, the clock.                                       *)
Navegador ==
  \/ ext.snd.callar /\ Pon([Todo EXCEPT !.x = Calla(@)])
  \/ ext.snd.orden # Nada /\ Pon([Todo EXCEPT !.x = CumpleOrden(@)])
  \/ ~s.raf /\ Pon([Todo EXCEPT !.x = Vigia(@)])
Siguiente ==
  \/ Llamada /\ Es("otro") /\ UNCHANGED <<t, idioma, dentro, antes>>
  \/ Juega("sonido") /\ PulsaSonido /\ Es("sonido") /\ UNCHANGED <<t, idioma, dentro, antes>>
  \/ Juega("foto") /\ EntraEnFoto /\ Es("otro") /\ UNCHANGED <<t, idioma, dentro>>
  \/ Juega("medida") /\ Mide /\ Es("otro") /\ UNCHANGED <<t, idioma, dentro>>
  \/ Juega("remonta") /\ Remonta /\ Es("otro") /\ UNCHANGED <<t, idioma, dentro>>
  \/ Juega("idioma") /\ idioma' \in {"es", "en"} /\ Es("otro") /\ UNCHANGED <<s, mem, ext, t, dentro, antes>>
  \/ Juega("casa") /\ s.mode = "walk" /\ dentro' = ~dentro /\ Es("otro") /\ UNCHANGED <<s, mem, ext, t, idioma, antes>>
  \/ Carga /\ Es("otro") /\ UNCHANGED <<t, idioma, dentro, guion, antes>>
  \/ Navegador /\ Es("otro") /\ UNCHANGED <<t, idioma, dentro, guion, antes>>
  \/ t < MaxT /\ "tormenta" \in guion.llamadas /\ t' = t + 1 /\ Es("otro") /\ UNCHANGED <<s, mem, ext, idioma, dentro, guion, antes>>
EsCuadro(f) == paso' = [que |-> IF s.xr THEN "gafas" ELSE IF f.llega THEN "llega" ELSE "cuadro", n |-> 1 - paso.n]
Cuadros == \E f \in guion.cuadros : (Dibuja(f) \/ DibujaVR(f)) /\ EsCuadro(f) /\ UNCHANGED <<t, idioma, dentro, guion, antes>>
Next == Siguiente \/ Cuadros
(* The loop goes on drawing, and a flight lasts a time fixed when it is      *)
(* asked for: a frame after its end always comes.                            *)
Fairness == WF_paso(s.raf /\ paso' = [que |-> "llega", n |-> 1 - paso.n])
Spec == Init /\ [][Next]_vars /\ Fairness

(***************************************************************************)
(* Properties.                                                             *)
(***************************************************************************)
(* The register of solids, which stops the walker and answers the pointer, *)
(* is what is drawn: the landmarks, the buildings of the quarters this     *)
(* quality draws and no parcel hides, and the parcels of the city of now,  *)
(* each once and in every square it touches, whatever the order in which   *)
(* cities, qualities and the map arrive (city3d.js applyCity,              *)
(* buildClusters, catastroQuita).                                          *)
SolidsAreWhatIsDrawn ==
  LET cat == s.catastro
      items == cat.items
      deCiudad == IF s.city = Nada THEN <<>> ELSE ParcelasSolidas(s.city)
      quedan == IF s.city = Nada THEN {} ELSE Ocultos(s.edificios, s.city)
  IN s.ready =>
       /\ ToSet(items) = ToSet(Hitos) \cup ToSet(Dibujados(s.edificios, s.quality, quedan)) \cup ToSet(deCiudad)
       /\ Cardinality(ToSet(items)) = Len(items)
       /\ \A i \in DOMAIN items : \A k \in Toca(items[i]) : i \in ToSet(cat.bins[k])
       /\ \A k \in DOMAIN cat.bins : ToSet(cat.bins[k]) \subseteq DOMAIN items

(* What `memoria` shows is of the city applied: the errands, their labels  *)
(* and the plaques, and a place that still shows a plaque shows one of     *)
(* this city as it is now, although the module skips a city whose          *)
(* signature has not changed and keeps the plaques painted (memoria.js     *)
(* firmaCiudad, calculaPlacas, actualizaPlacas).                           *)
MemoryIsOfTheCity ==
  s.ready /\ s.city # Nada =>
    /\ mem.lista = Encargos(s.city)
    /\ mem.placas = Placas(s.city)
    /\ {e.distrito : e \in ToSet(mem.encLabels.items)} = {e.distrito : e \in ToSet(mem.lista)}
    /\ \A i \in PlacasVisibles(mem) : mem.huecos[i].placa \in ToSet(mem.placas)

(* A frame on the screen leaves the light of the sun attenuated by the     *)
(* storm once and by the strength of now, and with no storm untouched,     *)
(* although the sun is recomputed every two seconds and at every hour the  *)
(* player fixes, and the storm darkens what it finds (extras.js            *)
(* guardaBaseSol, cuadroTormenta, restauraTormenta).                       *)
StormDarkensOnce ==
  s.ready /\ paso.que \in {"cuadro", "llega"} =>
    s.luz.k = ext.tormenta.k /\ s.niebla = (ext.tormenta.k > 0) /\ ext.tormenta.arena = (ext.tormenta.k > 0)

(* The photo and the fluency measure give back the pose they were entered  *)
(* with: the same mode; on foot the same place and heading; in orbit the   *)
(* same view and the flight that was under way (extras.js entraFoto,       *)
(* saleFoto; city3d.js bench, benchFin).                                   *)
MismaPose(p, q) ==
  IF p.mode = "walk" THEN q.mode = "walk" /\ <<q.pos, q.yaw, q.fly>> = <<p.pos, p.yaw, p.fly>>
  ELSE <<q.mode, q.cur, q.goal, q.flight>> = <<p.mode, p.cur, p.goal, p.flight>>
SaleDeLaFoto == ext.foto.activo /\ ~ext'.foto.activo /\ ~s.xr /\ ~s'.xr
AcabaLaMedida == s.bench.activo /\ ~s'.bench.activo
GivesBackThePose ==
  [][s'.ready => /\ SaleDeLaFoto => MismaPose(antes.foto, PoseDe(s'))
                 /\ AcabaLaMedida => MismaPose(antes.medida, PoseDe(s'))]_vars

(* Every press of the sound button changes what the icon says, and the     *)
(* disk keeps it, also when that press is the first gesture on the page,   *)
(* which by itself would switch the sound on (extras.js:250-255).  Where   *)
(* the browser has no audio a press changes neither: the wish of another   *)
(* day stays on the disk (extras.js:239).                                  *)
SoundButtonFlips ==
  [][paso'.que = "sonido" =>
       IF ext.disco.audio THEN ext'.boton = ~ext.boton /\ ext'.disco.sonido = ext'.boton
       ELSE ext'.boton = ext.boton /\ ext'.disco = ext.disco]_vars

(* The search for a height at which the label of the district asked for    *)
(* can be read ends: it is found, given up, dropped, or there is nothing   *)
(* to see it (memoria.js buscaHueco).  It is a search from above.  The way *)
(* back from the headset puts the visitor on foot and tells no module      *)
(* (city3d.js:6025): a flight under way is then neither flown nor dropped, *)
(* and the search waits for it until he goes up again.                     *)
Buscando ==
  /\ mem.foco # Nada /\ ~mem.foco.visto /\ mem.encLabels # Nada /\ mem.encLabels.visible
  /\ s.mode = "orbit" /\ s.raf /\ ~ext.foto.activo
SearchEnds == Buscando ~> ~Buscando
=============================================================================
