-------------------------------- MODULE Vida --------------------------------
(***************************************************************************)
(* The pedestrians module frame by frame (city/vida.js): the clock, the    *)
(* walks kept and let go, the zebra crossings marked for the cars, and the *)
(* population rebuilt in pieces when the parcels change, with the one of   *)
(* before in the street meanwhile.                                         *)
(*   Ciudades   the cities setCity may bring, numbered                    *)
(*   Poblaciones  that of each city, with the whole catastro and without   *)
(*   its small blocks (a constant because it is long to build)             *)
(*   Horas      the hours setTimeOfDay may fix                             *)
(*   Instantes  what the wall clock may say at a frame                     *)
(*   Focos      where the camera or the walker may be                      *)
(*   Pasos, Nuevos  the steps of the build and the new walks a frame may   *)
(*   afford: it counts milliseconds                                        *)
(* Bounds: the clock runs MaxAvance tenths from a fixed hour, MaxCambios   *)
(* calls come from outside, MaxCiudades of them change the city.  Drawing, *)
(* its radius and its number of bodies are left out.                       *)
(***************************************************************************)
EXTENDS Vecinos, Listas
CONSTANTS Ciudades, Poblaciones, Horas, Instantes, Focos, Avances,
          CacheMax, PodaCuadros, CalientaAntes, AvisoCebra, Pasos, Nuevos, MaxAvance, MaxCambios, MaxCiudades

VARIABLES calidad, ciudad, listo, hora, foco,                \* the viewer's: S.city, S.ready, S.hour...
          hecho, firma, pob, trabajo, cache, dur, horaVista, T, \* the module's V
          activos, aplazados, ocupadas,                      \* the last frame's
          cambios                                            \* calls so far: [todos, ciudades]
visor == <<calidad, ciudad, listo, hora, foco>>
vida == <<hecho, firma, pob, trabajo, cache, dur>>
calle == <<horaVista, T, activos, aplazados, ocupadas>>
vars == <<visor, vida, calle, cambios>>

ASSUME PopulationsOfTheCities ==
  \A c \in DOMAIN Ciudades : Poblaciones[c] = <<Poblacion(Ciudades[c], TRUE), Poblacion(Ciudades[c], FALSE)>>
(* What the build leaves: a departure within the day, no walk longer than    *)
(* DMax, and each zone with numbers of trips.                                *)
BienHecha(P) ==
  /\ DOMAIN P.viajes \subseteq Nat
  /\ P.zonas \in Seq([x : Int, z : Int, R : Int, viajes : Seq(DOMAIN P.viajes)])
  /\ \A v \in DOMAIN P.viajes :
       LET R == P.viajes[v].ruta
       IN /\ P.viajes[v].t0 \in 0..Dia - 1
          /\ R # Nada => R.dur \in 0..DMax /\ \A i \in DOMAIN R.ocupa : R.ocupa[i][2] \in Int /\ R.ocupa[i][3] \in Int
ASSUME PopulationsAssumption == \A c \in DOMAIN Ciudades : BienHecha(Poblaciones[c][1]) /\ BienHecha(Poblaciones[c][2])
ASSUME ClockAssumption ==
  /\ Instantes \subseteq Nat /\ Horas \subseteq Nat /\ Avances \subseteq Nat
  /\ Pasos \subseteq Nat /\ Nuevos \subseteq Nat /\ Focos # {} /\ Focos \subseteq Int \X Int
  /\ CacheMax \in Nat /\ PodaCuadros \in Nat
  /\ AvisoCebra \in Nat /\ CalientaAntes \in Nat /\ DMax + CalientaAntes < Dia
ASSUME NadaAssumption == Nada \notin Seq(Nat) /\ Nada \notin Nat \X (Int \X Int) \X Nat
PobDe(k) == Poblaciones[k[1]][k[2]]
Completo(q) == q # "baja"
Catastro(completo) == IF completo THEN 1 ELSE 2
Firmas == FoldLeft(LAMBDA s, c : Append(s, <<{<<pc.x, pc.y, pc.base, Plantilla(pc)>> : pc \in c}, Cardinality(UNION {pc.oculta : pc \in c})>>),
                   <<>>, Ciudades)
Firma(c) == Firmas[c]

(***************************************************************************)
(* Who may be in the street.                                               *)
(***************************************************************************)
ZonasCerca(P, f) ==
  LET d2(z) == LET dx == (P.zonas[z].x - f[1]) \div 100 dz == (P.zonas[z].z - f[2]) \div 100 IN dx * dx + dz * dz
      lim(z) == (RProc + P.zonas[z].R) \div 100
  IN Ordena({z \in DOMAIN P.zonas : d2(z) < lim(z) * lim(z)}, LAMBDA a, b : d2(a) < d2(b) \/ (d2(a) = d2(b) /\ a < b))
DesdeMedianoche(t, ancho) == Max({0, (t % Dia) - ancho})
Desde(t, ancho) == (t % Dia) - ancho
EnVentana(P, t, ancho, zonas) ==
  LET entre(z, a, b) == Kept(P.zonas[z].viajes, {v \in DOMAIN P.viajes : a <= P.viajes[v].t0 /\ P.viajes[v].t0 <= b})
      salidas(z) == IF Desde(t, ancho) >= 0 THEN entre(z, Desde(t, ancho), t % Dia)
                    ELSE entre(z, 0, t % Dia) \o entre(z, Desde(t, ancho) + Dia, Dia)
      hasta[i \in 0..Len(zonas)] == IF i = 0 THEN <<>> ELSE hasta[i - 1] \o salidas(zonas[i])
  IN hasta[Len(zonas)]

(* One trip at instant t: e = [cache, dur, plazo, activos, aplazados], plazo *)
(* the new walks the frame can still afford.                                 *)
Con(f, v, x) == [w \in DOMAIN f \cup {v} |-> IF w = v THEN x ELSE f[w]]
Suelta(e, v) == [e EXCEPT !.cache = [w \in DOMAIN @ \ {v} |-> @[w]]]
Transcurrido(k, t, e, v) ==
  LET viaje == PobDe(k).viajes[v]
      el == (t - viaje.t0) % Dia
      sabida == v \in DOMAIN e.dur
      d == IF viaje.ruta = Nada THEN -1 ELSE viaje.ruta.dur
      usa(f) == [f EXCEPT !.cache = Con(@, v, [de |-> IF v \in DOMAIN @ THEN @[v].de ELSE k, uso |-> 0])]
      enCalle(f) == [f EXCEPT !.activos = @ \cup {v}]
      calculada == [usa(e) EXCEPT !.dur = Con(@, v, d), !.plazo = @ - 1]
  IN IF sabida /\ (e.dur[v] < 0 \/ el >= e.dur[v]) THEN IF e.dur[v] >= 0 THEN Suelta(e, v) ELSE e
     ELSE IF v \in DOMAIN e.cache THEN enCalle(usa(e))
     ELSE IF e.plazo = 0 THEN [e EXCEPT !.aplazados = @ \cup {v}]
     ELSE IF d < 0 THEN calculada
     ELSE IF el >= d THEN Suelta(calculada, v) ELSE enCalle(calculada)
Recorre(k, t, e, viajes) ==
  LET tras[i \in 0..Len(viajes)] == IF i = 0 THEN e ELSE Transcurrido(k, t, tras[i - 1], viajes[i])
  IN tras[Len(viajes)]

(***************************************************************************)
(* The build.  Its phases 0 to 7 read the buildings that the quality keeps *)
(* in the catastro (1 and 2) and the parcels (3); 8 warms the walks of who *)
(* will be in the street.  `de` is for the properties: the instant and the *)
(* place the warming began at, and how far the clock has gone forward      *)
(* since, CalientaAntes + 1 once it has gone further, or back.             *)
(***************************************************************************)
SinTrabajo == [fase |-> -1]
TrabajoNuevo == [fase |-> 0, completo |-> TRUE, ciudad |-> Nada, cache |-> <<>>, dur |-> <<>>, pre |-> Nada, de |-> Nada]
ACalentarAhora(P, t) == EnVentana(P, t, DMax, ZonasCerca(P, foco))
ACalentar(P, t) == EnVentana(P, t + CalientaAntes, DMax + CalientaAntes, ZonasCerca(P, foco))
ClaveDe(J) == <<J.ciudad, Catastro(J.completo)>>
Sigue(de, t) == LET r == (t - de[1]) % Dia
                IN <<de[1], de[2], IF de[3] <= r /\ r <= CalientaAntes THEN r ELSE CalientaAntes + 1>>
ConLista(J, t) == IF J.pre = Nada THEN [J EXCEPT !.pre = ACalentar(PobDe(ClaveDe(J)), t), !.de = <<t, foco, 0>>]
                  ELSE [J EXCEPT !.de = Sigue(@, t)]
Cuando(P, v, t) == IF (t - P.viajes[v].t0) % Dia <= DMax THEN t ELSE (t + CalientaAntes) % Dia
Calienta(J, t) ==
  LET v == Head(J.pre)
      e == [cache |-> J.cache, dur |-> J.dur, plazo |-> 1, activos |-> {}, aplazados |-> {}]
      tras(f) == [J EXCEPT !.cache = f.cache, !.dur = f.dur, !.pre = Tail(@)]
  IN IF J.pre = <<>> THEN [J EXCEPT !.fase = 9] ELSE tras(Transcurrido(ClaveDe(J), Cuando(PobDe(ClaveDe(J)), v, t), e, v))
UnPaso(J, t) ==
  CASE J.fase \in {1, 2} -> [J EXCEPT !.fase = @ + 1, !.completo = @ /\ Completo(calidad)]
    [] J.fase = 3 -> [J EXCEPT !.fase = 4, !.ciudad = ciudad]
    [] J.fase \in {0, 4, 5, 6, 7} -> [J EXCEPT !.fase = @ + 1]
    [] J.fase = 8 -> Calienta(ConLista(J, t), t)
    [] OTHER -> J
TrabajoPaso(J, pasos, t) ==
  LET tras[i \in 0..pasos] == IF i = 0 THEN J ELSE UnPaso(tras[i - 1], t)
  IN tras[pasos]
Acabado(J) == J.fase = 9
(* The whole build at once, without warming. *)
Construye(q, c) ==
  /\ pob' = <<c, Catastro(Completo(q))>>
  /\ hecho' = TRUE
  /\ cache' = <<>>
  /\ dur' = <<>>
  /\ trabajo' = SinTrabajo

(***************************************************************************)
(* A frame.                                                                *)
(***************************************************************************)
AvanzaReloj(dt, pared) ==
  IF hora = Nada THEN pared
  ELSE IF hora # horaVista THEN hora
  ELSE IF (T + dt - hora) % Dia <= MaxAvance THEN (T + dt) % Dia ELSE T
SeAnunciaTarde(o, el) == o[2] + AvisoCebra <= el /\ el <= o[3] + 3
SeAnuncia(o, el) == o[2] - AvisoCebra <= el /\ el <= o[3] + 3
Pisadas(k, t, vs) ==
  UNION {LET el == (t - PobDe(k).viajes[v].t0) % Dia
             o == PobDe(k).viajes[v].ruta.ocupa
         IN {o[i][1] : i \in {i \in DOMAIN o : SeAnuncia(o[i], el)}} : v \in vs}
Poda(c) == IF Cardinality(DOMAIN c) > CacheMax
           THEN [v \in {v \in DOMAIN c : c[v].uso <= PodaCuadros} |-> c[v]] ELSE c
Envejece(c) == [v \in DOMAIN c |-> [c[v] EXCEPT !.uso = Min({@ + 1, PodaCuadros + 1})]]
ArranqueConLasRutas(cambia, J, nuevos) ==
  [cache |-> IF cambia THEN J.cache @@ cache ELSE Envejece(cache), dur |-> IF cambia THEN J.dur ELSE dur,
   plazo |-> nuevos, activos |-> {}, aplazados |-> {}]
Arranque(cambia, J, nuevos) ==
  [cache |-> IF cambia THEN J.cache ELSE Envejece(cache), dur |-> IF cambia THEN J.dur ELSE dur,
   plazo |-> nuevos, activos |-> {}, aplazados |-> {}]
EnVista(k, t) == EnVentana(PobDe(k), t, DMax, ZonasCerca(PobDe(k), foco))
Pon(k, t, J, cambia, seVe, f) ==
  /\ horaVista' = hora
  /\ T' = t
  /\ trabajo' = IF cambia THEN SinTrabajo ELSE J
  /\ pob' = k
  /\ hecho' = (hecho \/ cambia)
  /\ dur' = f.dur
  /\ cache' = IF seVe THEN Poda(f.cache) ELSE f.cache
  /\ activos' = f.activos
  /\ aplazados' = f.aplazados
  /\ ocupadas' = Pisadas(k, t, f.activos)
ConTrabajo(t, J, nuevos) ==
  LET cambia == Acabado(J)
      k == IF cambia THEN ClaveDe(J) ELSE pob
      seVe == (hecho \/ cambia) /\ Completo(calidad)
      e == Arranque(cambia, J, nuevos)
  IN Pon(k, t, J, cambia, seVe, IF seVe THEN Recorre(k, t, e, EnVista(k, t)) ELSE e)
UnCuadro(t, pasos, nuevos) == ConTrabajo(t, IF trabajo = SinTrabajo THEN trabajo ELSE TrabajoPaso(trabajo, pasos, t), nuevos)
Cuadro ==
  /\ \E dt \in Avances, pared \in Instantes, pasos \in Pasos, nuevos \in Nuevos :
       /\ hora # Nada => pared = Min(Instantes)
       /\ trabajo = SinTrabajo => pasos = Min(Pasos)
       /\ UnCuadro(AvanzaReloj(dt, pared), pasos, nuevos)
  /\ UNCHANGED <<visor, firma, cambios>>

(***************************************************************************)
(* The module's hooks, and the calls that change what it looks at.         *)
(***************************************************************************)
Listo ==
  /\ ~listo
  /\ listo' = TRUE
  /\ firma' = Firma(ciudad)
  /\ IF Completo(calidad) THEN Construye(calidad, ciudad) ELSE UNCHANGED <<hecho, pob, trabajo, cache, dur>>
  /\ UNCHANGED <<calidad, ciudad, hora, foco, calle, cambios>>
Llamada(ciudades) ==
  /\ cambios.todos < MaxCambios
  /\ cambios.ciudades + ciudades <= MaxCiudades
  /\ cambios' = [todos |-> cambios.todos + 1, ciudades |-> cambios.ciudades + ciudades]
(* With no street in view the population is for when there is one. *)
OlvidaSoloEnVista ==
  /\ trabajo' = IF Completo(calidad) THEN TrabajoNuevo ELSE SinTrabajo
  /\ UNCHANGED hecho
Olvida ==
  /\ trabajo' = IF Completo(calidad) THEN TrabajoNuevo ELSE SinTrabajo
  /\ hecho' = (hecho /\ Completo(calidad))
SetCity(c) ==
  /\ c # ciudad
  /\ ciudad' = c
  /\ Llamada(1)
  /\ IF ~listo \/ Firma(c) = firma THEN UNCHANGED <<firma, hecho, trabajo>>
     ELSE firma' = Firma(c) /\ Olvida
  /\ UNCHANGED <<calidad, listo, hora, foco, pob, cache, dur, calle>>
SetQuality(q) ==
  /\ q # calidad
  /\ calidad' = q
  /\ Llamada(0)
  /\ IF listo /\ ~hecho /\ Completo(q) THEN Construye(q, ciudad) ELSE UNCHANGED <<hecho, pob, trabajo, cache, dur>>
  /\ UNCHANGED <<ciudad, listo, hora, foco, firma, calle>>
SetTimeOfDay(h) ==
  /\ h # hora
  /\ hora' = h
  /\ Llamada(0)
  /\ UNCHANGED <<calidad, ciudad, listo, foco, vida, calle>>
Mueve(f) ==
  /\ f # foco
  /\ foco' = f
  /\ Llamada(0)
  /\ UNCHANGED <<calidad, ciudad, listo, hora, vida, calle>>

Init ==
  /\ calidad \in {"baja", "media"}
  /\ ciudad \in DOMAIN Ciudades
  /\ listo = FALSE
  /\ hora = Nada
  /\ foco = CHOOSE f \in Focos : TRUE
  /\ hecho = FALSE
  /\ firma = Nada
  /\ pob = Nada
  /\ trabajo = SinTrabajo
  /\ cache = <<>>
  /\ dur = <<>>
  /\ horaVista = Nada
  /\ T = 0
  /\ activos = {}
  /\ aplazados = {}
  /\ ocupadas = {}
  /\ cambios = [todos |-> 0, ciudades |-> 0]
Next ==
  \/ listo /\ Cuadro
  \/ Listo
  \/ \E c \in DOMAIN Ciudades : SetCity(c)
  \/ \E q \in {"baja", "media"} : SetQuality(q)
  \/ \E h \in Horas \cup {Nada} : SetTimeOfDay(h)
  \/ \E f \in Focos : Mueve(f)
Spec == Init /\ [][Next]_vars
-----------------------------------------------------------------------------
(***************************************************************************)
(* Properties.                                                             *)
(***************************************************************************)
(* The street at instant t as the timetable alone gives it, near a place. *)
EnLaCalle(k, t, f) ==
  LET P == PobDe(k)
      cerca == {ZonasCerca(P, f)[i] : i \in DOMAIN ZonasCerca(P, f)}
      esta(v) == P.viajes[v].ruta # Nada /\ (t - P.viajes[v].t0) % Dia < P.viajes[v].ruta.dur
  IN {v \in UNION {{P.zonas[z].viajes[i] : i \in DOMAIN P.zonas[z].viajes} : z \in cerca} : esta(v)}
UnCuadroMas == T' # T \/ horaVista' # horaVista \/ activos' # activos \/ ocupadas' # ocupadas \/ aplazados' # aplazados

(* "A pedestrian is a function of time" (header of vida.js): whatever the  *)
(* frames before kept, let go or put off, whatever population was there    *)
(* before, a frame has in the street exactly those the timetable has there *)
(* at that instant, less those it puts off, midnight included.             *)
StreetIsAFunctionOfTime ==
  [][UnCuadroMas /\ hecho' /\ Completo(calidad') =>
       LET debe == EnLaCalle(pob', T', foco') IN activos' \subseteq debe /\ debe \subseteq activos' \cup aplazados']_vars

(* A walk that is kept, and a duration that is known, belong to the        *)
(* population in the street: the trips of two populations share numbers.   *)
WalksAreOfThePopulation ==
  /\ \A v \in DOMAIN cache : /\ v \in DOMAIN PobDe(pob).viajes
                             /\ PobDe(cache[v].de).viajes[v] = PobDe(pob).viajes[v]
  /\ \A v \in DOMAIN dur : LET R == PobDe(pob).viajes[v].ruta IN dur[v] = IF R = Nada THEN -1 ELSE R.dur

(* Nobody is on a zebra crossing that the cars see free, and a crossing    *)
(* they wait at has somebody on it or about to step on it, once the frame  *)
(* is over; with no pedestrians (low quality) every crossing is free.      *)
MarkedCrossingsAreWalked ==
  [][UnCuadroMas =>
       /\ \A v \in activos' : \A i \in DOMAIN PobDe(pob').viajes[v].ruta.ocupa :
            LET o == PobDe(pob').viajes[v].ruta.ocupa[i]
                el == (T' - PobDe(pob').viajes[v].t0) % Dia
            IN o[2] <= el /\ el <= o[3] => o[1] \in ocupadas'
       /\ activos' = {} => ocupadas' = {}]_vars

(* With no build under way, whoever is in the street works for the parcels *)
(* there are: a city that came during a build, or in low quality, is never *)
(* forgotten.                                                              *)
PopulationIsOfTheCity ==
  listo /\ hecho /\ trabajo = SinTrabajo => Firma(pob[1]) = Firma(ciudad)

(* What the warming is for ("the new population came out empty and filled   *)
(* up at the pace of the deadline"): in the frame that changes the         *)
(* population nobody who walks for more than CalientaAntes is put off, if  *)
(* the place is the one where the warming began and the clock has done     *)
(* nothing since but go forward, no more than that.                        *)
Relevo == trabajo # SinTrabajo /\ trabajo' = SinTrabajo /\ UnCuadroMas /\ hecho' /\ Completo(calidad')
Caliente == trabajo.de # Nada => trabajo.de[2] = foco' /\ Sigue(trabajo.de, T')[3] <= CalientaAntes
NewPopulationComesOutWarm ==
  [][Relevo /\ Caliente =>
       \A v \in aplazados' : \/ v \notin EnLaCalle(pob', T', foco')
                            \/ PobDe(pob').viajes[v].ruta.dur <= CalientaAntes]_vars

(* The turns: everybody starts to cross within the window of the crossing's *)
(* turn, and the zebras over one street of a crossing are never walked, nor *)
(* marked, while those over the other are.                                 *)
Pisa(P) == UNION {LET e == P.viajes[v]
                  IN {[t |-> e.t0 + e.ruta.ocupa[i][2], dura |-> e.ruta.ocupa[i][3] - e.ruta.ocupa[i][2],
                       cruce |-> SubSeq(e.ruta.ocupa[i][1], 1, 3), calle |-> e.ruta.ocupa[i][1][4],
                       fase |-> FaseCruce(P.grafos[e.ruta.ocupa[i][1][1]], e.ruta.ocupa[i][1], Ciclo)] :
                        i \in DOMAIN e.ruta.ocupa} :
                  v \in {v \in DOMAIN P.viajes : P.viajes[v].ruta # Nada}}
TurnosAparte(P) ==
  LET avisa(p) == p.t - AvisoCebra
      dentro(p, t) == (t - avisa(p)) % Dia <= p.dura + 3 + AvisoCebra
  IN \A p \in Pisa(P) :
       /\ (p.t - p.fase) % Ciclo < Ventana
       /\ \A q \in Pisa(P) : q.cruce = p.cruce /\ q.calle # p.calle => ~dentro(p, avisa(q))
(* Whether each population keeps a promise, worked out once. *)
Cumple(promesa(_)) == FoldLeft(LAMBDA s, par : Append(s, <<promesa(par[1]), promesa(par[2])>>), <<>>, Poblaciones)
EnTurno == Cumple(TurnosAparte)
TurnsKeepStreetsApart == [][pob' # pob => EnTurno[pob'[1]][pob'[2]]]_vars

(* Work goes round: nobody is left for the offices, or without work, while *)
(* a company that anybody can reach lacks staff; no company has more than  *)
(* its staff; and one that hires at some distance leaves no nearer worker  *)
(* to those that hire after it.                                            *)
PlantillaCercana(P) ==
  LET de(ie) == {i \in DOMAIN P.personas : P.personas[i].trabajo = P.empresas[ie].ac}
      despues(ie) == {i \in DOMAIN P.personas : P.personas[i].trabaja /\ \A je \in 1..ie : i \notin de(je)}
  IN \A ie \in DOMAIN P.empresas :
       /\ Cardinality(de(ie)) <= P.empresas[ie].peso
       /\ despues(ie) # {} => Cardinality(de(ie)) = P.empresas[ie].peso
       /\ \A i \in de(ie), j \in despues(ie) : Anillo(P.personas[i], P.empresas[ie]) <= Anillo(P.personas[j], P.empresas[ie])
Cercana == Cumple(PlantillaCercana)
StaffIsTheNearest == [][pob' # pob => Cercana[pob'[1]][pob'[2]]]_vars
=============================================================================
