------------------------------ MODULE Vecinos ------------------------------
(***************************************************************************)
(* Who lives and works where and each one's day (city/vida.js): a          *)
(* pedestrian is a function of time.  Times are tenths of a second, speeds *)
(* centimetres per tenth; what the code draws from the seed of a person or *)
(* of a building is given with it.                                         *)
(*   Tramas     the grids, with their centre [x, z] and what Aceras asks   *)
(*   Edificios  the buildings of the quarters: [trama, x, z, tapados, kind, *)
(*              h, area, semilla, celda, gente], gente the draws of its    *)
(*              people                                                     *)
(*   Sorteos    Sorteos[person's number][company] the lot of that person   *)
(* A city is a set of parcels [x, y, base, ingresos, activos, oculta, and  *)
(* either portal, a door in a grid, or caras, its four fronts].            *)
(***************************************************************************)
EXTENDS Aceras
CONSTANTS Tramas, Edificios, Sorteos

Dia == 864000
Ciclo == 900
Ventana == 120
EsperaMax == 15000
DMax == 25000 + EsperaMax
RadioAndable == 120000
RProc == 160000
Km == 100000
PisoCm == 320

Distancia(a, b) == Magnitud(a.x - b.x) + Magnitud(a.z - b.z)
Nuevo(N, ac, zona, extra) ==
  LET a == ac @@ extra @@ [id |-> Len(N.accesos) + 1, zona |-> zona]
  IN [N EXCEPT !.accesos = Append(@, a)]

(* How many live in a building, and how many work for a parcel. *)
Cuantos(e) == IF e.kind = "villas" THEN 2 + (e.semilla % 3)
              ELSE Tope((Max({2, e.h \div PisoCm}) * Max({2, (e.area + 55) \div 110}) * 6) \div 10, 6, 70)
Plantilla(pc) ==
  LET bits == Max({0} \cup {b \in 1..12 : 2^b <= pc.ingresos})
  IN pc.base + Min({2 * pc.base, (bits * pc.base) \div 4}) + Min({200, 10 * pc.activos})

(* The front doors of the buildings that no parcel hides, with their grid's  *)
(* pavement.                                                                 *)
Portales(N, ciudad) ==
  LET tapa(i) == \E pc \in ciudad : i \in pc.oculta
      alta(M, i) == LET e == Edificios[i]
                        ac == Acceso(M.zonas[e.trama], e)
                    IN IF tapa(i) \/ ac = Nada THEN M
                       ELSE Nuevo(M, ac, e.trama, [edificio |-> TRUE, kind |-> e.kind, de |-> i, x |-> e.x, z |-> e.z])
  IN FoldLeft(alta, N, [i \in DOMAIN Edificios |-> i])

(* A parcel's company: the pavement of its grid or, failing that, a taxi's   *)
(* door before a front that is dry, ten metres of free ground or one up to a *)
(* street; with neither it employs nobody.                                   *)
ParcelaEmpresa(N, pc) ==
  LET datos == [edificio |-> FALSE, kind |-> "parcela", de |-> <<pc.x, pc.y>>, x |-> pc.portal.x, z |-> pc.portal.z]
      ac == IF pc.portal.trama = 0 THEN Nada ELSE Acceso(N.zonas[pc.portal.trama], pc.portal)
      caras == {i \in DOMAIN pc.caras : /\ pc.caras[i].seca
                                        /\ \/ pc.caras[i].libre >= 1000
                                           \/ pc.caras[i].calle /\ pc.caras[i].libre >= 100}
      suelta == [tipo |-> "suelta", x |-> pc.portal.x, z |-> pc.portal.z, R |-> 8000]
      M == IF ac # Nada THEN Nuevo(N, ac, pc.portal.trama, datos)
           ELSE Nuevo([N EXCEPT !.zonas = Append(@, suelta)],
                      [puerta |-> IF caras = {} THEN 0 ELSE pc.caras[Min(caras)].libre], Len(N.zonas) + 1, datos)
  IN IF ac = Nada /\ caras = {} THEN M
     ELSE [M EXCEPT !.empresas = Append(@, [ac |-> Len(M.accesos), x |-> pc.x, y |-> pc.y, peso |-> Plantilla(pc)])]
Empresas(N, ciudad) ==
  FoldLeft(ParcelaEmpresa, N, Ordena(ciudad, LAMBDA a, b : a.y < b.y \/ (a.y = b.y /\ a.x < b.x)))

VecinosDe(N, ac) ==
  LET e == Edificios[ac.de]
      persona(k) == e.gente[k] @@ [casa |-> ac.id, celda |-> e.celda, trabajo |-> 0]
  IN IF ac.kind \in {"villas", "blocks"} THEN [N EXCEPT !.personas = @ \o [k \in 1..Cuantos(e) |-> persona(k)]] ELSE N
Vecindario(N) == FoldLeft(VecinosDe, N, N.accesos)

(* Company ie hires its staff: those still free of the nearest rings of      *)
(* cells, by lot within the last one.                                        *)
Anillo(per, E) == IF per.celda = Nada THEN 99999
                  ELSE Max({Magnitud(per.celda[1] - E.x), Magnitud(per.celda[2] - E.y)})
Libres(N) == {i \in DOMAIN N.personas : N.personas[i].trabaja /\ N.personas[i].trabajo = 0}
ClaveSinDistancia(N, ie, i) == <<0, Sorteos[i][ie], i>>
ClaveDeContrata(N, ie, i) == <<Anillo(N.personas[i], N.empresas[ie]), Sorteos[i][ie], i>>
Recluta(N, ie) ==
  LET E == N.empresas[ie]
      antes(a, b) == LET p == ClaveDeContrata(N, ie, a) q == ClaveDeContrata(N, ie, b)
                     IN p[1] < q[1] \/ (p[1] = q[1] /\ (p[2] < q[2] \/ (p[2] = q[2] /\ p[3] < q[3])))
      orden == Ordena(Libres(N), antes)
      contratados == {orden[q] : q \in 1..Min({E.peso, Len(orden)})}
  IN [N EXCEPT !.personas = [i \in DOMAIN @ |-> IF i \in contratados THEN [@[i] EXCEPT !.trabajo = E.ac] ELSE @[i]]]

(* The rest go to the offices: a quarter by gravity, a building by its       *)
(* floors.                                                                   *)
PlantasDe(ac) == Max({1, Edificios[ac.de].h \div PisoCm})
ZonasDeOficina(N, kind) ==
  LET oficinas(z) == SelectSeq(N.accesos, LAMBDA a : a.kind = kind /\ a.zona = z)
      conOficinas == SelectSeq([z \in DOMAIN Tramas |-> z], LAMBDA z : oficinas(z) # <<>>)
  IN [q \in DOMAIN conOficinas |-> [zona |-> conOficinas[q], lista |-> oficinas(conOficinas[q])]]
Acumula(pesos) == [q \in DOMAIN pesos |-> FoldLeft(LAMBDA s, p : s + p, 0, SubSeq(pesos, 1, q))]
Sorteo(acum, x) == Min({q \in DOMAIN acum : acum[q] > x} \cup {Len(acum)})
Gravedad(lz, zh) ==
  [q \in DOMAIN lz |->
     LET km == Distancia(Tramas[lz[q].zona], Tramas[zh]) \div Km
         cap == FoldLeft(LAMBDA s, a : s + PlantasDe(a), 0, lz[q].lista)
     IN Max({1, (cap * 10000) \div ((1 + km) * (1 + km))})]
Elige(pesos, milesimas) == LET acum == Acumula(pesos) IN Sorteo(acum, (milesimas * Last(acum)) \div 1000)
Destino(N, i) ==
  LET per == N.personas[i]
      torres == ZonasDeOficina(N, "towers")
      naves == ZonasDeOficina(N, "warehouses")
      lz == IF (per.azar[1] < 750 /\ torres # <<>>) \/ naves = <<>> THEN torres ELSE naves
      zo == lz[Elige(Gravedad(lz, N.accesos[per.casa].zona), per.azar[2])]
  IN IF ~per.trabaja \/ per.trabajo # 0 \/ lz = <<>> THEN per
     ELSE [per EXCEPT !.trabajo = zo.lista[Elige([q \in DOMAIN zo.lista |-> PlantasDe(zo.lista[q])], per.azar[3])].id]

(***************************************************************************)
(* The day of a person, dia its draws: its trips, in the order it makes    *)
(* them up.                                                                *)
(***************************************************************************)
Agenda(N, per) ==
  LET d == per.dia
      H == N.accesos[per.casa]
      W == N.accesos[per.trabajo]
      viaje(zona, t0, src, dst, vuelta) == <<[zona |-> zona, t0 |-> t0 % Dia, src |-> src, dst |-> dst, vuelta |-> vuelta]>>
      enTrama == W.zona \in DOMAIN Tramas
      fuera == [como |-> IF enTrama THEN "parada" ELSE "taxi"]
      sitio(s, lo, hi) == [como |-> "sitio", azar |-> s, lo |-> lo, hi |-> hi]
      trabajo ==
        IF W.zona = H.zona /\ Distancia(W, H) <= RadioAndable
        THEN viaje(H.zona, d.sale, H, [como |-> "acc", acc |-> W], FALSE) \o viaje(H.zona, d.vuelve, H, [como |-> "acc", acc |-> W], TRUE)
        ELSE viaje(H.zona, d.sale, H, [como |-> "parada"], FALSE) \o viaje(W.zona, d.sale + d.ida, W, fuera, TRUE)
             \o viaje(W.zona, d.vuelve, W, fuera, FALSE) \o viaje(H.zona, d.vuelve + d.regreso, H, [como |-> "parada"], TRUE)
      vaYVuelve(r, zona, src, lo, hi) ==
        viaje(zona, r.t, src, sitio(r.azar, lo, hi), FALSE) \o viaje(zona, r.t + r.estancia, src, sitio(r.azar, lo, hi), TRUE)
      recado(r) == IF r = Nada THEN <<>> ELSE vaYVuelve(r, H.zona, H, 15000, 70000)
      paseo(r, lo, hi) == IF r = Nada THEN <<>>
                          ELSE viaje(H.zona, r.t, H, [como |-> "nodo", azar |-> r.azar, lo |-> lo, hi |-> hi], FALSE)
      deDia == IF per.trabajo # 0
               THEN trabajo \o (IF enTrama /\ d.comida # Nada THEN vaYVuelve(d.comida, W.zona, W, 8000, 45000) ELSE <<>>)
               ELSE recado(d.recado1) \o recado(d.recado2)
  IN deDia \o paseo(d.paseo, 15000, 35000) \o paseo(d.madrugada, 8000, 25000)

(***************************************************************************)
(* The timetable of a walk: at a crossing out of its turn one waits at the *)
(* kerb.  esperas <<cm, from, to>>, ocupa <<crossing, steps on, leaves>>,  *)
(* in tenths since the departure.                                          *)
(***************************************************************************)
Turno(N, cebra) == FaseCruce(N.zonas[cebra[1]], cebra, Ciclo)
Horario(N, R, t0, v) ==
  LET paso(s, c) ==
        LET d0 == Max({c[2], s.d})
            ta == s.t + (d0 - s.d) \div v
            loc == (t0 + ta - Turno(N, c[1])) % Ciclo
            w == IF loc < Ventana THEN 0 ELSE Ciclo - loc
            sale == ta + w + Max({0, c[3] - d0}) \div v
        IN [t |-> sale, d |-> Max({d0, c[3]}), ocupa |-> Append(s.ocupa, <<c[1], ta + w, sale>>),
            esperas |-> IF w > 0 THEN Append(s.esperas, <<d0, ta, ta + w>>) ELSE s.esperas]
      fin == FoldLeft(paso, [t |-> 0, d |-> 0, ocupa |-> <<>>, esperas |-> <<>>], R.ceb)
  IN R @@ [ocupa |-> fin.ocupa, esperas |-> fin.esperas, dur |-> fin.t + Max({0, R.L - fin.d}) \div v]

(* The walk of a trip, Nada when there is none or it would last too long. *)
RutaDe(N, arbol, v) ==
  LET Z == N.zonas[v.zona]
      A == arbol[v.src.id]
      cerca == {q \in Z.paradas \cap DOMAIN A.dist : A.dist[q] >= 0 /\ A.dist[q] <= ParadaMax}
      parada == CHOOSE q \in cerca : \A o \in cerca : A.dist[q] < A.dist[o] \/ (A.dist[q] = A.dist[o] /\ q <= o)
      sitios == AccesosEntre(A, v.src, SelectSeq(N.accesos, LAMBDA a : a.zona = v.zona), v.dst.lo, v.dst.hi)
      nodos == LET lejos == NodosEntre(A, v.dst.lo, v.dst.hi) IN IF lejos = <<>> THEN NodosEntre(A, 0, v.dst.hi) ELSE lejos
      al(s, k) == s[(k % Len(s)) + 1]
      alNodo(nd, vuelta) == Camino(Z, A, v.src, [nodo |-> nd, bordillo |-> 0], vuelta)
      R == CASE v.zona \notin DOMAIN Tramas -> IF v.src.puerta > 0 THEN CaminoRecto(v.src) ELSE Nada
             [] v.dst.como = "acc" -> Camino(Z, A, v.src, [acc |-> v.dst.acc], v.vuelta)
             [] v.dst.como = "parada" -> IF cerca = {} THEN CaminoTaxi(v.src, v.vuelta)
                                         ELSE Camino(Z, A, v.src, [nodo |-> parada, bordillo |-> Z.m - Z.h - 80], v.vuelta)
             [] v.dst.como = "sitio" -> IF sitios = <<>> THEN Nada
                                        ELSE Camino(Z, A, v.src, [acc |-> al(sitios, v.dst.azar)], v.vuelta)
             [] v.dst.como = "nodo" -> IF nodos = <<>> THEN Nada
                                       ELSE LET nd == al(nodos, v.dst.azar)
                                            IN IF alNodo(nd, FALSE) = Nada THEN Nada ELSE Une(alNodo(nd, FALSE), alNodo(nd, TRUE))
      H == Horario(N, R, v.t0, N.personas[v.p].v)
  IN IF R = Nada THEN Nada ELSE IF H.dur > DMax THEN Nada ELSE H

(* The population of a city: what the phases of the build leave, with the    *)
(* walk each trip has.                                                       *)
Poblacion(ciudad, completo) ==
  LET zona(t) == Grafo(t, completo) @@ [tipo |-> "trama", x |-> t.x, z |-> t.z, R |-> t.R + 6000]
      grafos == [zonas |-> FoldLeft(LAMBDA zs, t : Append(zs, zona(t)), <<>>, Tramas),
                 accesos |-> <<>>, empresas |-> <<>>, personas |-> <<>>]
      gente == Vecindario(Empresas(Portales(grafos, ciudad), ciudad))
      contratada == FoldLeft(Recluta, gente, [ie \in DOMAIN gente.empresas |-> ie])
      N == [contratada EXCEPT !.personas = [i \in DOMAIN @ |-> Destino(contratada, i)]]
      delDia(i) == LET vs == Agenda(N, N.personas[i]) IN [q \in DOMAIN vs |-> vs[q] @@ [p |-> i]]
      viajes == FoldLeft(LAMBDA s, i : s \o delDia(i), <<>>, [i \in DOMAIN N.personas |-> i])
      origenes == {a \in {viajes[q].src.id : q \in DOMAIN viajes} : N.accesos[a].zona \in DOMAIN Tramas}
      arbol == FoldSet(LAMBDA a, f : f @@ (a :> ArbolDe(N.zonas[N.accesos[a].zona], N.accesos[a])), <<>>, origenes)
      cada(s, f(_)) == FoldLeft(LAMBDA r, q : Append(r, f(q)), <<>>, [q \in DOMAIN s |-> q])
      deLaZona(z) == Ordena({q \in DOMAIN viajes : viajes[q].zona = z},
                            LAMBDA a, b : viajes[a].t0 < viajes[b].t0 \/ (viajes[a].t0 = viajes[b].t0 /\ a < b))
      andado(q) == [p |-> viajes[q].p, t0 |-> viajes[q].t0, ruta |-> RutaDe(N, arbol, viajes[q])]
  IN [zonas |-> cada(N.zonas, LAMBDA z : [x |-> N.zonas[z].x, z |-> N.zonas[z].z, R |-> N.zonas[z].R, viajes |-> deLaZona(z)]),
      grafos |-> grafos.zonas, empresas |-> N.empresas, personas |-> N.personas, viajes |-> cada(viajes, andado)]
=============================================================================
