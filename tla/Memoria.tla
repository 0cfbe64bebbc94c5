------------------------------ MODULE Memoria ------------------------------
(***************************************************************************)
(* The module `memoria` of the city viewer (city/memoria.js): the patina   *)
(* of the buildings, the brass plaques by their doors, the errands of each *)
(* district with their labels and their list, and the guide of day one.    *)
(* An operator takes the module's state `m`, and the viewer's state `s` it *)
(* reads, and gives the state after the call.                              *)
(*   Huecos  the plaques drawn at a time   Portal[k]  where the plaque of a *)
(*   parcel of sector k is, from the middle of its cell   Insumos[k]  what *)
(*   sector k needs                                                        *)
(***************************************************************************)
EXTENDS Nucleo
CONSTANTS Huecos, Portal, Insumos

BloquesDia == 1440
PatinaNiveles == 12
PlacaDist == 70
PlacaCada == 3        \* tenths of a second between two deals of the places
AlturasEtiqueta == 4  \* heights a label is tried at
MaxEtiquetas == 40

(***************************************************************************)
(* Patina: the largest n up to 12 with n squared days of chain behind it.  *)
(***************************************************************************)
Dias(altura, desde) == Max({0, altura - desde}) \div BloquesDia

(***************************************************************************)
(* Errands: by district, what its companies need and nobody in the city    *)
(* offers, the most needed first; each is anchored at the company nearest  *)
(* to the middle of those that need something.                             *)
(***************************************************************************)
Faltan(d, p) == {h \in ToSet(d.huecos) : h \in Insumos[p.kind]}
Necesitan(d, di) == {i \in DOMAIN d.parcels : d.parcels[i].distrito = di /\ ~d.parcels[i].pending /\ Faltan(d, d.parcels[i]) # {}}
PorSector(faltas) == Ordena(faltas, LAMBDA a, b : Antes(<<-a.empresas, a.sector>>, <<-b.empresas, b.sector>>))
PorDistrito(encargos) == Ordena(encargos, LAMBDA a, b : Antes(<<-a.empresas, a.distrito>>, <<-b.empresas, b.distrito>>))
FaltanEn(d, quien) ==
  LET de(h) == [sector |-> h, empresas |-> Cardinality({i \in quien : h \in Faltan(d, d.parcels[i])})]
  IN PorSector({f \in {de(h) : h \in ToSet(d.huecos)} : f.empresas > 0})
MasCerca(celdas, n, suma) ==
  LET lejos(c) == (c[1] * n - suma[1]) * (c[1] * n - suma[1]) + (c[2] * n - suma[2]) * (c[2] * n - suma[2])
  IN Head(Ordena(celdas, LAMBDA a, b : Antes(<<lejos(a), a[2], a[1]>>, <<lejos(b), b[2], b[1]>>)))
SumaCeldas(celdas) ==
  LET suma(p, i) == <<p[1] + celdas[i][1], p[2] + celdas[i][2]>>
  IN Pliega(suma, <<0, 0>>, Ordena(DOMAIN celdas, LAMBDA i, j : i < j))
Ancla(d, quien) ==
  LET celdas == [i \in quien |-> d.parcels[i].celda]
  IN MasCerca({celdas[i] : i \in quien}, Cardinality(quien), SumaCeldas(celdas))
Encargo(d, di, quien) == [distrito |-> di, empresas |-> Cardinality(quien), faltan |-> FaltanEn(d, quien), celda |-> Ancla(d, quien)]
Encargos(d) ==
  LET todos == {Encargo(d, di, Necesitan(d, di)) : di \in {d.parcels[i].distrito : i \in {j \in DOMAIN d.parcels : Necesitan(d, d.parcels[j].distrito) # {}}}}
  IN IF d.huecos = <<>> THEN <<>> ELSE PorDistrito(todos)

(***************************************************************************)
(* Plaques.  Each of the few places drawn holds the plaque painted in it   *)
(* and its key; a deal keeps the places whose key is still wanted, empties *)
(* the others and gives them to the nearest plaques without one.           *)
(***************************************************************************)
HuecoLibre == [placa |-> Nada, clave |-> Nada]
Clave(p) == <<p.celda, p.since, p.name, p.handle>>
PlacaDe(d, p) ==
  LET w == CellWorld(p.celda)
      o == Portal[p.kind]
  IN [celda |-> p.celda, since |-> p.since, mia |-> d.me # Nada /\ p.owner = d.me,
      centro |-> <<w[1] + o[1], w[2] + o[2]>>, clave |-> Clave(p)]
Placas(d) ==
  LET con == Kept([i \in DOMAIN d.parcels |-> i], {i \in DOMAIN d.parcels : ~d.parcels[i].pending /\ d.parcels[i].celda \in Celdas})
  IN [n \in DOMAIN con |-> PlacaDe(d, d.parcels[con[n]])]
SinClaves(huecos) == [i \in DOMAIN huecos |-> [huecos[i] EXCEPT !.clave = Nada]]
CalculaPlacas(m, d) == [m EXCEPT !.placas = Placas(d), !.huecos = SinClaves(@), !.placaT = PlacaCada]
Cercanas(placas, p) ==
  LET d2(i) == LET c == placas[i].centro IN (c[1] - p[1]) * (c[1] - p[1]) + (c[2] - p[2]) * (c[2] - p[2]) + p[3] * p[3]
      elegidas(orden) == [n \in 1..Min({Huecos, Len(orden)}) |-> placas[orden[n]]]
  IN elegidas(Ordena({i \in DOMAIN placas : d2(i) \in 0..PlacaDist * PlacaDist - 1}, LAMBDA i, j : Antes(<<d2(i), i>>, <<d2(j), j>>)))
Reparte(huecos, cerca) ==
  LET quiero == {cerca[n].clave : n \in DOMAIN cerca}
      quedan == {i \in DOMAIN huecos : huecos[i].clave \in quiero}
      puestas == {huecos[i].clave : i \in quedan}
      nuevas == Kept(cerca, {pl \in ToSet(cerca) : pl.clave \notin puestas})
      turno(i) == Cardinality({j \in (DOMAIN huecos) \ quedan : j <= i})
      para(i) == IF turno(i) <= Len(nuevas) THEN [placa |-> nuevas[turno(i)], clave |-> nuevas[turno(i)].clave] ELSE HuecoLibre
  IN [i \in DOMAIN huecos |-> IF i \in quedan THEN huecos[i] ELSE para(i)]
ActualizaPlacas(m, s, dt) ==
  IF m.placaT + dt < PlacaCada THEN [m EXCEPT !.placaT = @ + dt]
  ELSE [m EXCEPT !.placaT = 0, !.huecos = Reparte(@, Cercanas(m.placas, Camara(s)))]
PlacasVisibles(m) == {i \in DOMAIN m.huecos : m.huecos[i].clave # Nada}

(***************************************************************************)
(* The labels of the errands and their list.  A click on the list flies to *)
(* a district and makes it the focus; once the flight is over and two culls *)
(* have gone by, a label the cull does not let through is tried at the next *)
(* height, until it passes or the heights run out.                          *)
(***************************************************************************)
SinFoco == Nada
PuntoEtiqueta(m, e) == [celda |-> e.celda, altura |-> IF m.foco # Nada /\ m.foco.distrito = e.distrito THEN m.foco.k ELSE 0]
Vuela(m, s, e) ==
  IF s.mode # "orbit" THEN FlyTo(s, e.celda)
  ELSE Fly(s, Vista(CellWorld(PuntoEtiqueta(m, e).celda), s.cur.v, (Celda * 11) \div 2))
VeEtiquetas(m, s) == m.verEncargos /\ m.encLabels.items # <<>> /\ s.mode # "walk"
MuestraEtiquetas(m, s) == IF m.encLabels = Nada THEN m ELSE [m EXCEPT !.encLabels.visible = VeEtiquetas(m, s)]
PonEtiquetas(m, s) ==
  LET item(e) == [distrito |-> e.distrito, punto |-> PuntoEtiqueta(m, e), text |-> Head(e.faltan), priority |-> 3]
      items == [i \in 1..Min({Len(m.lista), MaxEtiquetas}) |-> item(m.lista[i])]
  IN MuestraEtiquetas([m EXCEPT !.encLabels = LabelSetSet(items)], s)
PintaLista(m, s) ==
  LET ver == m.verEncargos /\ m.lista # <<>> /\ s.mode # "walk" IN [m EXCEPT !.listaVista = IF ver THEN m.lista ELSE Nada]
PonEncargos(m, s, d, mantenFoco) ==
  PintaLista(PonEtiquetas([m EXCEPT !.lista = Encargos(d), !.listaSel = 0, !.foco = IF mantenFoco THEN @ ELSE SinFoco], s), s)
EnLista(m, di) == {i \in DOMAIN m.lista : m.lista[i].distrito = di}
BuscaEspera(m, s) == m.foco = Nada \/ m.foco.visto \/ m.encLabels = Nada \/ ~m.encLabels.visible \/ s.flight # Nada
(* As it would be if the search started again from the lowest height. *)
BuscaSinFin(m, s) ==
  LET otra == PonEtiquetas([m EXCEPT !.foco.k = (@ + 1) % AlturasEtiqueta, !.foco.cuadros = 0], s)
  IN IF BuscaEspera(m, s) THEN [m |-> m, s |-> s]
     ELSE IF m.foco.cuadros + 1 < 2 THEN [m |-> [m EXCEPT !.foco.cuadros = @ + 1], s |-> s]
     ELSE [m |-> otra, s |-> s]
(* One frame of the search: the module's state and the viewer's. *)
BuscaHueco(m, s) ==
  LET f == m.foco
      suya == {i \in DOMAIN m.encLabels.items : m.encLabels.items[i].distrito = f.distrito}
      otra == PonEtiquetas([m EXCEPT !.foco.k = @ + 1, !.foco.cuadros = 0], s)
  IN IF BuscaEspera(m, s) THEN [m |-> m, s |-> s]
     ELSE IF f.cuadros + 1 < 2 THEN [m |-> [m EXCEPT !.foco.cuadros = @ + 1], s |-> s]
     ELSE IF suya = {} THEN [m |-> [m EXCEPT !.foco = SinFoco], s |-> s]
     ELSE IF Min(suya) \in m.encLabels.lvis THEN [m |-> [m EXCEPT !.foco.cuadros = @ + 1, !.foco.visto = TRUE], s |-> s]
     ELSE IF f.k + 1 >= AlturasEtiqueta THEN [m |-> [m EXCEPT !.foco.cuadros = @ + 1, !.foco.visto = TRUE, !.foco.sinHueco = TRUE], s |-> s]
     ELSE [m |-> otra, s |-> IF EnLista(m, f.distrito) = {} THEN s ELSE Vuela(otra, s, m.lista[Min(EnLista(m, f.distrito))])]
ClicLista(m, s, i) ==
  LET e == m.lista[i]
      marcada == [m EXCEPT !.listaSel = i]
      baja == IF m.foco # Nada /\ m.foco.k > 0 THEN PonEtiquetas([marcada EXCEPT !.foco = SinFoco], s) ELSE marcada
      foco == [distrito |-> e.distrito, k |-> 0, cuadros |-> 0, visto |-> FALSE, sinHueco |-> FALSE]
  IN [m |-> PintaLista([baja EXCEPT !.foco = foco], s), s |-> Vuela(baja, s, e)]
MostrarEncargos(m, s, v) == PintaLista(MuestraEtiquetas([m EXCEPT !.verEncargos = v], s), s)
ClicEncargos(m, s) == MostrarEncargos([m EXCEPT !.disco.enc = ~m.verEncargos], s, ~m.verEncargos)

(***************************************************************************)
(* The guide of day one: what is done, whether the player closed it and    *)
(* whether he has seen it, kept on disk with every change.                 *)
(***************************************************************************)
Pasos == {"mirar", "a_pie", "entrar", "nombre", "rami", "fechas"}
AnchoGuia == 760
ProgresoNuevo == [h |-> {}, c |-> FALSE, visto |-> FALSE]
Hechos(m) == Cardinality(m.progreso.h \cap Pasos)
LeeProgreso(disco) == IF disco = Nada THEN ProgresoNuevo ELSE [disco EXCEPT !.visto = disco.visto \/ disco.c]
Guarda(m) == [m EXCEPT !.disco.guia = m.progreso]
PintaGuia(m) == [m EXCEPT !.guiaPintada = m.progreso.h]
Marca(m, id, v) ==
  LET puesta == Guarda([m EXCEPT !.progreso.h = IF v THEN @ \cup {id} ELSE @ \ {id}])
  IN IF (id \in m.progreso.h) = v THEN m ELSE IF m.guiaOn THEN PintaGuia(puesta) ELSE puesta
AbreGuia(m, v) ==
  LET puesta == Guarda([m EXCEPT !.progreso.c = ~v, !.progreso.visto = @ \/ v, !.resaltar = @ /\ ~v, !.guiaOn = v])
  IN IF v THEN PintaGuia(puesta) ELSE puesta
MontaUI(m, ancho) ==
  LET on == ~m.progreso.c /\ Hechos(m) < Cardinality(Pasos) /\ (m.progreso.visto \/ ancho >= AnchoGuia)
      nueva == ~m.progreso.c /\ ~m.progreso.visto /\ Hechos(m) < Cardinality(Pasos)
      puesta == [m EXCEPT !.guiaOn = on, !.resaltar = nueva /\ ~on]
  IN IF on THEN PintaGuia(Guarda([puesta EXCEPT !.progreso.visto = TRUE])) ELSE puesta
(* The module as it starts on a container of that width, with what the disk  *)
(* keeps.                                                                    *)
MemoriaNueva(disco, ancho, idioma) ==
  MontaUI([placas |-> <<>>, huecos |-> [i \in 1..Huecos |-> HuecoLibre], placaT |-> 0, lista |-> <<>>, listaSel |-> 0,
           listaVista |-> Nada, encLabels |-> Nada, verEncargos |-> disco.enc, foco |-> SinFoco,
           progreso |-> LeeProgreso(disco.guia), resaltar |-> FALSE, guiaOn |-> FALSE, guiaPintada |-> {},
           firma |-> Nada, idioma |-> idioma, disco |-> disco], ancho)
MarcaSi(m, id, si) == IF si THEN Marca(m, id, TRUE) ELSE m
Jugador(m, perfil, saldo) == MarcaSi(MarcaSi(m, "nombre", perfil), "rami", saldo > 0)

(***************************************************************************)
(* What the module does when the viewer calls it.                          *)
(***************************************************************************)
(* As it would be if the signature left out the sector of the parcels. *)
FirmaSinTipo(d) ==
  [me |-> d.me, huecos |-> d.huecos, parcels |-> [i \in DOMAIN d.parcels |-> [d.parcels[i] EXCEPT !.sale = FALSE, !.kind = 0]]]
FirmaCiudad(d) ==
  [me |-> d.me, huecos |-> d.huecos, parcels |-> [i \in DOMAIN d.parcels |-> [d.parcels[i] EXCEPT !.sale = FALSE]]]
RepintaGuia(m) == IF m.guiaOn THEN PintaGuia(m) ELSE m
RepintaIdioma(m, s) ==
  LET sin == [m EXCEPT !.huecos = SinClaves(@), !.placaT = PlacaCada]
  IN RepintaGuia(IF s.city = Nada THEN PintaLista(sin, s) ELSE PonEncargos(sin, s, s.city, TRUE))
CadaSegundo(m, s, idioma, dentro) ==
  MarcaSi(IF idioma # m.idioma THEN RepintaIdioma([m EXCEPT !.idioma = idioma], s) ELSE m, "entrar", dentro)
RehazCiudad(m, s, d) == PonEncargos(CalculaPlacas([m EXCEPT !.firma = FirmaCiudad(d)], d), s, d, FALSE)
MemListo(m, s) == IF s.city = Nada THEN m ELSE RehazCiudad(m, s, s.city)
MemCiudad(m, s, d) == IF FirmaCiudad(d) = m.firma THEN m ELSE RehazCiudad(m, s, d)
MemCuadro(m, s, dt) == BuscaHueco(ActualizaPlacas(m, s, dt), s)
MemModo(m, s) == PintaLista(MuestraEtiquetas(MarcaSi(m, "a_pie", s.mode = "walk"), s), s)
=============================================================================
