------------------------------ MODULE Umbral ------------------------------
(***************************************************************************)
(* Entering the buildings of the city view (umbral.js) and the modes of    *)
(* the viewer that take the visitor out of them (city3d.js): orbit, walk   *)
(* and the headset.                                                        *)
(*                                                                         *)
(* The visitor's position is the space he stands in.  A guided walk is the *)
(* program's own list of steps: the timed ones end in some frame, and the  *)
(* instantaneous ones after them run in that same frame.                   *)
(***************************************************************************)
EXTENDS PlanEdificio

CONSTANTS Parcelas, Barrios,   \* cells that may hold a parcel; buildings of the quarters
          Vistas,              \* what the chain may say of a parcel
          VistaBarrio,         \* the building of a quarter
          TapadoPor,           \* the parcel that hides a quarter's building while it is drawn
          PlanDe(_),           \* the plan of a building: [tipo, plantas, upp]
          Dado,                \* the morphology's roll for the flat to look at
          Colocaciones,        \* arrangements of furniture and lamps; 0 is the one it starts with
          MaxArregladas        \* (bound) rooms whose arrangement is ever changed

VARIABLES modo, xr,      \* S.mode; the state of the headset session
          ciudad,        \* S.city: parcel -> view
          cercano,       \* the portal last found in front of the visitor
          casa,          \* the building he is in
          seq,           \* the guided walk in progress
          pos,           \* the space he stands in
          sel,           \* the room whose piece of furniture is selected
          almacen,       \* localStorage: room -> arrangement
          perdido        \* rooms whose last arrangement the browser refused to store
vars == <<modo, xr, ciudad, cercano, casa, seq, pos, sel, almacen, perdido>>

Edificios == Vistas \cup {VistaBarrio}
Plantas == UNION {ToSet(PlanDe(v).plantas) : v \in Edificios}
Ranuras == {-1} \cup UNION {0..(PlanDe(v).upp - 1) : v \in Edificios}
Salas == (Parcelas \cup Barrios) \X ({0} \cup Plantas) \X Ranuras

(* The portals of a city: an object per building, which keeps the view it    *)
(* was made from.                                                            *)
Portal(id, pc) == [id |-> id, pc |-> pc]
Portales(c) == {Portal(p, c[p]) : p \in {q \in Parcelas : c[q] # Nada}}
                 \cup {Portal(b, VistaBarrio) : b \in Barrios}
Dibujado(po) == po.id \in Barrios => ciudad[TapadoPor[po.id]] = Nada
PuedeEntrar == modo = "walk" /\ xr # "si"

(* What the objects of the program look like: a flat, a building entered, a  *)
(* guided walk.                                                              *)
Pisos == [clase : {"atico", "unidad", "muestra"}, planta : Plantas, slot : Ranuras]
LosPortales == [id : Parcelas \cup Barrios, pc : Edificios]
Casas == [po : LosPortales, plan : {PlanDe(v) : v \in Edificios}, entrado : BOOLEAN,
          piso : Pisos \cup {Nada}, bajo : Colocaciones \cup {Nada},
          planta : [piso : Pisos, muebles : Colocaciones] \cup {Nada}, mismo : BOOLEAN,
          ve : {"bajo", "cabina", "planta"}, cabY : {0} \cup Plantas]
Recorridos == [tipo : {"entra", "sale", "viaje"}, i : 1..9, piso : Pisos \cup {Nada}]

(* null is none of them, and none of the values that may stand in its place. *)
ASSUME NadaAssumption ==
  /\ Nada \notin Vistas /\ Nada \notin Salas /\ Nada \notin Colocaciones /\ Nada \notin Pisos
  /\ Nada \notin LosPortales /\ Nada \notin Casas /\ Nada \notin Recorridos
  /\ Nada \notin [piso : Pisos, muebles : Colocaciones]
ASSUME IdsAssumption == Parcelas \cap Barrios = {} /\ TapadoPor \in [Barrios -> Parcelas]
ASSUME VistaAssumption ==
  \A v \in Edificios : v.parcela \in BOOLEAN /\ v.unidades \in Nat /\ v.mias \subseteq Nat
(* The tallest plan has something for the lift to reach, and a floor holds a *)
(* flat at least (planifica).                                                *)
ASSUME PlanAssumption ==
  \A v \in Edificios :
    /\ PlanDe(v).upp \in Nat \ {0} /\ PlanDe(v).plantas \in Seq(Nat)
    /\ PlanDe(v).tipo \in {"torre", "hotel", "concesionario"} => PlanDe(v).plantas # <<>>
(* The arrangement a room starts with, and a roll in quarters. *)
ASSUME DadoAssumption == 0 \in Colocaciones /\ Dado \in (0..3) \X (0..3)

-----------------------------------------------------------------------------
(* Rooms.  A furnished one remembers its arrangement under its own name.   *)
Leido(sala) == IF almacen[sala] = Nada THEN 0 ELSE almacen[sala]
ConAscensor(plan) == plan.tipo \in {"torre", "hotel", "concesionario"}
SalaPiso(po, piso) == <<po.id, piso.planta, piso.slot>>
SalaBajo(po) == <<po.id, 0, 0>>

(* Opening a building, hidden: the ground floor, and with a lift its cabin   *)
(* and the flat that is due.                                                 *)
Abre(po) ==
  LET plan == PlanDe(po.pc)
  IN [po |-> po, plan |-> plan, entrado |-> FALSE,
      piso |-> IF ConAscensor(plan) THEN EligePiso(plan, po.pc, Dado) ELSE Nada,
      bajo |-> IF plan.tipo = "villa" THEN Leido(SalaBajo(po)) ELSE Nada,
      planta |-> Nada,                     \* the flat that is built: [piso, muebles]
      mismo |-> FALSE,                     \* ... for the very object in `piso`
      ve |-> "bajo", cabY |-> 0]
(* As it would be if a flat were built with the furniture of its plan,       *)
(* whatever was stored.                                                      *)
MontaPlantaSinLeer(c, piso) ==
  IF c.mismo /\ piso = c.piso THEN c
  ELSE [c EXCEPT !.planta = [piso |-> piso, muebles |-> 0], !.mismo = (piso = c.piso)]
(* The flat `piso`, built afresh unless the one standing was built for that  *)
(* very object.                                                              *)
MontaPlanta(c, piso) ==
  IF c.mismo /\ piso = c.piso THEN c
  ELSE [c EXCEPT !.planta = [piso |-> piso, muebles |-> Leido(SalaPiso(c.po, piso))],
                 !.mismo = (piso = c.piso)]
(* The visible furnished room, its arrangement, or Nada. *)
SalaVisible(c) ==
  CASE c.ve = "planta" -> SalaPiso(c.po, c.planta.piso)
    [] c.ve = "bajo" /\ c.bajo # Nada -> SalaBajo(c.po)
    [] OTHER -> Nada
Muebles(c) == IF c.ve = "planta" THEN c.planta.muebles ELSE c.bajo
PonMuebles(c, d) == IF c.ve = "planta" THEN [c EXCEPT !.planta.muebles = d] ELSE [c EXCEPT !.bajo = d]

(* Which room is on view: one alone, or in a ride none but the cabin. *)
PonVisible(c, e) == [c EXCEPT !.ve = e]
CierraCasa == casa' = Nada /\ seq' = Nada /\ sel' = Nada
(* Out without walking: in front of the portal, looking at the street. *)
SalirYa == CierraCasa /\ pos' = "calle"

-----------------------------------------------------------------------------
(* Guided walks. *)
Entrada == <<"anda", "entrado">>
Salida == <<"anda", "cierra">>
Viaje == <<"abre", "sube", "cierra", "monta", "viaja", "llega", "abre", "baja", "cierra">>
Pasos == [entra |-> Entrada, sale |-> Salida, viaje |-> Viaje]
Corre(tipo, piso) == [tipo |-> tipo, i |-> 1, piso |-> piso]      \* piso: the flat, or Nada for the hall
Altura(piso) == IF piso = Nada THEN 0 ELSE piso.planta

(* As it would be if the arrival did not move the cabin. *)
LlegaSinCabina(c, piso) == PonVisible(c, IF piso = Nada THEN "bajo" ELSE "planta")
(* At a floor: the cabin stays there and the room is shown. *)
Llega(c, piso) == PonVisible([c EXCEPT !.cabY = Altura(piso)], IF piso = Nada THEN "bajo" ELSE "planta")

(* The effect of the ending of the current step and of the instantaneous one *)
(* behind it.                                                                *)
FinPaso(c, s) ==
  CASE s.tipo = "entra" -> [casa |-> [c EXCEPT !.entrado = TRUE], pos |-> "bajo", fin |-> TRUE]
    [] s.tipo = "sale" -> [casa |-> Nada, pos |-> "calle", fin |-> TRUE]
    [] s.tipo = "viaje" /\ s.i = 2 -> [casa |-> c, pos |-> "cabina", fin |-> FALSE]
    [] s.tipo = "viaje" /\ s.i = 3 ->                                   \* doors shut: build, show the cabin alone
         [casa |-> PonVisible(IF s.piso = Nada THEN c ELSE MontaPlanta(c, s.piso), "cabina"),
          pos |-> pos, fin |-> FALSE]
    [] s.tipo = "viaje" /\ s.i = 5 ->                                   \* arrived
         [casa |-> Llega(c, s.piso),
          pos |-> pos, fin |-> FALSE]
    [] s.tipo = "viaje" /\ s.i = 8 -> [casa |-> c, pos |-> c.ve, fin |-> FALSE]
    [] OTHER -> [casa |-> c, pos |-> pos, fin |-> FALSE]
Instantaneo(s) == Pasos[s.tipo][s.i] \in {"entrado", "monta", "llega"}
(* As it would be if a walk began again where it should go on. *)
SiguienteDeNuevo(s) == [s EXCEPT !.i = 1]
Siguiente(s) == LET t == [s EXCEPT !.i = @ + 1] IN
                IF t.i <= Len(Pasos[s.tipo]) /\ Instantaneo(t) THEN [t EXCEPT !.i = @ + 1] ELSE t

(* A frame in which the step in progress ends ... *)
Avanza ==
  \E f \in {FinPaso(casa, seq)} :
    /\ casa' = f.casa /\ pos' = f.pos
    /\ IF f.fin \/ seq.i = Len(Pasos[seq.tipo])
       THEN seq' = Nada ELSE seq' = Siguiente(seq)
    /\ sel' = IF f.casa = Nada THEN Nada ELSE sel
(* ... or goes on. Only walking puts the visitor anywhere: doors and the     *)
(* ride do not.                                                              *)
Sigue ==
  /\ pos' = IF Pasos[seq.tipo][seq.i] \in {"anda", "sube", "baja"} THEN "camino" ELSE pos
  /\ UNCHANGED <<casa, seq, sel>>

Entrar(po) == /\ casa' = Abre(po)      \* the building he may be in is shut first
              /\ seq' = Corre("entra", Nada) /\ sel' = Nada
              /\ UNCHANGED pos
SalirAndando ==
  IF casa.ve # "bajo" THEN SalirYa
  ELSE /\ casa' = [casa EXCEPT !.entrado = FALSE] /\ sel' = Nada
       /\ seq' = Corre("sale", Nada) /\ UNCHANGED pos
(* As it would be if the lift were taken with a piece still selected. *)
TomaAscensorConSel(piso) == seq' = Corre("viaje", piso) /\ UNCHANGED <<casa, pos, sel>>
TomaAscensor(piso) == /\ seq' = Corre("viaje", piso) /\ sel' = Nada /\ UNCHANGED <<casa, pos>>

-----------------------------------------------------------------------------
Ciudades == [Parcelas -> Vistas \cup {Nada}]
Init ==
  /\ modo = "orbit" /\ xr = "no" /\ ciudad \in Ciudades
  /\ cercano = Nada /\ casa = Nada /\ seq = Nada /\ pos = "calle" /\ sel = Nada
  /\ almacen = [s \in Salas |-> Nada] /\ perdido = {}

(* The building has changed under the visitor: another plan. In the street's *)
(* way of it, out; upstairs, to the flat that is due now; below, where he    *)
(* was.                                                                      *)
Reabre(po) ==
  IF seq # Nada \/ ~casa.entrado THEN SalirYa
  ELSE \E c \in {[Abre(po) EXCEPT !.entrado = TRUE]} :
         /\ IF casa.ve # "bajo" /\ ConAscensor(c.plan)
            THEN /\ casa' = Llega(MontaPlanta(c, c.piso), c.piso)
                 /\ pos' = "planta"
            ELSE casa' = c /\ pos' = "bajo"
         /\ seq' = Nada /\ sel' = Nada

(* As it would be if only the kind of building were compared. *)
GanchoCiudadSoloTipo(c) ==
  IF casa = Nada \/ casa.po.id \notin Parcelas THEN UNCHANGED <<casa, seq, pos, sel, cercano>>
  ELSE IF c[casa.po.id] = Nada \/ c[casa.po.id].arch # casa.po.pc.arch THEN SalirYa /\ UNCHANGED cercano
  ELSE UNCHANGED <<casa, seq, pos, sel, cercano>>
(* The hook that follows setCity: leave, open again or only take the new     *)
(* owner, sale and flats.                                                    *)
GanchoCiudad(c) ==
  IF casa = Nada \/ casa.po.id \notin Parcelas THEN UNCHANGED <<casa, seq, pos, sel, cercano>>
  ELSE LET pc == casa.po.pc
           nuevo == c[casa.po.id]
       IN IF nuevo = Nada THEN SalirYa /\ UNCHANGED cercano
          ELSE IF nuevo.arch # pc.arch THEN SalirYa /\ UNCHANGED cercano
          ELSE IF nuevo.alto # pc.alto \/ nuevo.unidades # pc.unidades
          THEN Reabre(Portal(casa.po.id, nuevo)) /\ UNCHANGED cercano
          ELSE /\ casa' = IF seq = Nada /\ casa.entrado /\ casa.ve = "bajo" /\ ConAscensor(casa.plan)
                          THEN [casa EXCEPT !.po.pc = nuevo, !.piso = EligePiso(casa.plan, nuevo, Dado),
                                            !.mismo = FALSE]
                          ELSE [casa EXCEPT !.po.pc = nuevo]
               /\ cercano' = IF cercano = casa.po THEN casa'.po ELSE cercano   \* the same object
               /\ UNCHANGED <<seq, pos, sel>>
(* setCity ignores a view whose hash has not changed; the portal in front of *)
(* the visitor is not looked for again.                                      *)
SetCity(c) == /\ c # ciudad /\ ciudad' = c /\ GanchoCiudad(c)
              /\ UNCHANGED <<modo, xr, almacen, perdido>>

(* The hooks of a change of mode and of the headset: to the street, in front *)
(* of the portal.                                                            *)
GanchoModo(m) == IF casa # Nada /\ m # "walk" THEN SalirYa ELSE UNCHANGED <<casa, seq, pos, sel>>
(* As it would be if the module did not listen to the headset. *)
GanchoVrSordo(activo) == UNCHANGED <<casa, seq, pos, sel>>
GanchoVr(activo) == IF casa # Nada /\ activo THEN SalirYa ELSE UNCHANGED <<casa, seq, pos, sel>>
SetMode(m) ==
  /\ m # modo /\ modo' = m
  /\ IF m = "walk" THEN /\ pos' = "calle"
                        /\ UNCHANGED <<casa, seq, sel>>
     ELSE GanchoModo(m)
  /\ UNCHANGED <<xr, ciudad, cercano, almacen, perdido>>
(* flyTo, flyToLandmark on foot and setPose move the visitor and tell no     *)
(* module.                                                                   *)
FlyTo ==
  /\ modo = "walk" /\ pos # "calle" /\ pos' = "calle"
  /\ UNCHANGED <<modo, xr, ciudad, cercano, casa, seq, sel, almacen, perdido>>

(* The headset: requested, granted or not, its session set up or not, ended. *)
EnterVR == /\ xr = "no" /\ xr' = "pidiendo"
           /\ UNCHANGED <<modo, ciudad, cercano, casa, seq, pos, sel, almacen, perdido>>
Respuesta(ok) == /\ xr = "pidiendo" /\ xr' = IF ok THEN "montando" ELSE "no"
                 /\ UNCHANGED <<modo, ciudad, cercano, casa, seq, pos, sel, almacen, perdido>>
SetSession == /\ xr = "montando" /\ xr' = "si"
              /\ cercano' = Nada /\ GanchoVr(TRUE)
              /\ UNCHANGED <<modo, ciudad, almacen, perdido>>
(* On foot where the glasses were, which after a failed start is the origin  *)
(* of the map.                                                               *)
RestoreDesktop == /\ xr \in {"montando", "si"} /\ xr' = "no"
                  /\ modo' = "walk" /\ pos' = "calle" /\ cercano' = Nada
                  /\ UNCHANGED <<ciudad, casa, seq, sel, almacen, perdido>>

(* A frame of the page: the walk, then the hook `cuadro`. *)
Busca == cercano' \in IF casa' = Nada /\ PuedeEntrar
                      THEN {cercano, Nada} \cup {po \in Portales(ciudad) : Dibujado(po)}
                      ELSE IF casa' = Nada THEN {Nada} ELSE {cercano}
(* As it would be if the walls that bound him were always those of the       *)
(* ground floor.                                                             *)
AndaDentroDelBajo == \/ pos' = "bajo" /\ UNCHANGED <<casa, seq, sel>>
                     \/ casa.ve = "bajo" /\ SalirAndando
(* Walking in the room, within its walls; through the street door, out.  In  *)
(* the width of that door nothing holds the visitor to the depth of the      *)
(* ground floor: whoever a flight put behind the house, in line with its     *)
(* door, stays there.                                                        *)
AndaDentro == \/ pos' = casa.ve /\ UNCHANGED <<casa, seq, sel>>
              \/ casa.ve = "bajo" /\ pos = "calle" /\ UNCHANGED <<casa, seq, pos, sel>>
              \/ casa.ve = "bajo" /\ SalirAndando
Anda ==
  \/ modo # "walk" /\ UNCHANGED <<casa, seq, pos, sel>>
  \/ modo = "walk" /\ casa = Nada /\ pos' = "calle" /\ UNCHANGED <<casa, seq, sel>>
  \/ modo = "walk" /\ casa # Nada /\ seq # Nada /\ Sigue
  \/ modo = "walk" /\ casa # Nada /\ seq = Nada /\ ~casa.entrado /\ CierraCasa /\ UNCHANGED pos
  \/ modo = "walk" /\ casa # Nada /\ seq = Nada /\ casa.entrado /\ AndaDentro
Cuadro == /\ xr # "si" /\ Anda /\ Busca
          /\ UNCHANGED <<modo, xr, ciudad, almacen, perdido>>
CuadroFin == /\ xr # "si" /\ modo = "walk" /\ seq # Nada
             /\ Avanza /\ Busca
             /\ UNCHANGED <<modo, xr, ciudad, almacen, perdido>>
CuadroVR == /\ xr = "si" /\ cercano' = IF casa = Nada THEN Nada ELSE cercano
            /\ UNCHANGED <<modo, xr, ciudad, casa, seq, pos, sel, almacen, perdido>>

-----------------------------------------------------------------------------
(* The keyboard and the pointer. What may be in front of the visitor to act  *)
(* on, lamps apart:                                                          *)
Objetivos == CASE casa.ve = "planta" -> {"ascensor"}
               [] casa.ve = "bajo" -> {"salida"} \cup (IF ConAscensor(casa.plan) THEN {"ascensor"} ELSE {})
               [] OTHER -> {}
Accion(o) == IF o = "salida" THEN SalirAndando
             ELSE TomaAscensor(IF casa.ve = "bajo" THEN casa.piso ELSE Nada)
TeclaF ==
  /\ \/ casa # Nada /\ seq = Nada /\ \E o \in Objetivos : Accion(o)
     \/ casa = Nada /\ cercano # Nada /\ PuedeEntrar /\ Entrar(cercano)
  /\ UNCHANGED <<modo, xr, ciudad, cercano, almacen, perdido>>
Escape ==
  /\ casa # Nada /\ seq = Nada
  /\ IF sel # Nada THEN sel' = Nada /\ UNCHANGED <<casa, seq, pos>> ELSE SalirAndando
  /\ UNCHANGED <<modo, xr, ciudad, cercano, almacen, perdido>>
(* The lift to a floor of one's choice (the panel). *)
IrAPlanta(n) ==
  /\ casa # Nada /\ ConAscensor(casa.plan) /\ seq = Nada
  /\ TomaAscensor(PisoEnPlanta(casa.plan, n, casa.piso))
  /\ UNCHANGED <<modo, xr, ciudad, cercano, almacen, perdido>>
Clic ==
  /\ casa # Nada /\ seq = Nada /\ casa.entrado
  /\ sel' \in {Nada, SalaVisible(casa)} \ {sel}
  /\ UNCHANGED <<modo, xr, ciudad, cercano, casa, seq, pos, almacen, perdido>>
(* Storing the arrangement d of a room, if the browser lets. *)
GuardaPiso(sala, d, ok) ==
  /\ almacen' = IF ok THEN [almacen EXCEPT ![sala] = d] ELSE almacen
  /\ perdido' = IF ok THEN perdido \ {sala} ELSE perdido \cup {sala}
(* Moving or turning the selected piece, or switching a lamp. *)
Recoloca(d, ok) ==
  /\ casa # Nada /\ seq = Nada /\ SalaVisible(casa) # Nada
  /\ Cardinality({s \in Salas : almacen[s] # Nada} \cup perdido \cup {SalaVisible(casa)}) <= MaxArregladas
  /\ d # Muebles(casa) /\ casa' = PonMuebles(casa, d)
  /\ GuardaPiso(SalaVisible(casa), d, ok)
  /\ UNCHANGED <<modo, xr, ciudad, cercano, seq, pos, sel>>
RestauraPiso ==
  /\ casa # Nada /\ seq = Nada /\ SalaVisible(casa) # Nada
  /\ casa' = PonMuebles(casa, 0)
  /\ almacen' = [almacen EXCEPT ![SalaVisible(casa)] = Nada]
  /\ perdido' = perdido \ {SalaVisible(casa)}
  /\ sel' = Nada
  /\ UNCHANGED <<modo, xr, ciudad, cercano, seq, pos>>

Next ==
  \/ \E c \in Ciudades : SetCity(c)
  \/ \E m \in {"orbit", "walk"} : SetMode(m)
  \/ FlyTo
  \/ EnterVR \/ (\E ok \in BOOLEAN : Respuesta(ok)) \/ SetSession \/ RestoreDesktop
  \/ Cuadro \/ CuadroFin \/ CuadroVR
  \/ TeclaF \/ Escape \/ Clic
  \/ \E n \in Plantas : IrAPlanta(n)
  \/ \E d \in Colocaciones, ok \in BOOLEAN : Recoloca(d, ok)
  \/ RestauraPiso
(* Frames come while the page is visible, and every timed step of a guided   *)
(* walk takes a bounded time.                                                *)
Spec == Init /\ [][Next]_vars /\ WF_vars(CuadroFin)

-----------------------------------------------------------------------------
(* What the variables hold: a walk, a selection or a portal is one that the  *)
(* program makes.                                                            *)
TypeOK ==
  /\ modo \in {"orbit", "walk"} /\ xr \in {"no", "pidiendo", "montando", "si"}
  /\ ciudad \in Ciudades /\ cercano \in LosPortales \cup {Nada}
  /\ casa \in Casas \cup {Nada} /\ seq \in Recorridos \cup {Nada}
  /\ pos \in {"calle", "camino", "cabina", "bajo", "planta"} /\ sel \in Salas \cup {Nada}
  /\ almacen \in [Salas -> Colocaciones \cup {Nada}] /\ perdido \subseteq Salas

(* Orbit and the headset have no interior: whoever leaves walking, by        *)
(* whatever way, leaves the building too, and with no building the visitor   *)
(* is on the street; halfway through a door there is always a guided walk    *)
(* that will finish the crossing (umbral.js modo, vr, andar).                *)
NoHouseOutsideWalk ==
  /\ casa # Nada => modo = "walk" /\ xr # "si"
  /\ casa = Nada => seq = Nada /\ pos = "calle"
  /\ casa # Nada /\ ~casa.entrado => seq # Nada

(* Unless it is travelling the lift is at the floor of the room on view, the *)
(* flat on view is one that the plan of the building has, and the cabin      *)
(* alone is on view only in a ride (tomaAscensor, reabre).                   *)
LiftIsAtTheLanding ==
  casa # Nada =>
    /\ casa.ve = "planta" => /\ casa.planta # Nada /\ casa.planta.piso.planta = casa.cabY
                             /\ casa.cabY \in ToSet(casa.plan.plantas)
    /\ casa.ve = "bajo" => casa.cabY = 0
    /\ casa.ve = "cabina" => seq # Nada /\ seq.tipo = "viaje"

(* After a frame in which nobody guides him the visitor is in the room he    *)
(* sees: upstairs wherever a flight of the panel had put him, on the ground  *)
(* floor unless a flight had put him in line with the street door, which     *)
(* leaves him where he is; no frame takes him out of a room (andaDentro).    *)
FramesKeepVisitorInside == [][Cuadro \/ CuadroFin =>
   (casa' # Nada /\ seq' = Nada /\ seq = Nada =>
      \/ pos' = casa'.ve
      \/ casa'.ve = "bajo" /\ pos = "calle" /\ pos' = "calle")]_vars

(* A new city never leaves the visitor in a building that it changed: after  *)
(* setCity the building he is in is there, of the same kind, height and      *)
(* division, with the owner the city gives it (gancho ciudad).               *)
OfTheCity == casa # Nada /\ casa.po.id \in Parcelas => ciudad[casa.po.id] = casa.po.pc
SetCityLeavesNoStaleHouse == [][ciudad' # ciudad => OfTheCity']_vars

(* What a furnished room shows is what the browser will give back the next   *)
(* time, unless it refused to store the last change: no path rebuilds a room *)
(* without reading it, or changes one without storing it.                    *)
FurnitureIsKept ==
  casa # Nada /\ SalaVisible(casa) # Nada /\ SalaVisible(casa) \notin perdido
    => Muebles(casa) = Leido(SalaVisible(casa))

(* The selected piece is one of the room on view, and none is during a       *)
(* guided walk: the arrows never move, and store, a piece of another floor   *)
(* (tomaAscensor, salirAndando, cierraCasa).                                 *)
SelectionIsOfThisRoom == sel # Nada => casa # Nada /\ seq = Nada /\ sel = SalaVisible(casa)

(* Every guided walk ends: the keys, which it swallows, come back. *)
GuidedWalksEnd == seq # Nada ~> seq = Nada
=============================================================================
