--------------------------- MODULE UmbralProofs ---------------------------
(***************************************************************************)
(* What the interiors of the city view (umbral.js) keep, for every set of  *)
(* parcels, every plan and every roll: proofs of the safety properties of  *)
(* Umbral and of those of Piso, the plans it draws.                        *)
(***************************************************************************)
EXTENDS Umbral, Piso, NatSetInduction

(***************************************************************************)
(* The flat a visitor is taken to is one of the plan.                      *)
(***************************************************************************)
LEMMA Divide ==
  ASSUME NEW a \in Nat, NEW b \in Nat \ {0}
  PROVE  a \div b \in Nat /\ a % b \in 0..(b - 1)
<1>1. a \div b \in Int /\ a % b \in 0..(b - 1) /\ a = (b * (a \div b)) + (a % b)
  BY SMT
<1>2. a \div b >= 0
  <2> DEFINE q == a \div b
  <2>1. q \in Int /\ a = (b * q) + (a % b) /\ a % b \in Int /\ a % b < b
    BY <1>1
  <2> HIDE DEF q
  <2>2. ASSUME q < 0 PROVE FALSE
    <3>1. b * q <= -b
      BY <2>1, <2>2, SMT
    <3>2. QED
      BY <2>1, <3>1, <1>1
  <2>3. QED
    BY <2>1, <2>2 DEF q
<1>3. QED
  BY <1>1, <1>2

\* A share of n in quarters, cut at n - 1, is one of n places.
LEMMA MenorDeCuartos ==
  ASSUME NEW d \in 0..3, NEW n \in Nat \ {0}
  PROVE  Menor(n - 1, (d * n) \div 4) \in 0..(n - 1)
<1>1. (d * n) \div 4 \in 0..(n - 1)
  OBVIOUS
<1>2. QED
  BY <1>1 DEF Menor

\* The places of a plan with a lift.
LEMMA PlanDeAscensor ==
  ASSUME NEW v \in Edificios, ConAscensor(PlanDe(v))
  PROVE  /\ PlanDe(v).plantas \in Seq(Nat) /\ Len(PlanDe(v).plantas) \in Nat \ {0}
         /\ \A k \in 1..Len(PlanDe(v).plantas) :
               PlanDe(v).plantas[k] \in ToSet(PlanDe(v).plantas) /\ PlanDe(v).plantas[k] \in Plantas
         /\ PlanDe(v).upp \in Nat \ {0}
         /\ \A r \in -1..(PlanDe(v).upp - 1) : r \in Ranuras
  BY PlanAssumption DEF ConAscensor, ToSet, Plantas, Ranuras

\* Where a flat is numbered, it is a floor and a slot of the plan.
LEMMA SitioDelPlan ==
  ASSUME NEW v \in Edificios, ConAscensor(PlanDe(v)), NEW n \in Nat,
         SitioUnidad(PlanDe(v), n) # Nada
  PROVE  \E k \in 1..Len(PlanDe(v).plantas), r \in 0..(PlanDe(v).upp - 1) :
            /\ SitioUnidad(PlanDe(v), n).planta = PlanDe(v).plantas[k]
            /\ SitioUnidad(PlanDe(v), n).slot = r
<1> DEFINE p == PlanDe(v)
           f == (n - 1) \div p.upp
<1>1. p.plantas \in Seq(Nat) /\ Len(p.plantas) \in Nat \ {0} /\ p.upp \in Nat \ {0}
  BY PlanDeAscensor
<1>2. /\ ~ (n < 1 \/ f >= Len(p.plantas))
      /\ SitioUnidad(p, n) = [planta |-> p.plantas[f + 1], slot |-> (n - 1) % p.upp]
  BY DEF SitioUnidad
<1>3. f \in Nat /\ (n - 1) % p.upp \in 0..(p.upp - 1)
  <2>1. n - 1 \in Nat
    BY <1>2
  <2>2. QED
    BY <1>1, <2>1, Divide
<1>4. f + 1 \in 1..Len(p.plantas)
  BY <1>1, <1>2, <1>3
<1>5. QED
  BY <1>2, <1>3, <1>4

\* The flat a visitor is taken to is on a floor the building's lift serves.
LEMMA EligePisoDelPlan ==
  ASSUME NEW v \in Edificios, ConAscensor(PlanDe(v)), NEW pc \in Edificios
  PROVE  /\ EligePiso(PlanDe(v), pc, Dado) \in Pisos
         /\ EligePiso(PlanDe(v), pc, Dado).planta \in ToSet(PlanDe(v).plantas)
<1> DEFINE p == PlanDe(v)
           n == Len(p.plantas)
           atico == AticoLibre(p, pc)
           mias == {m \in pc.mias : 1 <= m /\ m <= Divisiones(pc)}
           sitio == IF mias = {} THEN Nada ELSE SitioUnidad(p, Min(mias))
           nv == IF atico /\ n > 1 THEN n - 1 ELSE n
<1>1. /\ n \in Nat \ {0} /\ p.upp \in Nat \ {0}
      /\ \A k \in 1..n : p.plantas[k] \in ToSet(p.plantas) /\ p.plantas[k] \in Plantas
      /\ \A r \in -1..(p.upp - 1) : r \in Ranuras
  BY PlanDeAscensor
<1>2. /\ EligePiso(p, pc, Dado) =
           IF pc.dueno = "yo" /\ atico
           THEN [clase |-> "atico", planta |-> p.plantas[n], slot |-> -1]
           ELSE IF sitio # Nada THEN [clase |-> "unidad", planta |-> sitio.planta, slot |-> sitio.slot]
           ELSE [clase |-> "muestra", planta |-> p.plantas[Menor(nv - 1, (Dado[1] * nv) \div 4) + 1],
                 slot |-> Menor(p.upp - 1, (Dado[2] * p.upp) \div 4)]
  BY DEF EligePiso
<1>3. CASE pc.dueno = "yo" /\ atico
  <2>1. -1 \in Ranuras /\ n \in 1..n
    BY <1>1
  <2>2. QED
    BY <1>1, <1>2, <1>3, <2>1 DEF Pisos
<1>4. CASE ~ (pc.dueno = "yo" /\ atico) /\ sitio # Nada
  <2>1. mias # {} /\ mias \subseteq Nat
    BY <1>4, VistaAssumption
  <2>2. \E x \in mias : \A y \in mias : x <= y
    BY <2>1, LeastOfNaturals
  <2>3. Min(mias) \in mias
    BY <2>2 DEF Min
  <2>4. PICK k \in 1..n, r \in 0..(p.upp - 1) : sitio.planta = p.plantas[k] /\ sitio.slot = r
    BY <1>4, <2>1, <2>3, SitioDelPlan
  <2>5. QED
    BY <1>1, <1>2, <1>4, <2>4 DEF Pisos
<1>5. CASE ~ (pc.dueno = "yo" /\ atico) /\ sitio = Nada
  <2>1. Dado[1] \in 0..3 /\ Dado[2] \in 0..3
    BY DadoAssumption
  <2>2. \A m \in Nat \ {0} : /\ Menor(m - 1, (Dado[1] * m) \div 4) \in 0..(m - 1)
                             /\ Menor(m - 1, (Dado[2] * m) \div 4) \in 0..(m - 1)
    BY <2>1, MenorDeCuartos
  <2>3. nv \in 1..n
    BY <1>1
  <2> HIDE DEF nv
  <2>4. nv \in Nat \ {0} /\ \A k \in 0..(nv - 1) : k + 1 \in 1..n
    BY <1>1, <2>3
  <2>5. Menor(nv - 1, (Dado[1] * nv) \div 4) + 1 \in 1..n
    BY <2>2, <2>4
  <2>6. Menor(p.upp - 1, (Dado[2] * p.upp) \div 4) \in -1..(p.upp - 1)
    <3>1. p.upp \in Nat \ {0}
      BY <1>1
    <3> HIDE DEF p
    <3>2. QED
      BY <2>2, <3>1
  <2>7. QED
    BY <1>1, <1>2, <1>5, <2>5, <2>6 DEF Pisos
<1>6. QED
  BY <1>3, <1>4, <1>5

(* The floor that the panel asks for: the nearest that the plan has. *)
LEMMA PisoDelPlan ==
  ASSUME NEW v \in Edificios, ConAscensor(PlanDe(v)), NEW n \in Nat,
         NEW actual \in Pisos
  PROVE  /\ PisoEnPlanta(PlanDe(v), n, actual) \in Pisos
         /\ PisoEnPlanta(PlanDe(v), n, actual).planta \in ToSet(PlanDe(v).plantas)
<1> DEFINE w == PlanDe(v).plantas
           lejos(i) == Dist(w[i], n)
           D == {lejos(i) : i \in DOMAIN w}
<1>1. /\ w \in Seq(Nat) /\ Len(w) \in Nat \ {0} /\ DOMAIN w = 1..Len(w)
      /\ \A k \in DOMAIN w : w[k] \in ToSet(w) /\ w[k] \in Plantas /\ w[k] \in Nat
      /\ 0 \in Ranuras
  <2>1. /\ w \in Seq(Nat) /\ Len(w) \in Nat \ {0}
        /\ \A k \in 1..Len(w) : w[k] \in ToSet(w) /\ w[k] \in Plantas
        /\ PlanDe(v).upp \in Nat \ {0} /\ \A r \in -1..(PlanDe(v).upp - 1) : r \in Ranuras
    BY PlanDeAscensor
  <2>2. DOMAIN w = 1..Len(w) /\ \A k \in DOMAIN w : w[k] \in Nat
    BY <2>1
  <2>3. 0 \in -1..(PlanDe(v).upp - 1)
    BY <2>1
  <2>4. QED
    BY <2>1, <2>2, <2>3
<1>2. \E d \in D : \A e \in D : d <= e
  <2>1. D # {} /\ D \subseteq Nat
    BY <1>1 DEF Dist
  <2> HIDE DEF D
  <2>2. QED
    BY <2>1, LeastOfNaturals
<1>3. PICK d \in D : \A e \in D : d <= e
  BY <1>2
<1> DEFINE I == {i \in DOMAIN w : lejos(i) = d}
<1>4. PICK i \in I : \A j \in I : i <= j
  <2>1. I # {} /\ I \subseteq Nat
    BY <1>1
  <2> HIDE DEF I
  <2>2. QED
    BY <2>1, LeastOfNaturals
<1>5. i \in DOMAIN w /\ \A j \in DOMAIN w : lejos(i) < lejos(j) \/ (lejos(i) = lejos(j) /\ i <= j)
  <2>1. ASSUME NEW j \in DOMAIN w PROVE lejos(i) < lejos(j) \/ (lejos(i) = lejos(j) /\ i <= j)
    <3>0. \A k \in DOMAIN w : lejos(k) \in Nat
      <4>1. \A x \in Nat : Dist(x, n) \in Nat
        BY DEF Dist
      <4>2. QED
        BY <1>1, <4>1
    <3>1. lejos(i) = d /\ lejos(j) \in D /\ lejos(j) \in Nat /\ d \in Nat
      BY <2>1, <3>0
    <3>2. d <= lejos(j)
      BY <1>3, <3>1
    <3>3. QED
      BY <1>4, <2>1, <3>1, <3>2
  <2>2. QED
    BY <2>1
<1>6. (CHOOSE k \in DOMAIN w : \A j \in DOMAIN w :
         lejos(k) < lejos(j) \/ (lejos(k) = lejos(j) /\ k <= j)) \in DOMAIN w
  BY <1>5
<1>7. Primero(DOMAIN w, LAMBDA k : Dist(w[k], n)) \in DOMAIN w
  BY <1>6 DEF Primero
<1>8. \E k \in DOMAIN w : PisoEnPlanta(PlanDe(v), n, actual) =
        IF actual.planta = w[k] THEN actual ELSE [clase |-> "muestra", planta |-> w[k], slot |-> 0]
  BY <1>6 DEF PisoEnPlanta, Primero
<1>9. QED
  BY <1>1, <1>8 DEF Pisos

-----------------------------------------------------------------------------
(***************************************************************************)
(* The inductive invariant.  A building entered is well built: with a lift *)
(* it has a flat due, the flat built is one of the plan, and there is no   *)
(* furnished ground floor beside it.                                       *)
(***************************************************************************)
Construida(c) ==
  /\ ConAscensor(c.plan) => c.piso # Nada /\ c.piso.planta \in ToSet(c.plan.plantas)
  /\ c.mismo => c.planta # Nada /\ c.planta.piso = c.piso
  /\ c.planta # Nada => ConAscensor(c.plan) /\ c.planta.piso.planta \in ToSet(c.plan.plantas)
  /\ c.bajo # Nada => ~ConAscensor(c.plan)

(* The cabin is where the room on view is. *)
Rellano(c) ==
  /\ c.ve = "planta" => c.planta # Nada /\ c.planta.piso.planta = c.cabY
  /\ c.ve = "bajo" => c.cabY = 0

(* Every room that is built, on view or not, has the arrangement that was    *)
(* stored.                                                                   *)
Guardada(c) ==
  /\ c.bajo # Nada /\ SalaBajo(c.po) \notin perdido => c.bajo = Leido(SalaBajo(c.po))
  /\ c.planta # Nada /\ SalaPiso(c.po, c.planta.piso) \notin perdido
       => c.planta.muebles = Leido(SalaPiso(c.po, c.planta.piso))

(* The step a guided walk is at, and what it has done by then: riding, the   *)
(* cabin alone is on view and the flat at the end of the ride is built.      *)
EnMarcha(c, s) ==
  /\ c.ve = "cabina" => s # Nada /\ s.tipo = "viaje" /\ s.i = 5
  /\ s # Nada =>
     \/ s.tipo \in {"entra", "sale"} /\ c.ve = "bajo" /\ s.i = 1
     \/ /\ s.tipo = "viaje" /\ ConAscensor(c.plan) /\ c.entrado /\ s.i \in {1, 2, 3, 5, 7, 8, 9}
        /\ s.piso # Nada => s.piso.planta \in ToSet(c.plan.plantas)
        /\ s.i = 5 => c.ve = "cabina"
        /\ s.i = 5 /\ s.piso # Nada => c.planta # Nada /\ c.planta.piso.planta = s.piso.planta

Dentro ==
  /\ casa \in Casas \cup {Nada} /\ seq \in Recorridos \cup {Nada}
  /\ pos \in {"calle", "camino", "cabina", "bajo", "planta"} /\ sel \in Salas \cup {Nada}
  /\ casa = Nada => seq = Nada /\ pos = "calle"
  /\ casa # Nada => /\ Construida(casa) /\ Rellano(casa) /\ Guardada(casa) /\ EnMarcha(casa, seq)
                    /\ ~casa.entrado => seq # Nada
  /\ SelectionIsOfThisRoom

Memoria ==
  /\ almacen \in [Salas -> Colocaciones \cup {Nada}] /\ perdido \subseteq Salas

Exterior ==
  /\ modo \in {"orbit", "walk"} /\ xr \in {"no", "pidiendo", "montando", "si"}
  /\ ciudad \in Ciudades /\ cercano \in LosPortales \cup {Nada}
  /\ casa # Nada => modo = "walk" /\ xr # "si"

IInv == Dentro /\ Memoria /\ Exterior

-----------------------------------------------------------------------------
(***************************************************************************)
(* Rooms and buildings.                                                    *)
(***************************************************************************)
LEMMA SalasDeCasa ==
  ASSUME NEW po \in LosPortales
  PROVE  /\ SalaBajo(po) \in Salas
         /\ \A piso \in Pisos : SalaPiso(po, piso) \in Salas
<1>1. 0 \in Ranuras
  <2>1. VistaBarrio \in Edificios /\ 0 \in 0..(PlanDe(VistaBarrio).upp - 1)
    BY PlanAssumption DEF Edificios
  <2>2. QED
    BY <2>1 DEF Ranuras
<1>2. QED
  BY <1>1 DEF SalaBajo, SalaPiso, Salas, Pisos, LosPortales

\* What is read of a room, stored or not, is an arrangement of its furniture.
LEMMA LeidoEsColocacion ==
  ASSUME Memoria, NEW sala \in Salas
  PROVE  Leido(sala) \in Colocaciones
  BY DadoAssumption DEF Memoria, Leido

\* The house as it is built at its door: the ground floor on view, with the
\* furniture the store keeps, and the visitor still to come in.
LEMMA AbreBien ==
  ASSUME Memoria, NEW po \in LosPortales
  PROVE  /\ Abre(po) \in Casas /\ Abre(po) # Nada
         /\ Construida(Abre(po)) /\ Rellano(Abre(po)) /\ Guardada(Abre(po))
         /\ Abre(po).po = po /\ Abre(po).ve = "bajo" /\ ~Abre(po).entrado /\ Abre(po).plan = PlanDe(po.pc)
         /\ Abre(po).planta = Nada /\ ~Abre(po).mismo
<1> DEFINE c == Abre(po)
           plan == PlanDe(po.pc)
<1>1. po.pc \in Edificios /\ SalaBajo(po) \in Salas /\ Leido(SalaBajo(po)) \in Colocaciones
  BY SalasDeCasa, LeidoEsColocacion DEF LosPortales
<1>2. ConAscensor(plan) => /\ EligePiso(plan, po.pc, Dado) \in Pisos
                           /\ EligePiso(plan, po.pc, Dado).planta \in ToSet(plan.plantas)
  BY <1>1, EligePisoDelPlan
<1>3. c = [po |-> po, plan |-> plan, entrado |-> FALSE,
           piso |-> IF ConAscensor(plan) THEN EligePiso(plan, po.pc, Dado) ELSE Nada,
           bajo |-> IF plan.tipo = "villa" THEN Leido(SalaBajo(po)) ELSE Nada,
           planta |-> Nada, mismo |-> FALSE, ve |-> "bajo", cabY |-> 0]
  BY DEF Abre
<1> HIDE DEF c
<1>4. c \in Casas
  BY <1>1, <1>2, <1>3 DEF Casas
<1>5. /\ c.po = po /\ c.plan = plan /\ c.entrado = FALSE /\ c.planta = Nada /\ c.mismo = FALSE
      /\ c.ve = "bajo" /\ c.cabY = 0
      /\ c.piso = IF ConAscensor(plan) THEN EligePiso(plan, po.pc, Dado) ELSE Nada
      /\ c.bajo = IF plan.tipo = "villa" THEN Leido(SalaBajo(po)) ELSE Nada
  BY <1>3
<1>6. Construida(c)
  BY <1>2, <1>5, NadaAssumption DEF Construida, ConAscensor
<1>7. Rellano(c) /\ Guardada(c)
  BY <1>5 DEF Rellano, Guardada
<1>8. QED
  BY <1>4, <1>5, <1>6, <1>7, NadaAssumption DEF c

\* Another floor mounted in a house is built with its own furniture, and is the
\* floor asked for.
LEMMA MontaPlantaBien ==
  ASSUME Memoria, NEW c \in Casas, Construida(c), Guardada(c), ConAscensor(c.plan),
         NEW piso \in Pisos, piso.planta \in ToSet(c.plan.plantas)
  PROVE  \E m \in Casas :
            /\ MontaPlanta(c, piso) = m
            /\ Construida(m) /\ Guardada(m) /\ m.planta # Nada /\ m.planta.piso = piso
            /\ m.po = c.po /\ m.plan = c.plan /\ m.entrado = c.entrado
<1>1. CASE c.mismo /\ piso = c.piso
  BY <1>1 DEF MontaPlanta, Construida
<1>2. CASE ~(c.mismo /\ piso = c.piso)
  <2> DEFINE r == [piso |-> piso, muebles |-> Leido(SalaPiso(c.po, piso))]
             m == [c EXCEPT !.planta = r, !.mismo = (piso = c.piso)]
  <2>1. c.po \in LosPortales
    BY DEF Casas
  <2>2. r \in [piso : Pisos, muebles : Colocaciones] /\ r # Nada
    BY <2>1, SalasDeCasa, LeidoEsColocacion, NadaAssumption
  <2>3. r.piso = piso /\ r.muebles = Leido(SalaPiso(c.po, piso))
    OBVIOUS
  <2> HIDE DEF r
  <2>4. MontaPlanta(c, piso) = m
    BY <1>2 DEF MontaPlanta, r
  <2>5. /\ m \in Casas /\ m.planta = r /\ m.mismo = (piso = c.piso) /\ m.piso = c.piso /\ m.bajo = c.bajo
        /\ m.po = c.po /\ m.plan = c.plan /\ m.entrado = c.entrado
    BY <2>2 DEF Casas
  <2> HIDE DEF m
  <2>6. Construida(m)
    BY <2>2, <2>3, <2>5 DEF Construida
  <2>7. Guardada(m)
    BY <2>3, <2>5 DEF Guardada
  <2>8. QED
    BY <2>2, <2>3, <2>4, <2>5, <2>6, <2>7
<1>3. QED
  BY <1>1, <1>2

-----------------------------------------------------------------------------
(***************************************************************************)
(* What happens inside, whatever else changes outside.                     *)
(***************************************************************************)
LEMMA NadaCambia ==
  ASSUME Dentro, UNCHANGED <<casa, seq, pos, sel, almacen, perdido>>
  PROVE  Dentro'
  BY DEF Dentro, Construida, Rellano, Guardada, EnMarcha, SelectionIsOfThisRoom, SalaVisible, Leido,
         SalaBajo, SalaPiso

\* With no house nothing of the interior is left to be wrong.
LEMMA AlaCalle ==
  ASSUME casa' = Nada, seq' = Nada, sel' = Nada, pos' = "calle"
  PROVE  Dentro'
  BY DEF Dentro, SelectionIsOfThisRoom

(* The visitor stays in his building and nothing is touched but the walk and *)
(* where he is.                                                              *)
LEMMA OtroPaso ==
  ASSUME Dentro, casa # Nada, UNCHANGED <<casa, almacen, perdido>>,
         sel' = Nada, pos' \in {"calle", "camino", "cabina", "bajo", "planta"},
         seq' \in Recorridos \cup {Nada}, EnMarcha(casa, seq'), ~casa.entrado => seq' # Nada
  PROVE  Dentro'
  BY DEF Dentro, Construida, Rellano, Guardada, EnMarcha, SelectionIsOfThisRoom, SalaVisible, Leido,
         SalaBajo, SalaPiso

(* Another building, or the same one with another room on view. *)
LEMMA OtraCasa ==
  ASSUME NEW c \in Casas, casa' = c, UNCHANGED <<almacen, perdido>>,
         Construida(c), Rellano(c), Guardada(c), EnMarcha(c, seq'), ~c.entrado => seq' # Nada,
         sel' = Nada, pos' \in {"calle", "camino", "cabina", "bajo", "planta"},
         seq' \in Recorridos \cup {Nada}
  PROVE  Dentro'
  BY NadaAssumption DEF Dentro, Construida, Rellano, Guardada, EnMarcha, SelectionIsOfThisRoom, Leido

\* What is on view is only that: the house stays as it was.
LEMMA PonVisibleBien ==
  ASSUME NEW c \in Casas, NEW e \in {"bajo", "cabina", "planta"}
  PROVE  /\ PonVisible(c, e) \in Casas /\ PonVisible(c, e).ve = e
         /\ Construida(c) => Construida(PonVisible(c, e))
         /\ Guardada(c) => Guardada(PonVisible(c, e))
         /\ \A f \in {"po", "plan", "entrado", "piso", "bajo", "planta", "mismo", "cabY"} :
              PonVisible(c, e)[f] = c[f]
  BY DEF PonVisible, Casas, Construida, Guardada

(* Arriving: to the hall, or to a flat that is built. *)
LEMMA LlegaBien ==
  ASSUME NEW c \in Casas, NEW piso \in Pisos \cup {Nada}, Construida(c), Guardada(c),
         piso # Nada => c.planta # Nada /\ c.planta.piso.planta = piso.planta
  PROVE  \E m \in Casas :
            /\ Llega(c, piso) = m /\ Construida(m) /\ Guardada(m) /\ Rellano(m)
            /\ m.ve = (IF piso = Nada THEN "bajo" ELSE "planta")
            /\ m.po = c.po /\ m.plan = c.plan /\ m.entrado = c.entrado
<1> DEFINE e == IF piso = Nada THEN "bajo" ELSE "planta"
           m == [c EXCEPT !.cabY = Altura(piso), !.ve = e]
<1>1. Altura(piso) \in {0} \cup Plantas
  BY DEF Altura, Pisos
<1>2. Llega(c, piso) = m
  BY DEF Llega, PonVisible, Casas
<1>3. /\ m \in Casas /\ m.ve = e /\ m.cabY = Altura(piso) /\ m.po = c.po /\ m.plan = c.plan
      /\ m.entrado = c.entrado /\ m.piso = c.piso /\ m.bajo = c.bajo /\ m.planta = c.planta /\ m.mismo = c.mismo
  BY <1>1 DEF Casas
<1> HIDE DEF m
<1>4. Construida(m) /\ Guardada(m)
  BY <1>3 DEF Construida, Guardada
<1>5. Rellano(m)
  BY <1>3 DEF Rellano, Altura
<1>6. QED
  BY <1>2, <1>3, <1>4, <1>5

-----------------------------------------------------------------------------
(***************************************************************************)
(* Guided walks.                                                           *)
(***************************************************************************)
LEMMA CorreBien ==
  ASSUME NEW tipo \in {"entra", "sale", "viaje"}, NEW piso \in Pisos \cup {Nada}
  PROVE  /\ Corre(tipo, piso) \in Recorridos /\ Corre(tipo, piso) # Nada
         /\ Corre(tipo, piso).tipo = tipo /\ Corre(tipo, piso).i = 1 /\ Corre(tipo, piso).piso = piso
  BY NadaAssumption DEF Corre, Recorridos

\* The step that follows in a ride, the instantaneous ones skipped.
LEMMA SiguienteDelViaje ==
  ASSUME NEW s \in Recorridos, s.tipo = "viaje", s.i \in {1, 2, 3, 5, 7, 8}
  PROVE  /\ Siguiente(s) \in Recorridos /\ Siguiente(s).tipo = "viaje" /\ Siguiente(s).piso = s.piso
         /\ Siguiente(s).i = CASE s.i = 1 -> 2 [] s.i = 2 -> 3 [] s.i = 3 -> 5 [] s.i = 5 -> 7
                               [] s.i = 7 -> 8 [] s.i = 8 -> 9
<1> DEFINE t == [s EXCEPT !.i = @ + 1]
           u == [t EXCEPT !.i = @ + 1]
<1>1. /\ t \in Recorridos /\ t.tipo = "viaje" /\ t.piso = s.piso /\ t.i = s.i + 1 /\ t.i \in 1..9
  BY DEF Recorridos
<1>2. t.i \in 1..8 => u \in Recorridos /\ u.tipo = "viaje" /\ u.piso = s.piso /\ u.i = t.i + 1
  <2> HIDE DEF t
  <2>1. QED
    BY <1>1 DEF Recorridos
<1>3. Pasos["viaje"] = Viaje /\ Len(Viaje) = 9
  BY DEF Pasos, Viaje
<1>4. Instantaneo(t) <=> t.i \in {4, 6}
  <2>1. Instantaneo(t) <=> Viaje[t.i] \in {"entrado", "monta", "llega"}
    BY <1>1, <1>3 DEF Instantaneo
  <2> HIDE DEF t
  <2>2. t.i \in {2, 3, 4, 6, 8, 9}
    BY <1>1
  <2>3. QED
    BY <2>1, <2>2 DEF Viaje
<1>5. Siguiente(s) = IF t.i <= 9 /\ Instantaneo(t) THEN u ELSE t
  BY <1>1, <1>3 DEF Siguiente
<1> HIDE DEF t, u
<1>6. QED
  BY <1>1, <1>2, <1>4, <1>5

\* A walk that has not ended its step changes nothing but where the visitor is.
LEMMA SigueBien ==
  ASSUME Dentro, casa # Nada, seq # Nada, Sigue, UNCHANGED <<almacen, perdido>>
  PROVE  Dentro'
<1>1. sel = Nada
  BY DEF Dentro, SelectionIsOfThisRoom
<1>2. pos' \in {"calle", "camino", "cabina", "bajo", "planta"}
  BY DEF Sigue, Dentro
<1>3. UNCHANGED <<casa, seq, sel>>
  BY DEF Sigue
<1>4. EnMarcha(casa, seq') /\ (~casa.entrado => seq' # Nada) /\ seq' \in Recorridos \cup {Nada}
  BY <1>3 DEF Dentro
<1>5. QED
  BY <1>1, <1>2, <1>3, <1>4, OtroPaso

\* The end of a step of a walk, and the step after it, leave a sound interior.
LEMMA AvanzaBien ==
  ASSUME Dentro, Memoria, casa # Nada, seq # Nada, Avanza, UNCHANGED <<almacen, perdido>>
  PROVE  Dentro'
<1> DEFINE f == FinPaso(casa, seq)
<1>1. /\ casa' = f.casa /\ pos' = f.pos
      /\ seq' = IF f.fin \/ seq.i = Len(Pasos[seq.tipo]) THEN Nada ELSE Siguiente(seq)
      /\ sel = Nada /\ sel' = Nada
  BY DEF Avanza, Dentro, SelectionIsOfThisRoom
<1>2. /\ casa \in Casas /\ seq \in Recorridos /\ EnMarcha(casa, seq)
      /\ Construida(casa) /\ Rellano(casa) /\ Guardada(casa)
      /\ pos \in {"calle", "camino", "cabina", "bajo", "planta"}
  BY DEF Dentro
<1>3. CASE seq.tipo = "entra"
  <2> DEFINE c == [casa EXCEPT !.entrado = TRUE]
  <2>1. casa' = c /\ pos' = "bajo" /\ seq' = Nada
    BY <1>1, <1>3 DEF FinPaso
  <2>2. /\ c \in Casas /\ c.entrado = TRUE
        /\ \A g \in {"po", "plan", "piso", "bajo", "planta", "mismo", "ve", "cabY"} : c[g] = casa[g]
    BY <1>2 DEF Casas
  <2> HIDE DEF c
  <2>3. Construida(c) /\ Rellano(c) /\ Guardada(c)
    BY <1>2, <2>2 DEF Construida, Rellano, Guardada
  <2>4. c.ve = "bajo" /\ EnMarcha(c, seq')
    BY <1>2, <1>3, <2>1, <2>2 DEF EnMarcha
  <2>5. QED
    BY <1>1, <2>1, <2>2, <2>3, <2>4, OtraCasa
<1>4. CASE seq.tipo = "sale"
  BY <1>1, <1>4, AlaCalle DEF FinPaso
<1>5. CASE seq.tipo = "viaje"
  <2>1. /\ seq.i \in {1, 2, 3, 5, 7, 8, 9} /\ ConAscensor(casa.plan) /\ casa.entrado
        /\ seq.piso \in Pisos \cup {Nada}
        /\ seq.piso # Nada => seq.piso.planta \in ToSet(casa.plan.plantas)
        /\ seq.i = 5 => /\ casa.ve = "cabina"
                        /\ seq.piso # Nada => casa.planta # Nada /\ casa.planta.piso.planta = seq.piso.planta
        /\ casa.ve = "cabina" => seq.i = 5
    BY <1>2, <1>5 DEF EnMarcha, Recorridos
  <2>2. Len(Pasos[seq.tipo]) = 9
    BY <1>5 DEF Pasos, Viaje
  <2>3. CASE seq.i \in {1, 2, 7, 8, 9}
    <3>1. casa' = casa /\ pos' \in {"calle", "camino", "cabina", "bajo", "planta"}
      BY <1>1, <1>2, <1>5, <2>3 DEF FinPaso, Casas
    <3>2. f.fin = FALSE
      BY <1>5, <2>3 DEF FinPaso
    <3>3. seq.i # 9 => /\ seq' = Siguiente(seq) /\ seq' \in Recorridos /\ seq'.tipo = "viaje"
                       /\ seq'.piso = seq.piso /\ seq'.i \in {2, 3, 8, 9}
      BY <1>1, <1>2, <1>5, <2>2, <2>3, <3>2, SiguienteDelViaje
    <3>4. seq.i = 9 => seq' = Nada
      BY <1>1, <2>2
    <3>5. EnMarcha(casa, seq') /\ seq' \in Recorridos \cup {Nada}
      BY <2>1, <2>3, <3>3, <3>4 DEF EnMarcha
    <3>6. QED
      BY <1>1, <2>1, <3>1, <3>5, OtroPaso
  <2>4. CASE seq.i = 3
    <3> DEFINE b == IF seq.piso = Nada THEN casa ELSE MontaPlanta(casa, seq.piso)
               c == PonVisible(b, "cabina")
    <3>1. casa' = c /\ pos' = pos /\ f.fin = FALSE
      BY <1>1, <1>5, <2>4 DEF FinPaso
    <3>2. /\ seq' \in Recorridos /\ seq'.tipo = "viaje" /\ seq'.piso = seq.piso /\ seq'.i = 5
      BY <1>1, <1>2, <1>5, <2>2, <2>4, <3>1, SiguienteDelViaje
    <3>3. \E m \in Casas : /\ b = m /\ Construida(m) /\ Guardada(m) /\ m.po = casa.po /\ m.plan = casa.plan
                           /\ m.entrado = casa.entrado
                           /\ seq.piso # Nada => m.planta # Nada /\ m.planta.piso = seq.piso
      BY <1>2, <2>1, MontaPlantaBien
    <3> HIDE DEF b
    <3>4. /\ c \in Casas /\ c.ve = "cabina" /\ Construida(c) /\ Guardada(c)
          /\ c.plan = casa.plan /\ c.entrado = casa.entrado
          /\ seq.piso # Nada => c.planta # Nada /\ c.planta.piso = seq.piso
      BY <3>3, PonVisibleBien
    <3> HIDE DEF c
    <3>5. Rellano(c) /\ EnMarcha(c, seq')
      BY <2>1, <3>2, <3>4, NadaAssumption DEF Rellano, EnMarcha
    <3>6. QED
      BY <1>1, <1>2, <2>1, <3>1, <3>2, <3>4, <3>5, OtraCasa
  <2>5. CASE seq.i = 5
    <3>1. casa' = Llega(casa, seq.piso) /\ pos' = pos /\ f.fin = FALSE
      BY <1>1, <1>5, <2>5 DEF FinPaso
    <3>2. seq' \in Recorridos /\ seq'.tipo = "viaje" /\ seq'.piso = seq.piso /\ seq'.i = 7
      BY <1>1, <1>2, <1>5, <2>2, <2>5, <3>1, SiguienteDelViaje
    <3>a. /\ casa \in Casas /\ seq.piso \in Pisos \cup {Nada} /\ Construida(casa) /\ Guardada(casa)
          /\ seq.piso # Nada => casa.planta # Nada /\ casa.planta.piso.planta = seq.piso.planta
      BY <1>2, <2>1, <2>5
    <3>3. PICK c \in Casas : /\ Llega(casa, seq.piso) = c /\ Construida(c) /\ Guardada(c) /\ Rellano(c)
                             /\ c.ve = (IF seq.piso = Nada THEN "bajo" ELSE "planta")
                             /\ c.po = casa.po /\ c.plan = casa.plan /\ c.entrado = casa.entrado
      BY <3>a, LlegaBien
    <3>4. EnMarcha(c, seq')
      BY <2>1, <3>2, <3>3, NadaAssumption DEF EnMarcha
    <3>5. QED
      BY <1>1, <1>2, <2>1, <3>1, <3>2, <3>3, <3>4, OtraCasa
  <2>6. QED
    BY <2>1, <2>3, <2>4, <2>5
<1>6. QED
  BY <1>2, <1>3, <1>4, <1>5 DEF Recorridos

\* Coming in from the street.
LEMMA EntrarBien ==
  ASSUME Dentro, Memoria, NEW po \in LosPortales, casa = Nada, Entrar(po), UNCHANGED <<almacen, perdido>>
  PROVE  Dentro'
<1> DEFINE c == Abre(po)
<1>1. casa' = c /\ seq' = Corre("entra", Nada) /\ sel' = Nada /\ pos' = pos
  BY DEF Entrar
<1>2. /\ c \in Casas /\ Construida(c) /\ Rellano(c) /\ Guardada(c) /\ c.ve = "bajo" /\ ~c.entrado
  BY AbreBien
<1>3. seq' \in Recorridos /\ seq' # Nada /\ seq'.tipo = "entra" /\ seq'.i = 1
  BY <1>1, CorreBien
<1> HIDE DEF c
<1>4. EnMarcha(c, seq')
  BY <1>2, <1>3 DEF EnMarcha
<1>5. QED
  BY <1>1, <1>2, <1>3, <1>4, OtraCasa DEF Dentro

\* Leaving on foot, from the ground floor or after the ride down.
LEMMA SalirAndandoBien ==
  ASSUME Dentro, casa # Nada, seq = Nada, SalirAndando, UNCHANGED <<almacen, perdido>>
  PROVE  Dentro' /\ (casa' # Nada => seq' # Nada)
<1>1. CASE casa.ve # "bajo"
  BY <1>1, AlaCalle DEF SalirAndando, SalirYa, CierraCasa
<1>2. CASE casa.ve = "bajo"
  <2> DEFINE c == [casa EXCEPT !.entrado = FALSE]
  <2>1. casa' = c /\ sel' = Nada /\ seq' = Corre("sale", Nada) /\ pos' = pos
    BY <1>2 DEF SalirAndando
  <2>2. seq' \in Recorridos /\ seq' # Nada /\ seq'.tipo = "sale" /\ seq'.i = 1
    BY <2>1, CorreBien
  <2>3. /\ c \in Casas
        /\ \A g \in {"po", "plan", "piso", "bajo", "planta", "mismo", "ve", "cabY"} : c[g] = casa[g]
    BY DEF Casas, Dentro
  <2> HIDE DEF c
  <2>4. Construida(c) /\ Rellano(c) /\ Guardada(c)
    BY <2>3 DEF Construida, Rellano, Guardada, Dentro
  <2>5. EnMarcha(c, seq')
    BY <1>2, <2>2, <2>3 DEF EnMarcha
  <2>6. QED
    BY <2>1, <2>2, <2>3, <2>4, <2>5, OtraCasa DEF Dentro
<1>3. QED
  BY <1>1, <1>2

\* Taking the lift to a floor of the building, or to the street.
LEMMA TomaAscensorBien ==
  ASSUME Dentro, casa # Nada, seq = Nada, ConAscensor(casa.plan),
         NEW piso \in Pisos \cup {Nada}, piso # Nada => piso.planta \in ToSet(casa.plan.plantas),
         TomaAscensor(piso), UNCHANGED <<almacen, perdido>>
  PROVE  Dentro'
<1>1. seq' = Corre("viaje", piso) /\ sel' = Nada /\ casa' = casa /\ pos' = pos
  BY DEF TomaAscensor
<1>2. seq' \in Recorridos /\ seq' # Nada /\ seq'.tipo = "viaje" /\ seq'.i = 1 /\ seq'.piso = piso
  BY <1>1, CorreBien
<1>3. casa.entrado /\ casa.ve # "cabina"
  BY DEF Dentro, EnMarcha
<1>4. EnMarcha(casa, seq')
  BY <1>2, <1>3 DEF EnMarcha
<1>5. QED
  BY <1>1, <1>2, <1>4, OtroPaso DEF Dentro

-----------------------------------------------------------------------------
(***************************************************************************)
(* A new city.                                                             *)
(***************************************************************************)
LEMMA ReabreBien ==
  ASSUME Dentro, Memoria, casa # Nada, NEW po \in LosPortales, Reabre(po), UNCHANGED <<almacen, perdido>>
  PROVE  Dentro' /\ (casa' # Nada => casa'.po = po)
<1>1. CASE seq # Nada \/ ~casa.entrado
  BY <1>1, AlaCalle DEF Reabre, SalirYa, CierraCasa
<1>2. CASE ~(seq # Nada \/ ~casa.entrado)
  <2> DEFINE a == Abre(po)
             c == [a EXCEPT !.entrado = TRUE]
  <2>1. /\ a \in Casas /\ Construida(a) /\ Rellano(a) /\ Guardada(a) /\ a.ve = "bajo" /\ a.po = po
    BY AbreBien
  <2>2. /\ seq' = Nada /\ sel' = Nada
        /\ IF casa.ve # "bajo" /\ ConAscensor(c.plan)
           THEN casa' = Llega(MontaPlanta(c, c.piso), c.piso) /\ pos' = "planta"
           ELSE casa' = c /\ pos' = "bajo"
    BY <1>2 DEF Reabre
  <2> HIDE DEF a
  <2>3. /\ c \in Casas /\ c.entrado = TRUE
        /\ \A g \in {"po", "plan", "piso", "bajo", "planta", "mismo", "ve", "cabY"} : c[g] = a[g]
    BY <2>1 DEF Casas
  <2> HIDE DEF c
  <2>4. Construida(c) /\ Rellano(c) /\ Guardada(c)
    BY <2>1, <2>3 DEF Construida, Rellano, Guardada
  <2>5. CASE casa.ve # "bajo" /\ ConAscensor(c.plan)
    <3>1. c.piso \in Pisos /\ c.piso # Nada /\ c.piso.planta \in ToSet(c.plan.plantas)
      BY <2>3, <2>4, <2>5 DEF Construida, Casas
    <3>2. PICK m \in Casas : /\ MontaPlanta(c, c.piso) = m
                             /\ Construida(m) /\ Guardada(m) /\ m.planta # Nada /\ m.planta.piso = c.piso
                             /\ m.po = c.po /\ m.plan = c.plan /\ m.entrado = c.entrado
      BY <2>3, <2>4, <2>5, <3>1, MontaPlantaBien
    <3>3. PICK n \in Casas : /\ Llega(m, c.piso) = n /\ Construida(n) /\ Guardada(n) /\ Rellano(n)
                             /\ n.ve = (IF c.piso = Nada THEN "bajo" ELSE "planta")
                             /\ n.po = m.po /\ n.plan = m.plan /\ n.entrado = m.entrado
      BY <3>1, <3>2, LlegaBien
    <3>4. casa' = n /\ pos' = "planta" /\ n.entrado /\ n.ve = "planta" /\ n.po = po
      BY <2>1, <2>2, <2>3, <2>5, <3>1, <3>2, <3>3
    <3>5. EnMarcha(n, seq')
      BY <2>2, <3>4 DEF EnMarcha
    <3>6. QED
      BY <2>2, <3>3, <3>4, <3>5, OtraCasa
  <2>6. CASE ~(casa.ve # "bajo" /\ ConAscensor(c.plan))
    <3>1. casa' = c /\ pos' = "bajo" /\ c.ve = "bajo" /\ c.entrado /\ c.po = po
      BY <2>1, <2>2, <2>3, <2>6
    <3>2. EnMarcha(c, seq')
      BY <2>2, <3>1 DEF EnMarcha
    <3>3. QED
      BY <2>2, <2>3, <2>4, <3>1, <3>2, OtraCasa
  <2>7. QED
    BY <2>5, <2>6
<1>3. QED
  BY <1>1, <1>2

(* The same rooms under another owner or another flat to be taken to. *)
LEMMA MismasSalas ==
  ASSUME Dentro, casa # Nada, NEW c \in Casas, casa' = c, UNCHANGED <<seq, pos, sel, almacen, perdido>>,
         Construida(c), c.po.id = casa.po.id,
         \A g \in {"plan", "entrado", "bajo", "planta", "ve", "cabY"} : c[g] = casa[g]
  PROVE  Dentro'
<1>1. /\ casa \in Casas /\ Construida(casa) /\ Rellano(casa) /\ Guardada(casa) /\ EnMarcha(casa, seq)
      /\ ~casa.entrado => seq # Nada
  BY DEF Dentro
<1>2. /\ c.plan = casa.plan /\ c.entrado = casa.entrado /\ c.bajo = casa.bajo /\ c.planta = casa.planta
      /\ c.ve = casa.ve /\ c.cabY = casa.cabY
  OBVIOUS
<1>3. Rellano(c) /\ EnMarcha(c, seq)
  BY <1>1, <1>2 DEF Rellano, EnMarcha
<1>4. SalaBajo(c.po) = SalaBajo(casa.po) /\ \A q : SalaPiso(c.po, q) = SalaPiso(casa.po, q)
  BY DEF SalaBajo, SalaPiso
<1>5. Guardada(c)
  BY <1>1, <1>2, <1>4 DEF Guardada
<1>6. SalaVisible(c) = SalaVisible(casa)
  BY <1>2, <1>4 DEF SalaVisible
<1>7. casa' = c /\ seq' = seq /\ sel' = sel /\ pos' = pos /\ almacen' = almacen /\ perdido' = perdido
  OBVIOUS
<1>8. SelectionIsOfThisRoom'
  BY <1>6, <1>7, NadaAssumption DEF SelectionIsOfThisRoom, Dentro, SalaVisible
<1>9. Construida(casa') /\ Rellano(casa') /\ Guardada(casa)' /\ EnMarcha(casa', seq') /\ (~casa'.entrado => seq' # Nada)
  BY <1>1, <1>2, <1>3, <1>5, <1>7 DEF Guardada, Leido
<1>10. QED
  BY <1>7, <1>8, <1>9, NadaAssumption DEF Dentro

\* The hook of setCity leaves no house, or the one of the parcel as it is now.
LEMMA GanchoCiudadBien ==
  ASSUME IInv, NEW c \in Ciudades, GanchoCiudad(c), UNCHANGED <<almacen, perdido>>
  PROVE  /\ Dentro' /\ cercano' \in LosPortales \cup {Nada} /\ (casa' # Nada => casa # Nada)
         /\ casa' # Nada /\ casa'.po.id \in Parcelas => c[casa'.po.id] = casa'.po.pc
<1>0. cercano \in LosPortales \cup {Nada} /\ Dentro /\ Memoria
  BY DEF IInv, Exterior
<1>1. CASE casa = Nada \/ casa.po.id \notin Parcelas
  <2>1. UNCHANGED <<casa, seq, pos, sel, cercano>>
    BY <1>1 DEF GanchoCiudad
  <2>2. QED
    BY <1>0, <1>1, <2>1, NadaCambia
<1>2. CASE ~(casa = Nada \/ casa.po.id \notin Parcelas)
  <2> DEFINE id == casa.po.id
             pc == casa.po.pc
             nuevo == c[id]
  <2>1. /\ casa \in Casas /\ casa # Nada /\ id \in Parcelas /\ Construida(casa) /\ casa.po \in LosPortales
    BY <1>0, <1>2 DEF Dentro, Casas
  <2>2. CASE nuevo = Nada \/ nuevo.arch # pc.arch
    <3>1. SalirYa /\ UNCHANGED cercano
      BY <1>2, <2>2 DEF GanchoCiudad
    <3>2. QED
      BY <1>0, <3>1, AlaCalle DEF SalirYa, CierraCasa
  <2>3. CASE /\ ~(nuevo = Nada \/ nuevo.arch # pc.arch)
             /\ nuevo.alto # pc.alto \/ nuevo.unidades # pc.unidades
    <3> DEFINE po == Portal(id, nuevo)
    <3>1. Reabre(po) /\ UNCHANGED cercano
      BY <1>2, <2>3 DEF GanchoCiudad
    <3>2. nuevo \in Vistas
      BY <2>1, <2>3 DEF Ciudades
    <3>3. po \in LosPortales /\ po.id = id /\ po.pc = nuevo
      BY <2>1, <3>2 DEF Portal, LosPortales, Edificios
    <3> HIDE DEF po
    <3>4. Dentro' /\ (casa' # Nada => casa'.po = po)
      BY <1>0, <2>1, <3>1, <3>3, ReabreBien
    <3>5. QED
      BY <1>0, <2>1, <3>1, <3>3, <3>4
  <2>4. CASE ~(nuevo = Nada \/ nuevo.arch # pc.arch) /\ ~(nuevo.alto # pc.alto \/ nuevo.unidades # pc.unidades)
    <3>1. nuevo \in Vistas
      BY <2>1, <2>4 DEF Ciudades
    <3> DEFINE q == EligePiso(casa.plan, nuevo, Dado)
               d == [casa EXCEPT !.po.pc = nuevo, !.piso = q, !.mismo = FALSE]
               e == [casa EXCEPT !.po.pc = nuevo]
               otra == seq = Nada /\ casa.entrado /\ casa.ve = "bajo" /\ ConAscensor(casa.plan)
    <3>2. /\ casa' = IF otra THEN d ELSE e
          /\ cercano' = IF cercano = casa.po THEN casa'.po ELSE cercano
          /\ UNCHANGED <<seq, pos, sel>>
      BY <1>2, <2>4 DEF GanchoCiudad
    <3>3. [casa.po EXCEPT !.pc = nuevo] \in LosPortales
      BY <2>1, <3>1 DEF LosPortales, Edificios
    <3>4. ConAscensor(casa.plan) => q \in Pisos /\ q.planta \in ToSet(casa.plan.plantas)
      <4>1. PICK v \in Edificios : casa.plan = PlanDe(v)
        BY <2>1 DEF Casas
      <4>2. nuevo \in Edificios
        BY <3>1 DEF Edificios
      <4>3. QED
        BY <4>1, <4>2, EligePisoDelPlan
    <3>5. /\ e \in Casas /\ e.po.id = id /\ e.po.pc = nuevo /\ e.po \in LosPortales
          /\ e.mismo = casa.mismo /\ e.piso = casa.piso
          /\ \A g \in {"plan", "entrado", "bajo", "planta", "ve", "cabY"} : e[g] = casa[g]
      BY <2>1, <3>3 DEF Casas, LosPortales
    <3>6. ConAscensor(casa.plan) =>
          /\ d \in Casas /\ d.po.id = id /\ d.po.pc = nuevo /\ d.po \in LosPortales
          /\ d.mismo = FALSE /\ d.piso = q
          /\ \A g \in {"plan", "entrado", "bajo", "planta", "ve", "cabY"} : d[g] = casa[g]
      BY <2>1, <3>3, <3>4 DEF Casas, LosPortales
    <3> HIDE DEF d, e, q
    <3>7. Construida(e) /\ (ConAscensor(casa.plan) => Construida(d))
      BY <2>1, <3>4, <3>5, <3>6, NadaAssumption DEF Construida
    <3>8. \E m \in Casas : /\ casa' = m /\ Construida(m) /\ m.po.id = id /\ m.po.pc = nuevo /\ m.po \in LosPortales
                           /\ \A g \in {"plan", "entrado", "bajo", "planta", "ve", "cabY"} : m[g] = casa[g]
      BY <3>2, <3>5, <3>6, <3>7
    <3>9. QED
      BY <1>0, <2>1, <3>2, <3>8, MismasSalas
  <2>5. QED
    BY <2>2, <2>3, <2>4
<1>3. QED
  BY <1>1, <1>2

-----------------------------------------------------------------------------
(***************************************************************************)
(* Furniture: a room is changed and stored together, and no other room of  *)
(* the building goes by that name.                                         *)
(***************************************************************************)
LEMMA AmueblaBien ==
  ASSUME Dentro, Memoria, NEW d \in Colocaciones, NEW sala, sala = SalaVisible(casa),
         casa # Nada, seq = Nada, sala # Nada, casa' = PonMuebles(casa, d), seq' = seq, pos' = pos,
         sel' \in {sel, Nada}, Memoria',
         sala \notin perdido' => (IF almacen'[sala] = Nada THEN 0 ELSE almacen'[sala]) = d
  PROVE  Dentro'
<1>1. /\ casa \in Casas /\ Construida(casa) /\ Rellano(casa) /\ Guardada(casa) /\ EnMarcha(casa, seq)
      /\ casa.entrado
  BY DEF Dentro
<1>2. CASE casa.ve = "planta"
  <2> DEFINE c == [casa EXCEPT !.planta.muebles = d]
  <2>1. /\ sala = SalaPiso(casa.po, casa.planta.piso) /\ casa' = c /\ casa.planta # Nada /\ casa.bajo = Nada
        /\ casa.planta \in [piso : Pisos, muebles : Colocaciones]
    BY <1>1, <1>2 DEF SalaVisible, PonMuebles, Rellano, Construida, Casas
  <2>2. [casa.planta EXCEPT !.muebles = d] \in [piso : Pisos, muebles : Colocaciones]
    BY <2>1
  <2>3. /\ c \in Casas /\ c.planta \in [piso : Pisos, muebles : Colocaciones]
        /\ c.planta.piso = casa.planta.piso /\ c.planta.muebles = d
        /\ \A g \in {"po", "plan", "entrado", "piso", "bajo", "mismo", "ve", "cabY"} : c[g] = casa[g]
    BY <1>1, <2>1, <2>2 DEF Casas
  <2> HIDE DEF c
  <2>4. Construida(c) /\ Rellano(c) /\ EnMarcha(c, seq)
    BY <1>1, <2>1, <2>3, NadaAssumption DEF Construida, Rellano, EnMarcha
  <2>5. SalaVisible(c) = sala
    BY <1>2, <2>1, <2>3 DEF SalaVisible
  <2>6. Guardada(casa)'
    BY <2>1, <2>3 DEF Guardada, Leido, SalaPiso
  <2>7. SelectionIsOfThisRoom'
    BY <1>1, <2>1, <2>3, <2>5, NadaAssumption DEF SelectionIsOfThisRoom, Dentro, SalaVisible, SalaPiso, SalaBajo
  <2>8. QED
    BY <1>1, <2>1, <2>3, <2>4, <2>6, <2>7, NadaAssumption DEF Dentro
<1>3. CASE casa.ve # "planta"
  <2> DEFINE c == [casa EXCEPT !.bajo = d]
  <2>1. /\ casa.ve = "bajo" /\ casa.bajo # Nada /\ sala = SalaBajo(casa.po) /\ casa' = c /\ casa.planta = Nada
    BY <1>1, <1>3 DEF SalaVisible, PonMuebles, Construida, Casas
  <2>2. /\ c \in Casas /\ c.bajo = d
        /\ \A g \in {"po", "plan", "entrado", "piso", "planta", "mismo", "ve", "cabY"} : c[g] = casa[g]
    BY <1>1 DEF Casas
  <2> HIDE DEF c
  <2>3. Construida(c) /\ Rellano(c) /\ EnMarcha(c, seq)
    BY <1>1, <2>1, <2>2 DEF Construida, Rellano, EnMarcha
  <2>4. d # Nada
    BY NadaAssumption
  <2>5. SalaVisible(c) = sala
    BY <2>1, <2>2, <2>4 DEF SalaVisible
  <2>6. Guardada(casa)'
    BY <2>1, <2>2 DEF Guardada, Leido, SalaBajo
  <2>7. SelectionIsOfThisRoom'
    BY <1>1, <2>1, <2>2, <2>4, <2>5, NadaAssumption DEF SelectionIsOfThisRoom, Dentro, SalaVisible, SalaPiso, SalaBajo
  <2>8. QED
    BY <1>1, <2>1, <2>2, <2>3, <2>6, <2>7, NadaAssumption DEF Dentro
<1>4. QED
  BY <1>2, <1>3

\* The room on view is one the store may keep.
LEMMA SalaVisibleEsSala ==
  ASSUME Dentro, casa # Nada, SalaVisible(casa) # Nada
  PROVE  SalaVisible(casa) \in Salas
<1>1. casa.po \in LosPortales
  BY DEF Dentro, Casas
<1>2. casa.ve = "planta" => casa.planta.piso \in Pisos
  BY DEF Dentro, Casas, Rellano
<1>3. QED
  BY <1>1, <1>2, SalasDeCasa DEF SalaVisible

-----------------------------------------------------------------------------
(***************************************************************************)
(* Every step.                                                             *)
(***************************************************************************)
LEMMA InitBien == Init => IInv
  BY NadaAssumption DEF Init, IInv, Dentro, Memoria, Exterior, SelectionIsOfThisRoom

\* The nearest door is one of the city.
LEMMA BuscaBien ==
  ASSUME Exterior, Busca
  PROVE  cercano' \in LosPortales \cup {Nada}
<1>1. Portales(ciudad) \subseteq LosPortales
  BY DEF Exterior, Ciudades, Portales, Portal, LosPortales, Edificios
<1>2. QED
  BY <1>1 DEF Busca, Exterior

\* A frame of walking opens no house, and may close the one there is.
LEMMA AndaBien ==
  ASSUME IInv, Anda, UNCHANGED <<almacen, perdido>>
  PROVE  Dentro' /\ (casa' # Nada => casa # Nada)
<1>1. Dentro
  BY DEF IInv
<1>2. CASE UNCHANGED <<casa, seq, pos, sel>>
  BY <1>1, <1>2, NadaCambia
<1>3. CASE casa = Nada /\ pos' = "calle" /\ UNCHANGED <<casa, seq, sel>>
  BY <1>1, <1>3 DEF Dentro, SelectionIsOfThisRoom
<1>4. CASE casa # Nada /\ seq # Nada /\ Sigue
  BY <1>1, <1>4, SigueBien
<1>5. CASE casa # Nada /\ seq = Nada /\ ~casa.entrado
  BY <1>1, <1>5 DEF Dentro
<1>6. CASE casa # Nada /\ seq = Nada /\ casa.entrado /\ AndaDentro
  <2>1. CASE casa.ve = "bajo" /\ SalirAndando
    BY <1>1, <1>6, <2>1, SalirAndandoBien
  <2>2. CASE pos' = casa.ve /\ UNCHANGED <<casa, seq, sel>>
    <3>1. sel \in Salas \cup {Nada} /\ casa \in Casas
      BY <1>1, <1>6 DEF Dentro
    <3>2. pos' \in {"calle", "camino", "cabina", "bajo", "planta"}
      BY <2>2, <3>1 DEF Casas
    <3>3. SelectionIsOfThisRoom' /\ Guardada(casa)'
      BY <1>1, <1>6, <2>2 DEF Dentro, SelectionIsOfThisRoom, SalaVisible, SalaPiso, SalaBajo, Guardada, Leido
    <3>4. QED
      BY <1>1, <1>6, <2>2, <3>2, <3>3 DEF Dentro
  <2>3. CASE UNCHANGED <<casa, seq, pos, sel>>
    BY <1>2, <2>3
  <2>4. QED
    BY <1>6, <2>1, <2>2, <2>3 DEF AndaDentro
<1>7. QED
  BY <1>2, <1>3, <1>4, <1>5, <1>6 DEF Anda

(* The keys and the pointer act on a building only when nobody is being      *)
(* guided in it.                                                             *)
LEMMA AccionBien ==
  ASSUME IInv, casa # Nada, seq = Nada, NEW o \in Objetivos, Accion(o), UNCHANGED <<almacen, perdido>>
  PROVE  Dentro'
<1>1. Dentro /\ casa \in Casas /\ Construida(casa)
  BY DEF IInv, Dentro
<1>2. CASE o = "salida"
  BY <1>1, <1>2, SalirAndandoBien DEF Accion
<1>3. CASE o # "salida"
  <2>1. ConAscensor(casa.plan)
    BY <1>1, <1>3 DEF Objetivos, Construida, Dentro, Rellano
  <2> DEFINE piso == IF casa.ve = "bajo" THEN casa.piso ELSE Nada
  <2>2. TomaAscensor(piso)
    BY <1>3 DEF Accion
  <2>3. piso \in Pisos \cup {Nada} /\ (piso # Nada => piso.planta \in ToSet(casa.plan.plantas))
    BY <1>1, <2>1 DEF Construida, Casas
  <2>4. QED
    BY <1>1, <2>1, <2>2, <2>3, TomaAscensorBien
<1>4. QED
  BY <1>2, <1>3

\* The panel asks for a floor.
LEMMA IrAPlantaBien ==
  ASSUME IInv, NEW n \in Plantas, IrAPlanta(n)
  PROVE  Dentro'
<1>1. /\ Dentro /\ casa # Nada /\ casa \in Casas /\ Construida(casa) /\ ConAscensor(casa.plan) /\ seq = Nada
      /\ TomaAscensor(PisoEnPlanta(casa.plan, n, casa.piso)) /\ UNCHANGED <<almacen, perdido>>
  BY DEF IInv, Dentro, IrAPlanta
<1>2. PICK v \in Edificios : casa.plan = PlanDe(v)
  BY <1>1 DEF Casas
<1>3. casa.piso \in Pisos
  BY <1>1 DEF Construida, Casas
<1>4. n \in Nat
  <2>1. PICK w \in Edificios : n \in ToSet(PlanDe(w).plantas)
    BY DEF Plantas
  <2>2. PlanDe(w).plantas \in Seq(Nat)
    BY PlanAssumption
  <2>3. QED
    BY <2>1, <2>2 DEF ToSet
<1>5. /\ PisoEnPlanta(casa.plan, n, casa.piso) \in Pisos
      /\ PisoEnPlanta(casa.plan, n, casa.piso).planta \in ToSet(casa.plan.plantas)
  BY <1>1, <1>2, <1>3, <1>4, PisoDelPlan
<1>6. QED
  BY <1>1, <1>5, TomaAscensorBien

\* The furniture is moved, and the store keeps it or refuses.
LEMMA RecolocaBien ==
  ASSUME IInv, NEW d \in Colocaciones, NEW ok \in BOOLEAN, Recoloca(d, ok)
  PROVE  Dentro' /\ Memoria'
<1> DEFINE sala == SalaVisible(casa)
<1>1. /\ Dentro /\ Memoria /\ casa # Nada /\ seq = Nada /\ sala # Nada /\ casa' = PonMuebles(casa, d)
      /\ GuardaPiso(sala, d, ok) /\ UNCHANGED <<seq, pos, sel>>
  BY DEF IInv, Recoloca
<1>2. sala \in Salas
  BY <1>1, SalaVisibleEsSala
<1> HIDE DEF sala
<1>3. Memoria'
  BY <1>1, <1>2 DEF Memoria, GuardaPiso
<1>4. sala \notin perdido' => (IF almacen'[sala] = Nada THEN 0 ELSE almacen'[sala]) = d
  BY <1>1, <1>2, NadaAssumption DEF Memoria, GuardaPiso
<1>5. QED
  BY <1>1, <1>3, <1>4, AmueblaBien DEF sala

\* The furniture goes back to its place and the store forgets it.
LEMMA RestauraPisoBien ==
  ASSUME IInv, RestauraPiso
  PROVE  Dentro' /\ Memoria'
<1> DEFINE sala == SalaVisible(casa)
<1>1. /\ Dentro /\ Memoria /\ casa # Nada /\ seq = Nada /\ sala # Nada /\ casa' = PonMuebles(casa, 0)
      /\ almacen' = [almacen EXCEPT ![sala] = Nada] /\ perdido' = perdido \ {sala} /\ sel' = Nada
      /\ UNCHANGED <<seq, pos>>
  BY DEF IInv, RestauraPiso
<1>2. sala \in Salas
  BY <1>1, SalaVisibleEsSala
<1> HIDE DEF sala
<1>3. Memoria'
  BY <1>1, <1>2 DEF Memoria
<1>4. almacen'[sala] = Nada /\ 0 \in Colocaciones
  BY <1>1, <1>2, DadoAssumption DEF Memoria
<1>5. QED
  BY <1>1, <1>3, <1>4, AmueblaBien DEF sala

(* Every step of the visitor, of the page, of the headset and of the chain   *)
(* keeps the invariant.                                                      *)
THEOREM PasoBien == IInv /\ [Next]_vars => IInv'
<1> SUFFICES ASSUME IInv, [Next]_vars PROVE IInv'
  OBVIOUS
<1> USE DEF IInv
<1>0. Dentro /\ Memoria /\ Exterior
  OBVIOUS
<1>1. ASSUME NEW c \in Ciudades, SetCity(c) PROVE IInv'
  <2>1. /\ Dentro' /\ cercano' \in LosPortales \cup {Nada} /\ (casa' # Nada => casa # Nada)
    BY <1>1, GanchoCiudadBien DEF SetCity
  <2>2. QED
    BY <1>0, <1>1, <2>1 DEF SetCity, Memoria, Exterior
<1>2. ASSUME NEW m \in {"orbit", "walk"}, SetMode(m) PROVE IInv'
  <2>1. CASE m = "walk"
    <3>1. modo = "orbit" /\ casa = Nada /\ sel = Nada
      BY <1>0, <1>2, <2>1 DEF SetMode, Exterior, Dentro, SelectionIsOfThisRoom
    <3>2. casa' = Nada /\ seq' = Nada /\ sel' = Nada /\ pos' = "calle"
      BY <1>0, <1>2, <2>1, <3>1 DEF SetMode, Dentro
    <3>3. QED
      BY <1>0, <1>2, <3>2, AlaCalle DEF SetMode, Memoria, Exterior
  <2>2. CASE m # "walk"
    <3>1. CASE casa = Nada
      BY <1>0, <1>2, <2>2, <3>1, NadaCambia DEF SetMode, GanchoModo, Memoria, Exterior
    <3>2. CASE casa # Nada
      BY <1>0, <1>2, <2>2, <3>2, AlaCalle DEF SetMode, GanchoModo, SalirYa, CierraCasa, Memoria, Exterior
    <3>3. QED
      BY <3>1, <3>2
  <2>3. QED
    BY <2>1, <2>2
<1>3. ASSUME FlyTo PROVE IInv'
  <2>1. UNCHANGED <<casa, seq, sel, almacen, perdido>> /\ pos' = "calle"
    BY <1>3 DEF FlyTo
  <2>2. SelectionIsOfThisRoom' /\ (casa # Nada => Guardada(casa)')
    BY <1>0, <2>1 DEF Dentro, SelectionIsOfThisRoom, SalaVisible, SalaPiso, SalaBajo, Guardada, Leido
  <2>3. Dentro'
    BY <1>0, <2>1, <2>2 DEF Dentro
  <2>4. QED
    BY <1>0, <1>3, <2>3 DEF FlyTo, Memoria, Exterior
<1>4. ASSUME EnterVR \/ (\E ok \in BOOLEAN : Respuesta(ok)) PROVE IInv'
  BY <1>0, <1>4, NadaCambia DEF EnterVR, Respuesta, Memoria, Exterior
<1>5. ASSUME SetSession PROVE IInv'
  <2>1. CASE casa = Nada
    BY <1>0, <1>5, <2>1, NadaCambia DEF SetSession, GanchoVr, Memoria, Exterior
  <2>2. CASE casa # Nada
    BY <1>0, <1>5, <2>2, AlaCalle DEF SetSession, GanchoVr, SalirYa, CierraCasa, Memoria, Exterior
  <2>3. QED
    BY <2>1, <2>2
<1>6. ASSUME RestoreDesktop PROVE IInv'
  <2>1. UNCHANGED <<casa, seq, sel, almacen, perdido>> /\ pos' = "calle"
    BY <1>6 DEF RestoreDesktop
  <2>2. SelectionIsOfThisRoom' /\ (casa # Nada => Guardada(casa)')
    BY <1>0, <2>1 DEF Dentro, SelectionIsOfThisRoom, SalaVisible, SalaPiso, SalaBajo, Guardada, Leido
  <2>3. Dentro'
    BY <1>0, <2>1, <2>2 DEF Dentro
  <2>4. QED
    BY <1>0, <1>6, <2>3 DEF RestoreDesktop, Memoria, Exterior
<1>7. ASSUME Cuadro PROVE IInv'
  <2>1. Dentro' /\ (casa' # Nada => casa # Nada)
    BY <1>7, AndaBien DEF Cuadro
  <2>2. cercano' \in LosPortales \cup {Nada}
    BY <1>0, <1>7, BuscaBien DEF Cuadro
  <2>3. QED
    BY <1>0, <1>7, <2>1, <2>2 DEF Cuadro, Memoria, Exterior
<1>8. ASSUME CuadroFin PROVE IInv'
  <2>1. casa # Nada
    BY <1>0, <1>8 DEF CuadroFin, Dentro
  <2>2. Dentro'
    BY <1>0, <1>8, <2>1, AvanzaBien DEF CuadroFin
  <2>3. cercano' \in LosPortales \cup {Nada}
    BY <1>0, <1>8, BuscaBien DEF CuadroFin
  <2>4. QED
    BY <1>0, <1>8, <2>1, <2>2, <2>3 DEF CuadroFin, Memoria, Exterior
<1>9. ASSUME CuadroVR PROVE IInv'
  BY <1>0, <1>9, NadaCambia DEF CuadroVR, Memoria, Exterior
<1>10. ASSUME TeclaF PROVE IInv'
  <2>1. UNCHANGED <<modo, xr, ciudad, cercano, almacen, perdido>>
    BY <1>10 DEF TeclaF
  <2>2. CASE casa # Nada /\ seq = Nada /\ \E o \in Objetivos : Accion(o)
    BY <1>0, <2>1, <2>2, AccionBien DEF Memoria, Exterior
  <2>3. CASE casa = Nada /\ cercano # Nada /\ PuedeEntrar /\ Entrar(cercano)
    <3>1. cercano \in LosPortales
      BY <1>0, <2>3 DEF Exterior
    <3>2. Dentro'
      BY <1>0, <2>1, <2>3, <3>1, EntrarBien
    <3>3. QED
      BY <1>0, <2>1, <2>3, <3>2 DEF Memoria, Exterior, PuedeEntrar
  <2>4. QED
    BY <1>10, <2>2, <2>3 DEF TeclaF
<1>11. ASSUME Escape PROVE IInv'
  <2>1. UNCHANGED <<modo, xr, ciudad, cercano, almacen, perdido>> /\ casa # Nada /\ seq = Nada
    BY <1>11 DEF Escape
  <2>2. CASE sel # Nada
    <3>1. sel' = Nada /\ UNCHANGED <<casa, seq, pos>>
      BY <1>11, <2>2 DEF Escape
    <3>2. QED
      BY <1>0, <2>1, <3>1, OtroPaso DEF Dentro, Memoria, Exterior
  <2>3. CASE sel = Nada
    BY <1>0, <1>11, <2>1, <2>3, SalirAndandoBien DEF Escape, Memoria, Exterior
  <2>4. QED
    BY <2>2, <2>3
<1>12. ASSUME Clic PROVE IInv'
  <2>1. /\ UNCHANGED <<modo, xr, ciudad, cercano, casa, seq, pos, almacen, perdido>>
        /\ casa # Nada /\ seq = Nada /\ sel' \in {Nada, SalaVisible(casa)}
    BY <1>12 DEF Clic
  <2>2. sel' \in Salas \cup {Nada} /\ SelectionIsOfThisRoom' /\ Guardada(casa)'
    BY <1>0, <2>1, SalaVisibleEsSala
       DEF SelectionIsOfThisRoom, SalaVisible, SalaPiso, SalaBajo, Guardada, Leido, Dentro
  <2>3. QED
    BY <1>0, <2>1, <2>2 DEF Dentro, Memoria, Exterior
<1>13. ASSUME NEW n \in Plantas, IrAPlanta(n) PROVE IInv'
  BY <1>0, <1>13, IrAPlantaBien DEF IrAPlanta, Memoria, Exterior, TomaAscensor
<1>14. ASSUME NEW d \in Colocaciones, NEW ok \in BOOLEAN, Recoloca(d, ok) PROVE IInv'
  BY <1>0, <1>14, RecolocaBien DEF Recoloca, Exterior
<1>15. ASSUME RestauraPiso PROVE IInv'
  BY <1>0, <1>15, RestauraPisoBien DEF RestauraPiso, Exterior
<1>16. ASSUME UNCHANGED vars PROVE IInv'
  BY <1>0, <1>16, NadaCambia DEF vars, Memoria, Exterior
<1>17. QED
  BY <1>1, <1>2, <1>3, <1>4, <1>5, <1>6, <1>7, <1>8, <1>9, <1>10, <1>11, <1>12, <1>13, <1>14, <1>15, <1>16 DEF Next

(* Every behaviour of the city view keeps the invariant (umbral.js, and the  *)
(* modes of city3d.js).                                                      *)
THEOREM InvCorrect == Spec => []IInv
<1>1. QED
  BY InitBien, PasoBien, PTL DEF Spec

(* The walk, the selection, the portal and the rooms are always ones that    *)
(* umbral.js makes.                                                          *)
THEOREM TypeCorrect == Spec => []TypeOK
<1>1. IInv => TypeOK
  BY DEF IInv, Dentro, Memoria, Exterior, TypeOK
<1>2. QED
  BY <1>1, InvCorrect, PTL

(* Whoever leaves walking, by whatever way, leaves the building too, and     *)
(* nobody stands halfway through a door without a guided walk to finish the  *)
(* crossing (modo, vr and andar of umbral.js).                               *)
THEOREM OnlyWalkersInside == Spec => []NoHouseOutsideWalk
<1>1. IInv => NoHouseOutsideWalk
  BY DEF IInv, Dentro, Exterior, NoHouseOutsideWalk
<1>2. QED
  BY <1>1, InvCorrect, PTL

(* The lift is at the floor of the room on view, a floor that the building   *)
(* has, unless it is travelling (tomaAscensor, montaPlanta, reabre).         *)
THEOREM LiftAtItsLanding == Spec => []LiftIsAtTheLanding
<1>1. IInv => LiftIsAtTheLanding
  BY NadaAssumption DEF IInv, Dentro, Rellano, Construida, EnMarcha, LiftIsAtTheLanding
<1>2. QED
  BY <1>1, InvCorrect, PTL

(* What a room shows is what the browser will give back, unless it refused   *)
(* the last change (guardaPiso, muevePieza, restauraPiso and the builders of *)
(* a room).                                                                  *)
THEOREM FurnitureKept == Spec => []FurnitureIsKept
<1>1. IInv => FurnitureIsKept
  BY DEF IInv, Dentro, Rellano, Guardada, SalaVisible, Muebles, FurnitureIsKept
<1>2. QED
  BY <1>1, InvCorrect, PTL

(* The piece the arrows move is one of the room on view, never during a      *)
(* guided walk (tomaAscensor, salirAndando, cierraCasa).                     *)
THEOREM SelectionOfThisRoom == Spec => []SelectionIsOfThisRoom
<1>1. IInv => SelectionIsOfThisRoom
  BY DEF IInv, Dentro
<1>2. QED
  BY <1>1, InvCorrect, PTL

(* After setCity the building the visitor is in is the one the new city has  *)
(* there (gancho ciudad).                                                    *)
THEOREM NoStaleHouse == Spec => SetCityLeavesNoStaleHouse
<1>1. IInv /\ [Next]_vars => [ciudad' # ciudad => OfTheCity']_vars
  <2> SUFFICES ASSUME IInv, Next, ciudad' # ciudad PROVE OfTheCity'
    OBVIOUS
  <2>1. PICK c \in Ciudades : SetCity(c)
    BY DEF Next, SetMode, FlyTo, EnterVR, Respuesta, SetSession, RestoreDesktop, Cuadro, CuadroFin,
           CuadroVR, TeclaF, Escape, Clic, IrAPlanta, Recoloca, RestauraPiso
  <2>2. GanchoCiudad(c) /\ ciudad' = c /\ UNCHANGED <<almacen, perdido>>
    BY <2>1 DEF SetCity
  <2>3. casa' # Nada /\ casa'.po.id \in Parcelas => c[casa'.po.id] = casa'.po.pc
    BY <2>2, GanchoCiudadBien
  <2>4. QED
    BY <2>2, <2>3 DEF OfTheCity
<1>2. QED
  BY <1>1, InvCorrect, PTL DEF Spec, SetCityLeavesNoStaleHouse

(* After a frame in which nobody guides him the visitor is in the room he    *)
(* sees, unless a flight had put him outside the ground floor in line with   *)
(* its door; no frame takes him out of a room (andaDentro).                  *)
THEOREM InsideTheRoom == Spec => FramesKeepVisitorInside
<1> DEFINE DondeVe == \/ pos' = casa'.ve
                      \/ casa'.ve = "bajo" /\ pos = "calle" /\ pos' = "calle"
<1>1. IInv /\ [Next]_vars =>
        [Cuadro \/ CuadroFin => (casa' # Nada /\ seq' = Nada /\ seq = Nada => DondeVe)]_vars
  <2> SUFFICES ASSUME IInv, Cuadro \/ CuadroFin, casa' # Nada, seq' = Nada, seq = Nada
               PROVE  DondeVe
    OBVIOUS
  <2>1. Anda /\ UNCHANGED <<almacen, perdido>>
    BY DEF Cuadro, CuadroFin
  <2>2. casa # Nada /\ modo = "walk" /\ Dentro
    BY <2>1, AndaBien DEF IInv, Exterior
  <2>3. AndaDentro
    BY <2>1, <2>2 DEF Anda, CierraCasa
  <2>4. ~(casa.ve = "bajo" /\ SalirAndando)
    BY <2>1, <2>2, SalirAndandoBien
  <2>5. QED
    BY <2>3, <2>4 DEF AndaDentro
<1>2. QED
  BY <1>1, InvCorrect, PTL DEF Spec, FramesKeepVisitorInside

(***************************************************************************)
(* The flats of a building: first of a set, in order.                      *)
(***************************************************************************)
\* An element that comes before all others.
TienePrimero(S, R) == \E x \in S : \A y \in S : y # x => <<x, y>> \in R

\* A finite set with an order, as pairs, has a first element.
LEMMA HayPrimero ==
  ASSUME NEW S, IsFiniteSet(S), S # {}, NEW R,
         \A a, b, c \in S : <<a, b>> \in R /\ <<b, c>> \in R => <<a, c>> \in R,
         \A a \in S : <<a, a>> \notin R,
         \A a, b \in S : a # b => <<a, b>> \in R \/ <<b, a>> \in R
  PROVE  TienePrimero(S, R)
<1>1. Cardinality(S) \in Nat /\ Cardinality(S) # 0
  BY FS_CardinalityType, FS_EmptySet
<1>2. PICK x \in S : Cardinality({y \in S : <<y, x>> \in R}) = 1 - 1
  <2>1. TieneOrden(S, R)
    BY PorOrden
  <2>2. 1 \in 1..Cardinality(S)
    BY <1>1
  <2>3. QED
    BY <2>1, <2>2 DEF TieneOrden
<1> DEFINE antes == {y \in S : <<y, x>> \in R}
<1>3. antes = {}
  <2>1. IsFiniteSet(antes)
    BY FS_Subset
  <2>2. QED
    BY <1>2, <2>1, FS_EmptySet
<1>4. QED
  BY <1>3 DEF TienePrimero

\* A finite set of pieces has a first one by any measure.
LEMMA HayPrimeroPor ==
  ASSUME NEW S, IsFiniteSet(S), S # {}, S \subseteq Int, NEW m \in [S -> Int]
  PROVE  \E i \in S : \A j \in S : m[i] < m[j] \/ (m[i] = m[j] /\ i <= j)
<1> DEFINE R == {p \in S \X S : m[p[1]] < m[p[2]] \/ (m[p[1]] = m[p[2]] /\ p[1] < p[2])}
<1>1. \A a, b \in S : <<a, b>> \in R <=> m[a] < m[b] \/ (m[a] = m[b] /\ a < b)
  OBVIOUS
<1>2. \A a \in S : a \in Int /\ m[a] \in Int
  OBVIOUS
<1> HIDE DEF R
<1>3. \A a, b, c \in S : <<a, b>> \in R /\ <<b, c>> \in R => <<a, c>> \in R
  BY <1>1, <1>2
<1>4. \A a \in S : <<a, a>> \notin R
  BY <1>1, <1>2
<1>5. \A a, b \in S : a # b => <<a, b>> \in R \/ <<b, a>> \in R
  <2>1. TAKE a \in S, b \in S
  <2>2. (a < b \/ b < a \/ a = b) /\ (m[a] < m[b] \/ m[b] < m[a] \/ m[a] = m[b])
    BY <1>2
  <2>3. QED
    BY <1>1, <2>2
<1>6. PICK x \in S : \A y \in S : y # x => <<x, y>> \in R
  <2>1. TienePrimero(S, R)
    BY <1>3, <1>4, <1>5, HayPrimero
  <2>2. QED
    BY <2>1 DEF TienePrimero
<1>7. \A j \in S : m[x] < m[j] \/ (m[x] = m[j] /\ x <= j)
  <2>1. TAKE j \in S
  <2>2. CASE j = x
    BY <1>2, <2>2
  <2>3. CASE j # x
    <3>1. <<x, j>> \in R
      BY <1>6, <2>3
    <3>2. m[x] < m[j] \/ (m[x] = m[j] /\ x < j)
      BY <1>1, <3>1
    <3>3. QED
      BY <1>2, <3>2
  <2>4. QED
    BY <2>2, <2>3
<1>8. QED
  BY <1>7

\* The least and the greatest of a finite set of integers.
LEMMA MinBien ==
  ASSUME NEW S, IsFiniteSet(S), S # {}, S \subseteq Int
  PROVE  Min(S) \in S /\ \A y \in S : Min(S) <= y
<1> DEFINE m == [i \in S |-> i]
<1>1. m \in [S -> Int] /\ \A i \in S : m[i] = i
  OBVIOUS
<1> HIDE DEF m
<1>2. PICK x \in S : \A j \in S : m[x] < m[j] \/ (m[x] = m[j] /\ x <= j)
  BY <1>1, HayPrimeroPor
<1>3. \A j \in S : x <= j
  <2>1. TAKE j \in S
  <2>2. x \in Int /\ j \in Int
    OBVIOUS
  <2>3. QED
    BY <1>1, <1>2, <2>2
<1>4. QED
  BY <1>3 DEF Min

LEMMA MaxBien ==
  ASSUME NEW S, IsFiniteSet(S), S # {}, S \subseteq Int
  PROVE  Max(S) \in S /\ \A y \in S : Max(S) >= y
<1> DEFINE m == [i \in S |-> -i]
<1>1. m \in [S -> Int] /\ \A i \in S : m[i] = -i
  OBVIOUS
<1> HIDE DEF m
<1>2. PICK x \in S : \A j \in S : m[x] < m[j] \/ (m[x] = m[j] /\ x <= j)
  BY <1>1, HayPrimeroPor
<1>3. \A j \in S : x >= j
  <2>1. TAKE j \in S
  <2>2. x \in Int /\ j \in Int
    OBVIOUS
  <2>3. m[x] = -x /\ m[j] = -j
    BY <1>1
  <2>4. QED
    BY <1>2, <2>2, <2>3
<1>4. QED
  BY <1>3 DEF Max

\* The floors in ascending order: each of them, once.
LEMMA SubiendoBien ==
  ASSUME NEW V, IsFiniteSet(V), V \subseteq Int
  PROVE  /\ Subiendo(V) \in Seq(V) /\ Len(Subiendo(V)) = Cardinality(V)
         /\ \A i, j \in 1..Cardinality(V) : Subiendo(V)[i] = Subiendo(V)[j] => i = j
<1> DEFINE R == {p \in V \X V : p[1] < p[2]}
           n == Cardinality(V)
           o == [i \in 1..n |-> CHOOSE k \in V : Cardinality({j \in V : j < k}) = i - 1]
<1>1. \A a, b \in V : <<a, b>> \in R <=> a < b
  OBVIOUS
<1>2. \A a \in V : a \in Int
  OBVIOUS
<1> HIDE DEF R
<1>3. TieneOrden(V, R)
  <2>1. \A a, b, c \in V : <<a, b>> \in R /\ <<b, c>> \in R => <<a, c>> \in R
    BY <1>1, <1>2
  <2>2. \A a \in V : <<a, a>> \notin R
    BY <1>1, <1>2
  <2>3. \A a, b \in V : a # b => <<a, b>> \in R \/ <<b, a>> \in R
    <3>1. TAKE a \in V, b \in V
    <3>2. a < b \/ b < a \/ a = b
      BY <1>2
    <3>3. QED
      BY <1>1, <3>2
  <2>4. QED
    BY <2>1, <2>2, <2>3, PorOrden
<1>4. \A k \in V : {j \in V : j < k} = {j \in V : <<j, k>> \in R}
  BY <1>1
<1>5. n \in Nat
  BY FS_CardinalityType
<1>6. \A i \in 1..n : o[i] \in V /\ Cardinality({j \in V : j < o[i]}) = i - 1
  <2>1. TAKE i \in 1..n
  <2>2. \E k \in V : Cardinality({j \in V : j < k}) = i - 1
    BY <1>3, <1>4 DEF TieneOrden
  <2>3. o[i] = CHOOSE k \in V : Cardinality({j \in V : j < k}) = i - 1
    OBVIOUS
  <2> HIDE DEF o
  <2>4. QED
    BY <2>2, <2>3
<1>7. o \in [1..n -> V]
  <2>1. \A i \in 1..n : (CHOOSE k \in V : Cardinality({j \in V : j < k}) = i - 1) \in V
    BY <1>6
  <2>2. QED
    BY <2>1
<1> HIDE DEF o
<1>8. PorSuOrden(o, V, R)
  BY <1>4, <1>6, <1>7 DEF PorSuOrden
<1>9. \A i, j \in 1..n : o[i] = o[j] => i = j
  BY <1>8, EnSuPuesto
<1>10. o \in Seq(V) /\ Len(o) = n
  <2> HIDE DEF n
  <2>1. QED
    BY <1>5, <1>7
<1>11. Subiendo(V) = o
  BY DEF Subiendo, o
<1>12. QED
  BY <1>9, <1>10, <1>11

(***************************************************************************)
(* The facade of each flat.                                                *)
(***************************************************************************)
\* Flats per floor: one, or so many that each has MinHuecoUnidad of facade.
CabenUnidades(fx, u) == u \in Nat \ {0} /\ (u = 1 \/ u * MinHuecoUnidad <= fx - 100)

LEMMA UnidadesBien ==
  ASSUME NEW fx \in Int, fx >= TramoMinimo, NEW n \in Nat \ {0}, NEW U \in Nat
  PROVE  CabenUnidades(fx, UnidadesPorPlanta(fx, n, U))
<1> DEFINE q == (fx - 100) \div FachadaPorUnidad
           base == Acota(q, 1, 4)
           q2 == (fx - 100) \div MinHuecoUnidad
           M == Mayor(base, q2)
           T == Techo(U, n)
<1>1. q \in Int /\ q2 \in Int /\ q * 1100 <= fx - 100 /\ q2 * 740 <= fx - 100
  BY DEF FachadaPorUnidad, MinHuecoUnidad
<1>2. base \in 1..4 /\ (base = 1 \/ base * 740 <= fx - 100)
  <2> HIDE DEF q
  <2>1. QED
    BY <1>1 DEF Acota
<1>3. M \in Nat \ {0} /\ (M = 1 \/ M * 740 <= fx - 100)
  <2> HIDE DEF base, q2
  <2>1. QED
    BY <1>1, <1>2 DEF Mayor
<1>4. U > n * base => T \in Nat \ {0}
  <2>1. HAVE U > n * base
  <2>2. n * base \in Nat
    <3> HIDE DEF base
    <3>1. QED
      BY <1>2
  <2>3. U >= 1
    <3> HIDE DEF base
    <3>1. QED
      BY <2>1, <2>2
  <2>4. T \in Nat
    BY Divide, <2>3 DEF Techo
  <2>5. T # 0
    <3>1. SUFFICES ASSUME T = 0 PROVE FALSE
      OBVIOUS
    <3>2. (U + n - 1) = n * ((U + n - 1) \div n) + ((U + n - 1) % n)
          /\ (U + n - 1) % n < n /\ (U + n - 1) % n \in Int
      <4>1. U + n - 1 \in Nat
        BY <2>3
      <4>2. QED
        BY <4>1, SMT
    <3>3. (U + n - 1) \div n = 0
      BY <3>1 DEF Techo
    <3>4. QED
      BY <2>3, <3>2, <3>3
  <2>6. QED
    BY <2>4, <2>5
<1>5. U > n * base => Menor(M, T) \in Nat \ {0} /\ (Menor(M, T) = 1 \/ Menor(M, T) * 740 <= fx - 100)
  <2> HIDE DEF M, T, base
  <2>1. HAVE U > n * base
  <2>2. T \in Nat \ {0}
    BY <1>4, <2>1
  <2>3. QED
    BY <1>3, <2>2 DEF Menor
<1>6. UnidadesPorPlanta(fx, n, U) = IF U > n * base THEN Menor(M, T) ELSE base
  BY DEF UnidadesPorPlanta
<1>7. QED
  <2> HIDE DEF M, T, base
  <2>1. QED
    BY <1>2, <1>5, <1>6 DEF CabenUnidades, MinHuecoUnidad

\* What each flat of a floor has of the facade lies in the stretch, and they
\* are one beside the other.
LEMMA FachadaBien ==
  ASSUME NEW plan, plan.fx0 \in Int, plan.fx1 \in Int, plan.fx1 - plan.fx0 >= TramoMinimo,
         CabenUnidades(plan.fx1 - plan.fx0, plan.upp)
  PROVE  /\ \A s \in -1..plan.upp - 1 :
               /\ Fachada(plan, s)[1] \in Int /\ Fachada(plan, s)[2] \in Int
               /\ plan.fx0 <= Fachada(plan, s)[1] /\ Fachada(plan, s)[2] <= plan.fx1
         /\ \A s \in 1..plan.upp - 1 : Fachada(plan, s - 1)[2] <= Fachada(plan, s)[1]
<1> DEFINE u == plan.upp
           fx == plan.fx1 - plan.fx0
           Ws == (fx - 100) \div u
           W == Mayor(700, Menor(Ws - 40, 1500))
           Wa == Mayor(700, Menor(fx - 140, 1600))
           cx(s) == plan.fx0 + 50 + ((2 * s + 1) * Ws) \div 2
<1>1. fx \in Int /\ fx >= 750 /\ u \in Nat \ {0} /\ (u = 1 \/ u * 740 <= fx - 100)
  BY DEF CabenUnidades, MinHuecoUnidad, TramoMinimo
<1> HIDE DEF u
<1>2. Ws \in Nat /\ u * Ws <= fx - 100 /\ (u = 1 => Ws = fx - 100) /\ (u # 1 => Ws >= 740)
  <2>1. fx - 100 \in Nat
    BY <1>1
  <2>2. Ws \in Nat /\ fx - 100 = (u * Ws) + ((fx - 100) % u) /\ (fx - 100) % u \in 0..(u - 1)
    <3> HIDE DEF fx
    <3>1. Ws \in Nat /\ (fx - 100) % u \in 0..(u - 1)
      BY <1>1, <2>1, Divide
    <3>2. fx - 100 = (u * Ws) + ((fx - 100) % u)
      BY <1>1, <2>1, SMT
    <3>3. QED
      BY <3>1, <3>2
  <2> DEFINE resto == (fx - 100) % u
  <2> HIDE DEF Ws, fx, resto
  <2>3. u * Ws \in Int /\ u * Ws <= fx - 100
    BY <1>1, <2>2 DEF resto
  <2>4. u = 1 => Ws = fx - 100
    BY <1>1, <2>2 DEF resto
  <2>5. u # 1 => Ws >= 740
    <3>1. SUFFICES ASSUME u # 1, Ws < 740 PROVE FALSE
      BY <2>2
    <3>2. u * (Ws + 1) <= u * 740
      BY <1>1, <2>2, <3>1
    <3>3. u * (Ws + 1) = u * Ws + u
      BY <1>1, <2>2
    <3>4. QED
      BY <1>1, <2>2, <3>1, <3>2, <3>3 DEF resto
  <2>6. QED
    BY <2>2, <2>3, <2>4, <2>5
<1>3. W \in Nat /\ (u = 1 => W <= fx - 50) /\ (u # 1 => W <= Ws - 40)
  <2> HIDE DEF Ws, fx
  <2>1. QED
    BY <1>1, <1>2 DEF Mayor, Menor
<1>4. Wa \in Nat /\ Wa <= fx - 50
  <2> HIDE DEF fx
  <2>1. QED
    BY <1>1 DEF Mayor, Menor
<1>5. \A s \in Nat : Fachada(plan, s) = <<cx(s) - W \div 2, cx(s) + W \div 2>>
  BY DEF Fachada, u
<1>6. Fachada(plan, -1) = <<(plan.fx0 + plan.fx1) \div 2 - Wa \div 2, (plan.fx0 + plan.fx1) \div 2 + Wa \div 2>>
  BY DEF Fachada, u
<1> DEFINE m == W \div 2
           ma == Wa \div 2
           cc == (plan.fx0 + plan.fx1) \div 2
<1>7. m \in Int /\ 2 * m <= W
  <2> HIDE DEF W
  <2>1. QED
    BY <1>3
<1>8. ma \in Int /\ 2 * ma <= Wa
  <2> HIDE DEF Wa
  <2>1. QED
    BY <1>4
<1>9. cc \in Int /\ 2 * cc <= plan.fx0 + plan.fx1 /\ plan.fx0 + plan.fx1 <= 2 * cc + 1
  OBVIOUS
<1>10. \A s \in 0..u - 1 : /\ cx(s) \in Int
                           /\ 2 * (cx(s) - plan.fx0 - 50) <= (2 * s + 1) * Ws
                           /\ (2 * s + 1) * Ws <= 2 * (cx(s) - plan.fx0 - 50) + 1
                           /\ (2 * s + 1) * Ws = 2 * (s * Ws) + Ws /\ s * Ws \in Nat
                           /\ (s + 1) * Ws = s * Ws + Ws /\ (s + 1) * Ws <= u * Ws
  <2> HIDE DEF Ws
  <2>1. TAKE s \in 0..u - 1
  <2> DEFINE p == (2 * s + 1) * Ws
  <2>2. s \in Nat /\ s + 1 <= u
    BY <1>1
  <2>3. p \in Int /\ p = 2 * (s * Ws) + Ws /\ s * Ws \in Nat /\ (s + 1) * Ws = s * Ws + Ws
    BY <1>2, <2>2, SMT
  <2>4. (s + 1) * Ws <= u * Ws
    BY <1>1, <1>2, <2>2, SMT
  <2>5. p \div 2 \in Int /\ 2 * (p \div 2) <= p /\ p <= 2 * (p \div 2) + 1
    <3> HIDE DEF p
    <3>1. QED
      BY <2>3
  <2>6. cx(s) = plan.fx0 + 50 + p \div 2
    OBVIOUS
  <2> HIDE DEF cx
  <2>7. cx(s) \in Int /\ cx(s) - plan.fx0 - 50 = p \div 2
    BY <2>5, <2>6
  <2>8. QED
    BY <2>3, <2>4, <2>5, <2>7
<1>11. \A s \in 0..u - 1 : Fachada(plan, s)[1] = cx(s) - m /\ Fachada(plan, s)[2] = cx(s) + m
  <2>1. TAKE s \in 0..u - 1
  <2>2. s \in Nat
    BY <1>1
  <2> HIDE DEF cx, m
  <2>3. Fachada(plan, s) = <<cx(s) - m, cx(s) + m>>
    BY <1>5, <2>2 DEF m
  <2>4. QED
    BY <2>3
<1>12. Fachada(plan, -1)[1] = cc - ma /\ Fachada(plan, -1)[2] = cc + ma
  BY <1>6
<1> HIDE DEF cx, m, ma, cc, W, Wa, Ws
<1>13. \A s \in 0..u - 1 : cx(s) - m \in Int /\ cx(s) + m \in Int /\ plan.fx0 <= cx(s) - m /\ cx(s) + m <= plan.fx1
  <2>1. TAKE s \in 0..u - 1
  <2> DEFINE k == s * Ws
             k1 == (2 * s + 1) * Ws
             k2 == (s + 1) * Ws
             k3 == u * Ws
  <2>2. /\ cx(s) \in Int /\ k \in Nat /\ k1 = 2 * k + Ws /\ k2 = k + Ws /\ k2 <= k3
        /\ 2 * (cx(s) - plan.fx0 - 50) <= k1 /\ k1 <= 2 * (cx(s) - plan.fx0 - 50) + 1
    BY <1>10
  <2>3. k3 <= fx - 100 /\ k3 \in Int
    BY <1>1, <1>2
  <2>4. u = 1 => k = 0
    BY <1>1, <1>2
  <2> HIDE DEF k, k1, k2, k3
  <2>5. k1 \in Int /\ k2 \in Int
    BY <1>2, <2>2
  <2>6. QED
    BY <1>1, <1>2, <1>3, <1>7, <2>2, <2>3, <2>4, <2>5
<1>14. \A s \in 1..u - 1 : cx(s - 1) + m <= cx(s) - m
  <2>1. TAKE s \in 1..u - 1
  <2>2. s - 1 \in 0..u - 1 /\ s \in 0..u - 1 /\ u # 1 /\ s \in Int
    BY <1>1
  <2> DEFINE k == (s - 1) * Ws
             k1 == (2 * (s - 1) + 1) * Ws
             k2 == (2 * s + 1) * Ws
  <2>3. /\ cx(s - 1) \in Int /\ k \in Nat /\ k1 = 2 * k + Ws
        /\ 2 * (cx(s - 1) - plan.fx0 - 50) <= k1 
    BY <1>10, <2>2
  <2>4. cx(s) \in Int /\ k2 = 2 * (s * Ws) + Ws /\ k2 <= 2 * (cx(s) - plan.fx0 - 50) + 1
    BY <1>10, <2>2
  <2>5. s * Ws = k + Ws /\ s * Ws \in Int
    BY <1>2, <2>2, SMT
  <2> HIDE DEF k, k1, k2
  <2>6. QED
    BY <1>1, <1>2, <1>3, <1>7, <2>2, <2>3, <2>4, <2>5
<1>15. \A s \in -1..u - 1 : s = -1 \/ s \in 0..u - 1
  BY <1>1
<1>16. cc - ma \in Int /\ cc + ma \in Int /\ plan.fx0 <= cc - ma /\ cc + ma <= plan.fx1
  BY <1>1, <1>4, <1>8, <1>9
<1>17. \A s \in 1..u - 1 : s \in 0..u - 1 /\ s - 1 \in 0..u - 1
  BY <1>1
<1>18. QED
  <2>1. \A s \in -1..u - 1 :
               /\ Fachada(plan, s)[1] \in Int /\ Fachada(plan, s)[2] \in Int
               /\ plan.fx0 <= Fachada(plan, s)[1] /\ Fachada(plan, s)[2] <= plan.fx1
    BY <1>11, <1>12, <1>13, <1>15, <1>16
  <2>2. \A s \in 1..u - 1 : Fachada(plan, s - 1)[2] <= Fachada(plan, s)[1]
    BY <1>11, <1>14, <1>17
  <2>3. QED
    BY <2>1, <2>2 DEF u

(***************************************************************************)
(* The stretch of facade that serves the floors.                           *)
(***************************************************************************)
\* The first piece of a set by a measure is one of the set.
LEMMA PrimeroBien ==
  ASSUME NEW S, IsFiniteSet(S), S # {}, S \subseteq Int, NEW m \in [S -> Int]
  PROVE  (CHOOSE i \in S : \A j \in S : m[i] < m[j] \/ (m[i] = m[j] /\ i <= j)) \in S
  BY HayPrimeroPor

\* What a function makes of a finite set is finite.
LEMMA ImagenFinita ==
  ASSUME NEW S, IsFiniteSet(S), NEW T, NEW f \in [S -> T], \A t \in T : \E x \in S : f[x] = t
  PROVE  IsFiniteSet(T)
<1>1. f \in Surjection(S, T)
  BY DEF Surjection
<1>2. QED
  BY <1>1, FS_Surjection

\* The bodies of a building.
LEMMA CuerposBien ==
  ASSUME NEW ed, EsEdificio(ed)
  PROVE  /\ IsFiniteSet(DOMAIN ed.piezas) /\ DOMAIN ed.piezas \subseteq Nat \ {0}
         /\ \A i \in DOMAIN ed.piezas : ed.piezas[i] \in Piezas
         /\ Cuerpos(ed) \subseteq DOMAIN ed.piezas
<1>1. ed.piezas \in Seq(Piezas)
  BY DEF EsEdificio
<1>2. Len(ed.piezas) \in Nat /\ DOMAIN ed.piezas = 1..Len(ed.piezas)
      /\ \A i \in 1..Len(ed.piezas) : ed.piezas[i] \in Piezas
  BY <1>1
<1>3. IsFiniteSet(1..Len(ed.piezas))
  BY <1>2, FS_Interval
<1>4. QED
  BY <1>2, <1>3 DEF Cuerpos

LEMMA CuerpoPuertaBien ==
  ASSUME NEW ed, EsEdificio(ed)
  PROVE  CuerpoPuerta(ed) \in Piezas
<1> DEFINE C == Cuerpos(ed)
           P(i) == ed.piezas[i]
           EnFachada == {i \in C : Dist(P(i).z1, ed.zf) < 60 /\ P(i).x0 <= ed.px /\ ed.px <= P(i).x1}
           Lejos(i) == Dist(P(i).z1, ed.zf) + Dist(Acota(ed.px, P(i).x0, P(i).x1), ed.px)
           hecho == [x0 |-> ed.px - 600, x1 |-> ed.px + 600, z0 |-> ed.zf - 1200, z1 |-> ed.zf,
                     y0 |-> 0, y1 |-> ed.suelo + 400]
           m == [i \in C |-> Lejos(i)]
<1>1. /\ IsFiniteSet(DOMAIN ed.piezas) /\ DOMAIN ed.piezas \subseteq Nat \ {0}
      /\ \A i \in DOMAIN ed.piezas : ed.piezas[i] \in Piezas
      /\ C \subseteq DOMAIN ed.piezas
  BY CuerposBien
<1>2. ed.zf \in Int /\ ed.px \in Int /\ ed.suelo \in Int
  BY DEF EsEdificio
<1>3. IsFiniteSet(C) /\ C \subseteq Int /\ \A i \in C : P(i) \in Piezas
  <2> HIDE DEF C
  <2>1. QED
    BY <1>1, FS_Subset
<1>4. IsFiniteSet(EnFachada) /\ EnFachada \subseteq C
  <2> HIDE DEF C
  <2>1. EnFachada \subseteq C
    OBVIOUS
  <2> HIDE DEF EnFachada
  <2>2. QED
    BY <1>3, <2>1, FS_Subset
<1>5. EnFachada # {} => P(Min(EnFachada)) \in Piezas
  <2> HIDE DEF C, EnFachada
  <2>1. HAVE EnFachada # {}
  <2>2. Min(EnFachada) \in EnFachada
    BY <1>3, <1>4, <2>1, MinBien
  <2>3. QED
    BY <1>3, <1>4, <2>2
<1>6. \A i \in C : Lejos(i) \in Int
  <2> HIDE DEF C
  <2>1. TAKE i \in C
  <2>2. P(i).z1 \in Int /\ P(i).x0 \in Int /\ P(i).x1 \in Int
    BY <1>3 DEF Piezas
  <2>3. QED
    BY <1>2, <2>2 DEF Dist, Acota
<1>7. C # {} => P(Primero(C, Lejos)) \in Piezas
  <2>1. HAVE C # {}
  <2>2. m \in [C -> Int] /\ \A i \in C : m[i] = Lejos(i)
    <3> HIDE DEF C, Lejos
    <3>1. QED
      BY <1>6
  <2>3. (CHOOSE i \in C : \A j \in C : m[i] < m[j] \/ (m[i] = m[j] /\ i <= j)) \in C
    <3> HIDE DEF C, m
    <3>1. QED
      BY <1>3, <2>1, <2>2, PrimeroBien
  <2>4. Primero(C, Lejos) = CHOOSE i \in C : \A j \in C : Lejos(i) < Lejos(j) \/ (Lejos(i) = Lejos(j) /\ i <= j)
    BY DEF Primero
  <2>5. \E i \in C : \A j \in C : Lejos(i) < Lejos(j) \/ (Lejos(i) = Lejos(j) /\ i <= j)
    <3>1. \E i \in C : \A j \in C : m[i] < m[j] \/ (m[i] = m[j] /\ i <= j)
      <4> HIDE DEF C, m
      <4>1. QED
        BY <1>3, <2>1, <2>2, HayPrimeroPor
    <3>2. QED
      <4> HIDE DEF C, Lejos, m
      <4>1. QED
        BY <2>2, <3>1
  <2>6. Primero(C, Lejos) \in C
    <3> HIDE DEF C, Lejos
    <3>1. QED
      BY <2>4, <2>5
  <2>7. QED
    <3> HIDE DEF C, Lejos
    <3>1. QED
      BY <1>3, <2>6
<1>8. hecho \in Piezas
  BY <1>2 DEF Piezas
<1>9. CuerpoPuerta(ed) = IF EnFachada # {} THEN P(Min(EnFachada)) ELSE IF C # {} THEN P(Primero(C, Lejos)) ELSE hecho
  BY DEF CuerpoPuerta
<1>10. QED
  <2> HIDE DEF C, Lejos, EnFachada, hecho
  <2>1. QED
    BY <1>5, <1>7, <1>8, <1>9

LEMMA CuerpoAltoBien ==
  ASSUME NEW ed, EsEdificio(ed)
  PROVE  CuerpoAlto(ed) \in Piezas
<1> DEFINE P(i) == ed.piezas[i]
           Altos == {i \in Cuerpos(ed) : \A j \in Cuerpos(ed) : P(j).y1 <= P(i).y1}
           Lado(i) == Dist(P(i).x0 + P(i).x1, 2 * ed.px)
           m == [i \in Altos |-> Lado(i)]
<1>1. /\ IsFiniteSet(DOMAIN ed.piezas) /\ DOMAIN ed.piezas \subseteq Nat \ {0}
      /\ \A i \in DOMAIN ed.piezas : P(i) \in Piezas
      /\ Cuerpos(ed) \subseteq DOMAIN ed.piezas
  BY CuerposBien
<1>2. Altos \subseteq DOMAIN ed.piezas
  BY <1>1
<1>3. IsFiniteSet(Altos) /\ Altos \subseteq Int /\ \A i \in Altos : P(i) \in Piezas
  <2> HIDE DEF Altos
  <2>1. QED
    BY <1>1, <1>2, FS_Subset
<1>4. \A i \in Altos : Lado(i) \in Int
  <2> HIDE DEF Altos
  <2>1. TAKE i \in Altos
  <2>2. P(i).x0 \in Int /\ P(i).x1 \in Int /\ ed.px \in Int
    BY <1>3 DEF Piezas, EsEdificio
  <2>3. QED
    BY <2>2 DEF Dist
<1>5. Altos # {} => Primero(Altos, Lado) \in Altos
  <2>1. HAVE Altos # {}
  <2>2. m \in [Altos -> Int] /\ \A i \in Altos : m[i] = Lado(i)
    <3> HIDE DEF Altos, Lado
    <3>1. QED
      BY <1>4
  <2>3. \E i \in Altos : \A j \in Altos : Lado(i) < Lado(j) \/ (Lado(i) = Lado(j) /\ i <= j)
    <3>1. \E i \in Altos : \A j \in Altos : m[i] < m[j] \/ (m[i] = m[j] /\ i <= j)
      <4> HIDE DEF Altos, m
      <4>1. QED
        BY <1>3, <2>1, <2>2, HayPrimeroPor
    <3>2. QED
      <4> HIDE DEF Altos, Lado, m
      <4>1. QED
        BY <2>2, <3>1
  <2>4. Primero(Altos, Lado) = CHOOSE i \in Altos : \A j \in Altos : Lado(i) < Lado(j) \/ (Lado(i) = Lado(j) /\ i <= j)
    BY DEF Primero
  <2>5. QED
    <3> HIDE DEF Altos, Lado
    <3>1. QED
      BY <2>3, <2>4
<1>6. IndiceAlto(ed) = IF Altos = {} THEN 0 ELSE Primero(Altos, Lado)
  BY DEF IndiceAlto
<1>7. IndiceAlto(ed) # 0 => P(IndiceAlto(ed)) \in Piezas
  <2> HIDE DEF Altos, Lado
  <2>1. QED
    BY <1>3, <1>5, <1>6
<1>8. QED
  BY <1>7, CuerpoPuertaBien DEF CuerpoAlto

\* A free stretch is as long as a flat.
UnTramo(t) == t[1] \in Int /\ t[2] \in Int /\ t[2] - t[1] >= TramoMinimo

LEMMA DespejadoBien ==
  ASSUME NEW B \in Piezas, NEW px \in Int, NEW D, IsFiniteSet(D), D \subseteq Piezas,
         Despejado(B, px, D) # Nada
  PROVE  UnTramo(Despejado(B, px, D))
<1> DEFINE ancla == Acota(px, B.x0 + 400, B.x1 - 400)
           Q == {q \in D : q.x1 <= ancla}
           Q2 == {q \in D : q.x1 > ancla}
           SA == {B.x0} \cup {o.x1 : o \in Q}
           SB == {B.x1} \cup {o.x0 : o \in Q2}
           a == Max(SA)
           b == Min(SB)
<1>1. B.x0 \in Int /\ B.x1 \in Int /\ \A o \in D : o.x0 \in Int /\ o.x1 \in Int
  BY DEF Piezas
<1>2. IsFiniteSet(Q) /\ IsFiniteSet(Q2) /\ Q \subseteq D /\ Q2 \subseteq D
  <2>1. Q \subseteq D /\ Q2 \subseteq D
    OBVIOUS
  <2> HIDE DEF Q, Q2
  <2>2. QED
    BY <2>1, FS_Subset
<1> HIDE DEF Q, Q2
<1>3. IsFiniteSet({o.x1 : o \in Q}) /\ IsFiniteSet({o.x0 : o \in Q2})
  <2> DEFINE X1 == {o.x1 : o \in Q}
             X0 == {o.x0 : o \in Q2}
             f == [o \in Q |-> o.x1]
             g == [o \in Q2 |-> o.x0]
  <2>1. f \in [Q -> X1] /\ \A t \in X1 : \E o \in Q : f[o] = t
    OBVIOUS
  <2>2. g \in [Q2 -> X0] /\ \A t \in X0 : \E o \in Q2 : g[o] = t
    OBVIOUS
  <2> HIDE DEF X0, X1, f, g
  <2>3. IsFiniteSet(X1)
    BY <1>2, <2>1, ImagenFinita
  <2>4. IsFiniteSet(X0)
    BY <1>2, <2>2, ImagenFinita
  <2>5. QED
    BY <2>3, <2>4 DEF X0, X1
<1>4. IsFiniteSet(SA) /\ IsFiniteSet(SB)
  BY <1>3, FS_Singleton, FS_Union
<1>5. SA \subseteq Int /\ SB \subseteq Int /\ SA # {} /\ SB # {}
  BY <1>1, <1>2
<1>6. a \in Int /\ b \in Int
  <2> HIDE DEF SA, SB
  <2>1. QED
    BY <1>4, <1>5, MinBien, MaxBien
<1>7. Despejado(B, px, D) =
        IF (\E o \in D : o.x0 < ancla /\ ancla < o.x1) \/ b - a < TramoMinimo THEN Nada ELSE <<a, b>>
  BY DEF Despejado, Q, Q2
<1>8. Despejado(B, px, D) = <<a, b>> /\ ~ (b - a < TramoMinimo)
  <2> HIDE DEF a, b, ancla
  <2>1. QED
    BY <1>7
<1>9. QED
  <2> HIDE DEF a, b
  <2>1. QED
    BY <1>6, <1>8 DEF UnTramo, TramoMinimo

\* Each floor the lift may serve has such a stretch.
LEMMA TramosBien ==
  ASSUME NEW ed, EsEdificio(ed)
  PROVE  /\ DOMAIN TramosLibres(ed) \subseteq 1..199
         /\ \A k \in DOMAIN TramosLibres(ed) : UnTramo(TramosLibres(ed)[k])
<1> DEFINE B == CuerpoAlto(ed)
           tramo(k) == TramoLibre(ed, ed.suelo + AltoPlanta * k)
           E == PlantasEntre(ed.suelo, AltoZaguan(TipoInterior(ed)), CuerpoAlto(ed).y1 - 150)
           S == {q \in E : tramo(q) # Nada}
<1>1. E \subseteq 1..199
  BY DEF PlantasEntre
<1>2. TramosLibres(ed) = [k \in S |-> tramo(k)]
  BY DEF TramosLibres
<1>3. \A k \in S : UnTramo(tramo(k))
  <2>1. TAKE k \in S
  <2> DEFINE D == Delante(ed, B, ed.suelo + AltoPlanta * k)
             K == {i \in DOMAIN ed.piezas \ {IndiceAlto(ed)} :
                     LET o == ed.piezas[i]
                         yb == ed.suelo + AltoPlanta * k
                     IN /\ o.z1 > B.z1 + 5 /\ o.z0 < B.z1 + 120
                        /\ o.y0 < yb + 260 /\ o.y1 > yb + 60
                        /\ o.x0 < B.x1 /\ o.x1 > B.x0}
  <2>2. D = {ed.piezas[i] : i \in K}
    BY DEF Delante
  <2>3. K \subseteq DOMAIN ed.piezas
    OBVIOUS
  <2> HIDE DEF K
  <2>4. IsFiniteSet(K)
    BY <2>3, CuerposBien, FS_Subset
  <2>5. IsFiniteSet(D)
    <3> DEFINE f == [i \in K |-> ed.piezas[i]]
    <3>1. f \in [K -> D] /\ \A t \in D : \E i \in K : f[i] = t
      <4> HIDE DEF D
      <4>1. QED
        BY <2>2
    <3> HIDE DEF f, D
    <3>2. QED
      BY <2>4, <3>1, ImagenFinita
  <2>6. D \subseteq Piezas
    BY <2>2, <2>3, CuerposBien
  <2>7. B \in Piezas /\ ed.px \in Int
    BY CuerpoAltoBien DEF EsEdificio
  <2>8. tramo(k) = Despejado(B, ed.px, D) /\ tramo(k) # Nada
    BY DEF TramoLibre
  <2> HIDE DEF B, D, tramo
  <2>9. QED
    BY <2>5, <2>6, <2>7, <2>8, DespejadoBien
<1>4. S \subseteq E
  OBVIOUS
<1> HIDE DEF E, S, tramo
<1>5. QED
  BY <1>1, <1>2, <1>3, <1>4

\* A list of some of a set is a list of the set.
LEMMA SeqMayor ==
  ASSUME NEW A, NEW B, A \subseteq B, NEW p \in Seq(A)
  PROVE  p \in Seq(B)
  OBVIOUS

\* What planifica settles on is a stretch of every floor it keeps.
LEMMA RepartoBien ==
  ASSUME NEW T, DOMAIN T \subseteq 1..199, DOMAIN T # {}, \A k \in DOMAIN T : UnTramo(T[k])
  PROVE  LET r == Reparto(T)
             n == Len(r.plantas)
         IN /\ r.plantas \in Seq(DOMAIN T) /\ n \in Nat \ {0}
            /\ \A i, j \in 1..n : r.plantas[i] = r.plantas[j] => i = j
            /\ r.fx0 \in Int /\ r.fx1 \in Int /\ r.fx1 - r.fx0 >= TramoMinimo
            /\ \A i \in 1..n : T[r.plantas[i]][1] <= r.fx0 /\ r.fx1 <= T[r.plantas[i]][2]
<1> DEFINE V == DOMAIN T
           SA == {T[k][1] : k \in V}
           SB == {T[k][2] : k \in V}
           fa == Max(SA)
           fb == Min(SB)
           top == Max(V)
           alta == T[top]
           V2 == {k \in V : T[k][1] <= alta[1] /\ T[k][2] >= alta[2]}
           r == Reparto(T)
           Vale(K, a, b) == K # {} /\ K \subseteq V /\ \A k \in K : T[k][1] <= a /\ b <= T[k][2]
<1>1. IsFiniteSet(V) /\ V \subseteq 1..199 /\ V # {}
  <2>1. IsFiniteSet(1..199)
    <3>1. 1 \in Int /\ 199 \in Int
      OBVIOUS
    <3>2. QED
      BY <3>1, FS_Interval
  <2> HIDE DEF V
  <2>2. V \subseteq 1..199 /\ V # {}
    BY DEF V
  <2>3. QED
    BY <2>1, <2>2, FS_Subset
<1>2. \A k \in V : T[k][1] \in Int /\ T[k][2] \in Int /\ T[k][2] - T[k][1] >= TramoMinimo
  BY DEF UnTramo
<1> HIDE DEF V
<1>3. IsFiniteSet(SA) /\ IsFiniteSet(SB) /\ SA # {} /\ SB # {} /\ SA \subseteq Int /\ SB \subseteq Int
  <2> DEFINE f == [k \in V |-> T[k][1]]
             g == [k \in V |-> T[k][2]]
  <2>1. f \in [V -> SA] /\ \A t \in SA : \E o \in V : f[o] = t
    OBVIOUS
  <2>2. g \in [V -> SB] /\ \A t \in SB : \E o \in V : g[o] = t
    OBVIOUS
  <2>3. SA # {} /\ SB # {} /\ SA \subseteq Int /\ SB \subseteq Int
    BY <1>1, <1>2
  <2> HIDE DEF SA, SB, f, g
  <2>4. IsFiniteSet(SA)
    BY <1>1, <2>1, ImagenFinita
  <2>5. IsFiniteSet(SB)
    BY <1>1, <2>2, ImagenFinita
  <2>6. QED
    BY <2>3, <2>4, <2>5
<1>4. \A k \in V : T[k][1] \in SA /\ T[k][2] \in SB
  OBVIOUS
<1>5. /\ fa \in Int /\ fb \in Int /\ \A k \in V : T[k][1] <= fa /\ fb <= T[k][2]
  <2> HIDE DEF SA, SB
  <2>1. fa \in SA /\ \A y \in SA : fa >= y
    BY <1>3, MaxBien
  <2>2. fb \in SB /\ \A y \in SB : fb <= y
    BY <1>3, MinBien
  <2> HIDE DEF fa, fb
  <2>3. QED
    BY <1>2, <1>3, <1>4, <2>1, <2>2
<1>6. top \in V
  <2>1. V \subseteq Int
    BY <1>1
  <2>2. QED
    BY <1>1, <2>1, MaxBien
<1> HIDE DEF SA, SB, fa, fb, top
<1>7. Vale(V, fa, fb)
  BY <1>1, <1>5
<1>8. Vale(V2, alta[1], alta[2])
  <2>1. top \in V2
    BY <1>2, <1>6
  <2>2. \A k \in V2 : T[k][1] <= alta[1] /\ alta[2] <= T[k][2]
    BY <1>2, <1>6
  <2>3. QED
    BY <2>1, <2>2
<1>9. r = IF fb - fa >= TramoMinimo THEN [plantas |-> Subiendo(V), fx0 |-> fa, fx1 |-> fb]
          ELSE [plantas |-> Subiendo(V2), fx0 |-> alta[1], fx1 |-> alta[2]]
  BY <1>1 DEF Reparto, UnSoloTramo, V, SA, SB, fa, fb, top
<1>10. UnTramo(alta)
  BY <1>6 DEF V
<1> HIDE DEF V2, alta, r, Vale
<1>11. PICK K, a, b : /\ Vale(K, a, b) /\ a \in Int /\ b \in Int /\ b - a >= TramoMinimo
                      /\ r = [plantas |-> Subiendo(K), fx0 |-> a, fx1 |-> b]
  <2>1. CASE fb - fa >= TramoMinimo
    BY <1>5, <1>7, <1>9, <2>1
  <2>2. CASE ~ (fb - fa >= TramoMinimo)
    BY <1>8, <1>9, <1>10, <2>2 DEF UnTramo
  <2>3. QED
    BY <2>1, <2>2
<1>12. IsFiniteSet(K) /\ K # {} /\ K \subseteq V /\ K \subseteq 1..199
  <2>1. K # {} /\ K \subseteq V
    BY <1>11 DEF Vale
  <2>2. QED
    BY <1>1, <2>1, FS_Subset
<1> DEFINE n == Cardinality(K)
           p == Subiendo(K)
<1>13. n \in Nat \ {0}
  BY <1>12, FS_CardinalityType, FS_EmptySet
<1>14. p \in Seq(K) /\ Len(p) = n /\ \A i, j \in 1..n : p[i] = p[j] => i = j
  <2>1. K \subseteq Int
    BY <1>12
  <2>2. QED
    BY <1>12, <2>1, SubiendoBien
<1>15. r.plantas = p /\ r.fx0 = a /\ r.fx1 = b
  BY <1>11
<1> HIDE DEF p, n
<1>16. \A i \in 1..n : p[i] \in K
  BY <1>14
<1>17. p \in Seq(V)
  BY <1>12, <1>14, SeqMayor
<1>18. \A i \in 1..n : T[p[i]][1] <= a /\ b <= T[p[i]][2]
  BY <1>11, <1>16 DEF Vale
<1>19. QED
  <2>1. Len(r.plantas) = n
    BY <1>14, <1>15
  <2>2. QED
    BY <1>11, <1>13, <1>14, <1>15, <1>17, <1>18, <2>1 DEF r, V

\* The floors of a plan.
LEMMA PlantasBien ==
  ASSUME NEW V, NEW v \in Seq(V)
  PROVE  Len(v) \in Nat /\ DOMAIN v = 1..Len(v) /\ \A i \in 1..Len(v) : v[i] \in V
  OBVIOUS

\* The number of a flat leads to its place, and the place back to the number.
LEMMA NumeroBien ==
  ASSUME NEW V, V \subseteq Nat, NEW plan, plan.plantas \in Seq(V), plan.upp \in Nat \ {0},
         \A i, j \in 1..Len(plan.plantas) : plan.plantas[i] = plan.plantas[j] => i = j,
         NEW u \in 1..Len(plan.plantas) * plan.upp
  PROVE  /\ SitioUnidad(plan, u) # Nada
         /\ NumeroUnidad(plan, SitioUnidad(plan, u).planta, SitioUnidad(plan, u).slot) = u
<1> DEFINE v == plan.plantas
           n == Len(plan.plantas)
           k == plan.upp
           f == (u - 1) \div k
           s == (u - 1) % k
           sitio == [planta |-> v[f + 1], slot |-> s]
           F == {g \in DOMAIN v : v[g] = v[f + 1]}
<1>1. n \in Nat /\ k \in Nat \ {0} /\ DOMAIN v = 1..n /\ \A i \in 1..n : v[i] \in V
  BY PlantasBien
<1> HIDE DEF v, n, k
<1>2. u \in 1..n * k
  BY DEF n, k
<1>3. u \in Nat /\ u - 1 \in Nat /\ u <= n * k
  <2>1. n * k \in Nat
    BY <1>1
  <2>2. QED
    BY <1>2, <2>1
<1>4. f \in Nat /\ s \in 0..(k - 1) /\ u - 1 = (k * f) + s
  <2>1. f \in Nat /\ s \in 0..(k - 1)
    BY <1>1, <1>3, Divide
  <2>2. u - 1 = (k * f) + s
    BY <1>1, <1>3, SMT
  <2>3. QED
    BY <2>1, <2>2
<1> HIDE DEF f, s
<1>5. f < n
  <2>1. SUFFICES ASSUME f >= n PROVE FALSE
    BY <1>1, <1>4
  <2>2. k * f >= k * n /\ k * n = n * k /\ k * f \in Int /\ k * n \in Int
    BY <1>1, <1>4, <2>1, SMT
  <2> DEFINE x == k * f
             y == k * n
  <2>3. x \in Int /\ y \in Int /\ x >= y /\ u <= y /\ u - 1 = x + s
    BY <1>3, <1>4, <2>2
  <2> HIDE DEF x, y
  <2>4. QED
    BY <1>1, <1>3, <1>4, <2>3
<1>6. f + 1 \in 1..n
  BY <1>1, <1>4, <1>5
<1>7. SitioUnidad(plan, u) = sitio
  <2>1. ~ (u < 1) /\ ~ (f >= n)
    BY <1>1, <1>3, <1>4, <1>5
  <2>2. QED
    BY <2>1 DEF SitioUnidad, f, s, v, n, k
<1>8. sitio \in [planta : Nat, slot : Nat]
  <2>1. v[f + 1] \in Nat
    <3>1. v[f + 1] \in V
      BY <1>1, <1>6
    <3>2. QED
      BY <3>1
  <2>2. s \in Nat
    BY <1>1, <1>4
  <2>3. QED
    BY <2>1, <2>2
<1>9. F = {f + 1}
  BY <1>1, <1>6 DEF v, n
<1>10. Min(F) = f + 1
  <2>1. IsFiniteSet(F) /\ F # {} /\ F \subseteq Int
    <3> HIDE DEF F
    <3>1. IsFiniteSet({f + 1})
      BY FS_Singleton
    <3>2. f + 1 \in Int
      BY <1>4
    <3>3. QED
      BY <1>9, <3>1, <3>2
  <2>2. Min(F) \in F
    <3> HIDE DEF F
    <3>1. QED
      BY <2>1, MinBien
  <2>3. QED
    BY <1>9, <2>2
<1>11. NumeroUnidad(plan, v[f + 1], s) = (Min(F) - 1) * k + s + 1
  BY <1>4, <1>9 DEF NumeroUnidad, v, k
<1>12. (Min(F) - 1) * k + s + 1 = u
  <2>1. (f + 1 - 1) * k = k * f /\ k * f \in Int
    BY <1>1, <1>4, SMT
  <2>2. QED
    BY <1>3, <1>4, <1>10, <2>1
<1>13. SitioUnidad(plan, u) # Nada
  BY <1>7, <1>8, NadaNoEsSitio
<1>14. QED
  BY <1>7, <1>11, <1>12, <1>13

\* The plan of a building.
LEMMA PlanBien ==
  ASSUME NEW ed, EsEdificio(ed), NEW U \in Nat, DOMAIN TramosLibres(ed) # {}
  PROVE  FlatsAreInTheOpen(ed, PlanPisos(Reparto(TramosLibres(ed)), U), TramosLibres(ed))
<1> DEFINE T == TramosLibres(ed)
           r == Reparto(T)
           n == Len(r.plantas)
           plan == PlanPisos(r, U)
<1>1. DOMAIN T \subseteq 1..199 /\ \A k \in DOMAIN T : UnTramo(T[k])
  BY TramosBien
<1>2. /\ r.plantas \in Seq(DOMAIN T) /\ n \in Nat \ {0}
      /\ \A i, j \in 1..n : r.plantas[i] = r.plantas[j] => i = j
      /\ r.fx0 \in Int /\ r.fx1 \in Int /\ r.fx1 - r.fx0 >= TramoMinimo
      /\ \A i \in 1..n : T[r.plantas[i]][1] <= r.fx0 /\ r.fx1 <= T[r.plantas[i]][2]
  <2> HIDE DEF T
  <2>1. DOMAIN T # {}
    BY DEF T
  <2>2. QED
    BY <1>1, <2>1, RepartoBien
<1> HIDE DEF T, r
<1>3. /\ plan.plantas = r.plantas /\ plan.fx0 = r.fx0 /\ plan.fx1 = r.fx1
      /\ plan.upp = UnidadesPorPlanta(r.fx1 - r.fx0, n, U)
  BY DEF PlanPisos
<1> DEFINE u == plan.upp
           fx == plan.fx1 - plan.fx0
<1>4. fx \in Int /\ fx >= TramoMinimo
  BY <1>2, <1>3
<1>5. CabenUnidades(fx, u)
  BY <1>2, <1>3, <1>4, UnidadesBien
<1> HIDE DEF plan
<1>6. u \in Nat \ {0}
  BY <1>5 DEF CabenUnidades
<1>7. /\ \A s \in -1..u - 1 :
               /\ Fachada(plan, s)[1] \in Int /\ Fachada(plan, s)[2] \in Int
               /\ plan.fx0 <= Fachada(plan, s)[1] /\ Fachada(plan, s)[2] <= plan.fx1
      /\ \A s \in 1..u - 1 : Fachada(plan, s - 1)[2] <= Fachada(plan, s)[1]
  BY <1>2, <1>3, <1>4, <1>5, FachadaBien
<1>8. \A i \in 1..n, s \in -1..u - 1 :
         T[plan.plantas[i]][1] <= Fachada(plan, s)[1] /\ Fachada(plan, s)[2] <= T[plan.plantas[i]][2]
  <2>1. TAKE i \in 1..n, s \in -1..u - 1
  <2>2. T[plan.plantas[i]][1] <= plan.fx0 /\ plan.fx1 <= T[plan.plantas[i]][2]
    BY <1>2, <1>3
  <2>3. T[plan.plantas[i]][1] \in Int /\ T[plan.plantas[i]][2] \in Int
    <3>1. plan.plantas[i] \in DOMAIN T
      BY <1>2, <1>3, PlantasBien
    <3>2. QED
      BY <1>1, <3>1 DEF UnTramo
  <2>4. QED
    BY <1>2, <1>3, <1>7, <2>2, <2>3
<1>9. plan.fx0 < Ascensor(ed, plan) /\ Ascensor(ed, plan) < plan.fx1
  <2>1. ed.px \in Int
    BY DEF EsEdificio
  <2>2. QED
    BY <1>2, <1>3, <2>1 DEF Ascensor, Acota, TramoMinimo
<1>10. \A w \in 1..n * u : \E q \in {SitioUnidad(plan, w)} : q # Nada /\ NumeroUnidad(plan, q.planta, q.slot) = w
  <2>1. Len(plan.plantas) = n
    BY <1>3
  <2>2. DOMAIN T \subseteq Nat
    BY <1>1
  <2>3. TAKE w \in 1..n * u
  <2>4. plan.plantas \in Seq(DOMAIN T) /\ \A i, j \in 1..Len(plan.plantas) : plan.plantas[i] = plan.plantas[j] => i = j
    BY <1>2, <1>3, <2>1
  <2>5. w \in 1..Len(plan.plantas) * plan.upp
    BY <2>1, <2>3
  <2>6. /\ SitioUnidad(plan, w) # Nada
        /\ NumeroUnidad(plan, SitioUnidad(plan, w).planta, SitioUnidad(plan, w).slot) = w
    BY <1>6, <2>2, <2>4, <2>5, NumeroBien
  <2>7. QED
    BY <2>6
<1>11. Len(plan.plantas) = n
  BY <1>3
<1>12. FlatsAreInTheOpen(ed, plan, T)
  BY <1>7, <1>8, <1>9, <1>10, <1>11 DEF FlatsAreInTheOpen
<1>13. QED
  BY <1>12 DEF plan, r, T

\* FlatsHaveAFreeFacade: in every building the lift serves, whatever its
\* pieces and however many flats the parcel is divided into, the floors that
\* planifica keeps have a free facade all along each flat, flats are one
\* beside the other, the lift opens onto the stretch and the number of a flat
\* leads back to its place.
THEOREM FreeFacades == InitPiso /\ [][UNCHANGED caso]_caso => []FlatsHaveAFreeFacade
<1>1. InitPiso => FlatsHaveAFreeFacade
  <2>1. SUFFICES ASSUME caso \in Casos, caso.clase = "bloque", DOMAIN TramosLibres(caso.ed) # {}
                 PROVE  FlatsAreInTheOpen(caso.ed, PlanPisos(Reparto(TramosLibres(caso.ed)), caso.unidades),
                                          TramosLibres(caso.ed))
    BY DEF InitPiso, FlatsHaveAFreeFacade
  <2>2. EsEdificio(caso.ed) /\ caso.unidades \in Nat
    BY <2>1, CasosAssumption
  <2>3. QED
    BY <2>1, <2>2, PlanBien
<1>2. FlatsHaveAFreeFacade /\ [UNCHANGED caso]_caso => FlatsHaveAFreeFacade'
  BY DEF FlatsHaveAFreeFacade
<1>3. QED
  BY <1>1, <1>2, PTL

(***************************************************************************)
(* The showroom of a car dealer.                                           *)
(***************************************************************************)
\* Where a whole number is divided, and the numbers of a row.
LEMMA FilaBien ==
  ASSUME NEW n \in Nat, NEW p \in Nat \ {0}, NEW k \in 0..(n - 1)
  PROVE  LET f == k \div p
             e == k % p
             nf == Menor(p, n - f * p)
         IN /\ f \in Nat /\ e \in Nat /\ k = (f * p) + e /\ f * p \in Nat /\ f + 1 <= Techo(n, p) /\ Techo(n, p) \in Nat
            /\ nf \in 1..p /\ e <= nf - 1
<1> DEFINE f == k \div p
           e == k % p
           d == f * p
           nf == Menor(p, n - d)
           m == n + p - 1
           t == m \div p
<1>1. f \in Nat /\ e \in 0..(p - 1)
  <2>1. k \in Nat
    OBVIOUS
  <2>2. QED
    BY <2>1, Divide
<1>2. k = d + e /\ d \in Nat
  <2>1. k = p * (k \div p) + (k % p)
    BY SMT
  <2> HIDE DEF f, e
  <2>2. d = p * f /\ d \in Nat
    BY <1>1, SMT
  <2>3. QED
    BY <1>1, <2>1, <2>2 DEF f, e
<1>3. t \in Nat /\ m % p \in 0..(p - 1)
  <2>1. m \in Nat
    OBVIOUS
  <2> HIDE DEF m
  <2>2. QED
    BY <2>1, Divide
<1>4. m = t * p + (m % p) /\ t * p \in Int
  <2>1. m \in Nat
    OBVIOUS
  <2> HIDE DEF m
  <2>2. m = p * (m \div p) + (m % p)
    BY <2>1, SMT
  <2> HIDE DEF t
  <2>3. p * t = t * p /\ t * p \in Int
    BY <1>3, SMT
  <2>4. QED
    BY <2>2, <2>3 DEF t
<1> DEFINE r == m % p
           w == t * p
<1> HIDE DEF f, e, t, r
<1>5. f + 1 <= t
  <2>1. SUFFICES ASSUME f >= t PROVE FALSE
    BY <1>1, <1>3
  <2>2. f * p >= t * p
    BY <1>1, <1>3, <2>1, SMT
  <2>3. d >= w /\ w \in Int /\ m = w + r /\ r \in 0..(p - 1)
    BY <1>3, <1>4, <2>2 DEF r
  <2> HIDE DEF d, w
  <2>4. QED
    BY <1>1, <1>2, <2>3
<1> HIDE DEF d
<1>6. nf \in 1..p /\ e <= nf - 1
  BY <1>1, <1>2 DEF Menor
<1>7. Techo(n, p) = t
  BY DEF Techo, t
<1> HIDE DEF nf
<1>8. QED
  BY <1>1, <1>2, <1>3, <1>5, <1>6, <1>7 DEF f, e, d, nf

\* A hall of length l that takes a row of w cars, in as many rows as needed.
Sala(Z, X) == /\ Z.x0 \in Int /\ Z.x1 \in Int /\ Z.z0 \in Int /\ Z.z1 \in Int
              /\ X.n \in Nat /\ X.porFila \in Nat \ {0}
              /\ (X.porFila - 1) * 600 <= Z.x1 - Z.x0 - 600
              /\ Z.z0 <= Z.z1 - (1060 + (Techo(X.n, X.porFila) - 1) * 620)

\* The middle of a pedestal: its row, and its place t, in half steps, from the
\* middle of the row.
LEMMA PeanaBien ==
  ASSUME NEW Z, NEW X, Sala(Z, X), NEW k \in 0..(X.n - 1)
  PROVE  LET p == X.porFila
             f == k \div p
             nf == Menor(p, X.n - f * p)
             t == 2 * (k % p) - (nf - 1)
             c == (Z.x0 + Z.x1) \div 2 + 300 * t
         IN /\ f \in Nat /\ k % p \in Nat /\ k = (f * p) + (k % p) /\ nf \in 1..p
            /\ c \in Int /\ Z.x0 <= c - 280 /\ c + 280 <= Z.x1
            /\ Z.z0 + 600 + f * 620 <= Z.z1 - 460
            /\ Peanas(Z, X)[k] = [x0 |-> c - 280, x1 |-> c + 280,
                                  z0 |-> Z.z0 + 40 + f * 620, z1 |-> Z.z0 + 600 + f * 620]
<1> DEFINE p == X.porFila
           n == X.n
           f == k \div p
           e == k % p
           nf == Menor(p, n - f * p)
           t == 2 * e - (nf - 1)
           cc == (Z.x0 + Z.x1) \div 2
           c == cc + 300 * t
           T == Techo(n, p)
<1>1. /\ Z.x0 \in Int /\ Z.x1 \in Int /\ Z.z0 \in Int /\ Z.z1 \in Int
      /\ n \in Nat /\ p \in Nat \ {0}
      /\ (p - 1) * 600 <= Z.x1 - Z.x0 - 600
      /\ Z.z0 <= Z.z1 - (1060 + (T - 1) * 620)
  BY DEF Sala
<1> HIDE DEF p, n
<1>2. k \in 0..(n - 1)
  BY DEF n
<1>3. f \in Nat /\ e \in Nat /\ k = (f * p) + e /\ f + 1 <= T /\ T \in Nat /\ nf \in 1..p /\ e <= nf - 1
  BY <1>1, <1>2, FilaBien
<1> HIDE DEF f, e, nf, T
<1>4. t \in Int /\ -(p - 1) <= t /\ t <= p - 1
  BY <1>1, <1>3
<1>5. cc \in Int /\ 2 * cc <= Z.x0 + Z.x1 /\ Z.x0 + Z.x1 <= 2 * cc + 1
  BY <1>1
<1>6. (t * 600) \div 2 = 300 * t
  <2> HIDE DEF t
  <2>1. QED
    BY <1>4
<1> HIDE DEF t, cc
<1>7. c \in Int /\ Z.x0 <= c - 280 /\ c + 280 <= Z.x1
  BY <1>1, <1>4, <1>5
<1>8. Z.z0 + 600 + f * 620 <= Z.z1 - 460
  BY <1>1, <1>3
<1> DEFINE z == Z.z0 + 320 + f * 620
<1>9. Peanas(Z, X)[k] = Caja(c - 280, c + 280, z - 280, z + 280)
  <2> DEFINE G(j) == LET fila == j \div X.porFila
                         mf == Menor(X.porFila, X.n - fila * X.porFila)
                         cx == (Z.x0 + Z.x1) \div 2 + ((2 * (j % X.porFila) - (mf - 1)) * 600) \div 2
                         cz == Z.z0 + 320 + fila * 620
                     IN Caja(cx - 280, cx + 280, cz - 280, cz + 280)
             c0 == cc + (t * 600) \div 2
  <2>1. Peanas(Z, X) = [j \in 0..(X.n - 1) |-> G(j)]
    BY DEF Peanas
  <2>2. Peanas(Z, X)[k] = G(k)
    <3> HIDE DEF G
    <3>1. QED
      BY <1>2, <2>1 DEF n
  <2>3. G(k) = Caja(c0 - 280, c0 + 280, z - 280, z + 280)
    BY DEF p, n, f, e, nf, t, cc
  <2>4. c0 = c
    BY <1>6
  <2> HIDE DEF c0, c, z, G
  <2>5. QED
    BY <2>2, <2>3, <2>4
<1>10. Caja(c - 280, c + 280, z - 280, z + 280) =
         [x0 |-> c - 280, x1 |-> c + 280, z0 |-> Z.z0 + 40 + f * 620, z1 |-> Z.z0 + 600 + f * 620]
  <2> HIDE DEF c
  <2>1. z \in Int /\ z - 280 = Z.z0 + 40 + f * 620 /\ z + 280 = Z.z0 + 600 + f * 620
    BY <1>1, <1>3
  <2> HIDE DEF z
  <2>2. Menor(c - 280, c + 280) = c - 280 /\ Mayor(c - 280, c + 280) = c + 280
    BY <1>7 DEF Menor, Mayor
  <2>3. Menor(z - 280, z + 280) = z - 280 /\ Mayor(z - 280, z + 280) = z + 280
    BY <2>1 DEF Menor, Mayor
  <2>4. QED
    BY <2>1, <2>2, <2>3 DEF Caja
<1>11. QED
  BY <1>3, <1>7, <1>8, <1>9, <1>10 DEF p, n, f, e, nf, t, cc

\* The pedestals of such a hall leave free the desk and the way in, and one another.
LEMMA SalaBien ==
  ASSUME NEW Z, NEW X, Sala(Z, X), NEW px \in Int
  PROVE  HallIsClear(Z, Peanas(Z, X), px)
<1> DEFINE P == Peanas(Z, X)
           p == X.porFila
           n == X.n
           f(k) == k \div p
           nf(k) == Menor(p, n - f(k) * p)
           t(k) == 2 * (k % p) - (nf(k) - 1)
           cc == (Z.x0 + Z.x1) \div 2
           c(k) == cc + 300 * t(k)
<1>1. /\ Z.x0 \in Int /\ Z.x1 \in Int /\ Z.z0 \in Int /\ Z.z1 \in Int /\ n \in Nat /\ p \in Nat \ {0}
  BY DEF Sala
<1>2. cc \in Int
  BY <1>1
<1>3. DOMAIN P = 0..(n - 1)
  BY DEF Peanas
<1> DEFINE s(k) == k % p
           EnFila(k) == s(k) \in Nat /\ k = (f(k) * p) + s(k) /\ nf(k) \in 1..p
           Cabe(k) == /\ f(k) \in Nat /\ c(k) \in Int /\ Z.x0 <= c(k) - 280 /\ c(k) + 280 <= Z.x1
                        /\ Z.z0 + 600 + f(k) * 620 <= Z.z1 - 460
           Peana(k) == [x0 |-> c(k) - 280, x1 |-> c(k) + 280,
                        z0 |-> Z.z0 + 40 + f(k) * 620, z1 |-> Z.z0 + 600 + f(k) * 620]
<1>4. \A k \in 0..(n - 1) : EnFila(k) /\ Cabe(k) /\ P[k] = Peana(k)
  BY PeanaBien
<1> HIDE DEF P, f, cc, c, nf, s, p, n, EnFila, Cabe, Peana
<1>5. \A k, l \in 0..(n - 1) : f(k) = f(l) /\ k # l => c(k) + 600 <= c(l) \/ c(l) + 600 <= c(k)
  <2>1. SUFFICES ASSUME NEW k \in 0..(n - 1), NEW l \in 0..(n - 1), f(k) = f(l), k # l
                 PROVE  c(k) + 600 <= c(l) \/ c(l) + 600 <= c(k)
    OBVIOUS
  <2>2. nf(k) = nf(l)
    BY <2>1 DEF nf
  <2>3. s(k) \in Nat /\ s(l) \in Nat /\ k = (f(k) * p) + s(k) /\ l = (f(l) * p) + s(l) /\ nf(k) \in 1..p
    BY <1>4 DEF EnFila
  <2>4. s(k) # s(l)
    BY <2>1, <2>3
  <2> DEFINE N == nf(k)
  <2>5. c(k) = cc + 300 * (2 * s(k) - (N - 1)) /\ c(l) = cc + 300 * (2 * s(l) - (N - 1))
    BY <2>2 DEF c, s
  <2>6. N \in Int /\ s(k) \in Nat /\ s(l) \in Nat
    BY <1>1, <2>3
  <2> HIDE DEF N
  <2>7. s(k) + 1 <= s(l) \/ s(l) + 1 <= s(k)
    BY <2>4, <2>6
  <2>8. QED
    BY <1>2, <2>5, <2>6, <2>7
<1>6. Mesa(Z) = [x0 |-> Z.x1 - 420, x1 |-> Z.x1 - 180, z0 |-> Z.z1 - 400, z1 |-> Z.z1 - 320]
  BY <1>1 DEF Mesa, Caja, Menor, Mayor
<1>7. Caja(px - 60, px + 60, Z.z1 - 450, Z.z1) = [x0 |-> px - 60, x1 |-> px + 60, z0 |-> Z.z1 - 450, z1 |-> Z.z1]
  BY <1>1 DEF Caja, Menor, Mayor
<1>8. ASSUME NEW i \in DOMAIN P
      PROVE  /\ Z.x0 <= P[i].x0 /\ P[i].x1 <= Z.x1 /\ Z.z0 <= P[i].z0
             /\ \A q \in {Mesa(Z), Caja(px - 60, px + 60, Z.z1 - 450, Z.z1)} : ~ Solapan(P[i], q)
             /\ \A j \in DOMAIN P \ {i} : ~ Solapan(P[i], P[j])
  <2>1. i \in 0..(n - 1)
    BY <1>3, <1>8
  <2>2. /\ P[i].x0 = c(i) - 280 /\ P[i].x1 = c(i) + 280
        /\ P[i].z0 = Z.z0 + 40 + f(i) * 620 /\ P[i].z1 = Z.z0 + 600 + f(i) * 620
        /\ f(i) \in Nat /\ c(i) \in Int /\ Z.x0 <= c(i) - 280 /\ c(i) + 280 <= Z.x1
        /\ Z.z0 + 600 + f(i) * 620 <= Z.z1 - 460
    <3>1. /\ f(i) \in Nat /\ c(i) \in Int /\ Z.x0 <= c(i) - 280 /\ c(i) + 280 <= Z.x1
          /\ Z.z0 + 600 + f(i) * 620 <= Z.z1 - 460
      BY <1>4, <2>1 DEF Cabe
    <3>2. P[i] = [x0 |-> c(i) - 280, x1 |-> c(i) + 280,
                  z0 |-> Z.z0 + 40 + f(i) * 620, z1 |-> Z.z0 + 600 + f(i) * 620]
      <4>1. P[i] = Peana(i)
        BY <1>4, <2>1
      <4>2. QED
        BY <4>1 DEF Peana
    <3>3. QED
      BY <3>1, <3>2
  <2>3. Z.x0 <= P[i].x0 /\ P[i].x1 <= Z.x1 /\ Z.z0 <= P[i].z0
    BY <1>1, <2>2
  <2>4. ~ Solapan(P[i], Mesa(Z))
    <3>1. Mesa(Z).z0 = Z.z1 - 400
      BY <1>6
    <3>2. ~ (Mesa(Z).z0 < P[i].z1)
      BY <1>1, <2>2, <3>1
    <3>3. QED
      BY <3>2 DEF Solapan
  <2>5. ~ Solapan(P[i], Caja(px - 60, px + 60, Z.z1 - 450, Z.z1))
    <3> DEFINE q == Caja(px - 60, px + 60, Z.z1 - 450, Z.z1)
    <3>1. q.z0 = Z.z1 - 450
      BY <1>7
    <3> HIDE DEF q
    <3>2. ~ (q.z0 < P[i].z1)
      BY <1>1, <2>2, <3>1
    <3>3. ~ Solapan(P[i], q)
      BY <3>2 DEF Solapan
    <3>4. QED
      BY <3>3 DEF q
  <2>6. ASSUME NEW j \in DOMAIN P, j # i PROVE ~ Solapan(P[i], P[j])
    <3>1. j \in 0..(n - 1)
      BY <1>3, <2>6
    <3>2. /\ P[j].x0 = c(j) - 280 /\ P[j].x1 = c(j) + 280
          /\ P[j].z0 = Z.z0 + 40 + f(j) * 620 /\ P[j].z1 = Z.z0 + 600 + f(j) * 620
          /\ f(j) \in Nat /\ c(j) \in Int
      <4>1. f(j) \in Nat /\ c(j) \in Int
        BY <1>4, <3>1 DEF Cabe
      <4>2. P[j] = [x0 |-> c(j) - 280, x1 |-> c(j) + 280,
                    z0 |-> Z.z0 + 40 + f(j) * 620, z1 |-> Z.z0 + 600 + f(j) * 620]
        <5>1. P[j] = Peana(j)
          BY <1>4, <3>1
        <5>2. QED
          BY <5>1 DEF Peana
      <4>3. QED
        BY <4>1, <4>2
    <3>3. CASE f(i) = f(j)
      <4>1. c(i) + 600 <= c(j) \/ c(j) + 600 <= c(i)
        BY <1>5, <2>1, <2>6, <3>1, <3>3
      <4>2. ~ (P[i].x0 < P[j].x1) \/ ~ (P[j].x0 < P[i].x1)
        BY <2>2, <3>2, <4>1
      <4>3. QED
        BY <4>2 DEF Solapan
    <3>4. CASE f(i) # f(j)
      <4>1. f(i) + 1 <= f(j) \/ f(j) + 1 <= f(i)
        BY <2>2, <3>2, <3>4
      <4>2. ~ (P[i].z0 < P[j].z1) \/ ~ (P[j].z0 < P[i].z1)
        BY <1>1, <2>2, <3>2, <4>1
      <4>3. QED
        BY <4>2 DEF Solapan
    <3>5. QED
      BY <3>3, <3>4
  <2>7. QED
    BY <2>3, <2>4, <2>5, <2>6
<1>9. QED
  BY <1>8 DEF HallIsClear, P

\* The hall of a car dealer is such a hall.
LEMMA ZaguanBien ==
  ASSUME NEW ed, EsConcesionario(ed), NEW r, r.fx0 \in Int, r.fx1 \in Int, NEW coches \in Nat, NEW muestra \in Nat
  PROVE  LET Z == Zaguan(ed, r, coches, muestra)
         IN Sala(Z, FondoExpo(ed, Z.x1 - Z.x0, coches, muestra))
<1> DEFINE B0 == CuerpoPuerta(ed)
           B1 == CuerpoAlto(ed)
           ex == Ascensor(ed, r)
           a == Mayor(Menor(ed.px - 1700, ex - 240), B0.x0 + 60)
           b == Menor(Mayor(ed.px + 1700, ex + 240), B0.x1 - 60)
           L == b - a
           X == FondoExpo(ed, L, coches, muestra)
           zA0 == (B1.z1 - 35) - Acota((B1.z1 - B1.z0) - 600, 650, 1050)
           zL0 == Menor(zA0 - 240, ed.zf - 45 - X.fondo)
           Z == Zaguan(ed, r, coches, muestra)
<1>1. /\ EsEdificio(ed) /\ ed.px \in Int /\ ed.zf \in Int /\ B0.x0 + 400 <= ed.px /\ ed.px + 400 <= B0.x1
  BY DEF EsConcesionario, EsEdificio
<1>2. B0.x0 \in Int /\ B0.x1 \in Int /\ B1.z0 \in Int /\ B1.z1 \in Int
  BY <1>1, CuerpoPuertaBien, CuerpoAltoBien DEF Piezas
<1>3. ex \in Int
  BY <1>1 DEF Ascensor, Acota
<1>4. TipoInterior(ed) = "concesionario"
  BY DEF TipoInterior, EsConcesionario
<1> HIDE DEF B0, B1, ex
<1>5. a \in Int /\ b \in Int /\ a <= ed.px - 340 /\ b >= ed.px + 340
  BY <1>1, <1>2, <1>3 DEF Mayor, Menor
<1>6. Z.x0 = a /\ Z.x1 = b /\ Z.z0 = zL0 /\ Z.z1 = ed.zf - 45
  <2>1. ~ (b - a < 500)
    <3> HIDE DEF a, b
    <3>1. QED
      BY <1>1, <1>5
  <2>2. QED
    BY <1>4, <2>1 DEF Zaguan, B0, B1, ex
<1> HIDE DEF a, b, Z
<1>7. L \in Int /\ L >= 680
  BY <1>1, <1>5
<1> HIDE DEF L
<1> DEFINE n == IF coches = 0 THEN muestra ELSE Menor(coches, 12)
           q == (L - 600) \div 600
           pf == Mayor(1, q + 1)
           T == Techo(n, pf)
<1>8. n \in Nat
  BY DEF Menor
<1>9. q \in Nat /\ q * 600 <= L - 600
  BY <1>7
<1>10. X.n = n /\ X.porFila = pf /\ X.fondo = Mayor(2000, 1060 + (T - 1) * 620)
  BY DEF FondoExpo
<1> HIDE DEF n, q
<1>11. pf \in Nat \ {0} /\ (pf - 1) * 600 <= L - 600
  BY <1>9 DEF Mayor
<1> HIDE DEF pf
<1>12. T \in Int
  BY <1>8, <1>11 DEF Techo
<1> HIDE DEF T, X
<1>13. X.fondo \in Int /\ X.fondo >= 1060 + (T - 1) * 620
  BY <1>10, <1>12 DEF Mayor
<1>14. zA0 \in Int
  BY <1>2 DEF Acota
<1> HIDE DEF zA0
<1>15. zL0 \in Int /\ zL0 <= ed.zf - 45 - X.fondo
  BY <1>1, <1>13, <1>14 DEF Menor
<1> HIDE DEF zL0
<1>16. Z.x1 - Z.x0 = L
  BY <1>6 DEF L
<1>17. Sala(Z, X)
  <2>1. Z.z0 <= Z.z1 - (1060 + (T - 1) * 620)
    BY <1>1, <1>6, <1>12, <1>13, <1>15
  <2>2. Z.x0 \in Int /\ Z.x1 \in Int /\ Z.z0 \in Int /\ Z.z1 \in Int
    BY <1>1, <1>5, <1>6, <1>15
  <2>3. Techo(X.n, X.porFila) = T
    BY <1>10 DEF T
  <2>4. QED
    BY <1>8, <1>10, <1>11, <1>16, <2>1, <2>2, <2>3 DEF Sala
<1>18. QED
  BY <1>16, <1>17 DEF Z, X

\* ShowroomKeepsClear: however many cars a parcel has, however wide its
\* building and wherever its door, the pedestals of the showroom do not touch
\* one another, stay inside the hall and leave the seller's desk and the way in
\* free (planExpo and exposicion).
THEOREM ClearShowrooms == InitPiso /\ [][UNCHANGED caso]_caso => []ShowroomKeepsClear
<1>1. InitPiso => ShowroomKeepsClear
  <2> DEFINE Z == Zaguan(caso.ed, caso.tramo, caso.coches, caso.muestra)
             X == FondoExpo(caso.ed, Z.x1 - Z.x0, caso.coches, caso.muestra)
  <2>1. SUFFICES ASSUME caso \in Casos, caso.clase = "expo"
                 PROVE  HallIsClear(Z, Peanas(Z, X), caso.ed.px)
    BY DEF InitPiso, ShowroomKeepsClear
  <2>2. /\ EsConcesionario(caso.ed) /\ caso.coches \in Nat /\ caso.muestra \in Nat
        /\ caso.tramo.fx0 \in Int /\ caso.tramo.fx1 \in Int
    BY <2>1, CasosAssumption
  <2>3. Sala(Z, X)
    BY <2>2, ZaguanBien
  <2>4. caso.ed.px \in Int
    BY <2>2 DEF EsConcesionario, EsEdificio
  <2> HIDE DEF Z, X
  <2>5. QED
    BY <2>3, <2>4, SalaBien
<1>2. ShowroomKeepsClear /\ [UNCHANGED caso]_caso => ShowroomKeepsClear'
  BY DEF ShowroomKeepsClear
<1>3. QED
  BY <1>1, <1>2, PTL

(***************************************************************************)
(* The doors of a flat and of a house.                                     *)
(***************************************************************************)
\* A rectangle given by its corners, the lower ones first.
LEMMA CajaEs ==
  ASSUME NEW a \in Int, NEW b \in Int, NEW c \in Int, NEW d \in Int, a <= b, c <= d
  PROVE  Caja(a, b, c, d) = [x0 |-> a, x1 |-> b, z0 |-> c, z1 |-> d]
<1>1. Menor(a, b) = a /\ Mayor(a, b) = b /\ Menor(c, d) = c /\ Mayor(c, d) = d
  BY DEF Menor, Mayor
<1>2. QED
  BY <1>1 DEF Caja

\* The least and the greatest of three numbers.
LEMMA DeTres ==
  ASSUME NEW a \in Int, NEW b \in Int, NEW c \in Int
  PROVE  Min({a, b, c}) \in {a, b, c} /\ Max({a, b, c}) \in {a, b, c}
<1> DEFINE S == {a, b, c}
<1>1. S # {} /\ S \subseteq Int
  OBVIOUS
<1>2. IsFiniteSet(S)
  <2>1. IsFiniteSet({a}) /\ IsFiniteSet({b}) /\ IsFiniteSet({c})
    BY FS_Singleton
  <2>2. S = ({a} \cup {b}) \cup {c}
    OBVIOUS
  <2> HIDE DEF S
  <2>3. IsFiniteSet({a} \cup {b})
    BY <2>1, FS_Union
  <2>4. QED
    BY <2>1, <2>2, <2>3, FS_Union
<1> HIDE DEF S
<1>3. Min(S) \in S /\ Max(S) \in S
  BY <1>1, <1>2, MinBien, MaxBien
<1>4. QED
  BY <1>3 DEF S

\* The footprint of a piece of furniture once it is pushed into its room.
LEMMA HuellaBien ==
  ASSUME NEW tipo, NEW q \in {0, 1, 3}, NEW x \in Int, NEW z \in Int, NEW R,
         R.x0 \in Int, R.x1 \in Int, R.z0 \in Int, R.z1 \in Int,
         NEW a \in Nat, NEW b \in Nat,
         a = Tamano[tipo][IF q % 2 = 1 THEN 2 ELSE 1] \div 2,
         b = Tamano[tipo][IF q % 2 = 1 THEN 1 ELSE 2] \div 2
  PROVE  LET h == Huella(Encaja([tipo |-> tipo, x |-> x, z |-> z, r |-> q], R))
             X == Acota(x, R.x0 + (a + 2), Mayor(R.x0 + (a + 2), R.x1 - (a + 2)))
             Z == Acota(z, R.z0 + (b + 2), Mayor(R.z0 + (b + 2), R.z1 - (b + 2)))
         IN X \in Int /\ Z \in Int /\ h = [x0 |-> X - a, x1 |-> X + a, z0 |-> Z - b, z1 |-> Z + b]
<1> DEFINE m == [tipo |-> tipo, x |-> x, z |-> z, r |-> q]
           X == Acota(x, R.x0 + (a + 2), Mayor(R.x0 + (a + 2), R.x1 - (a + 2)))
           Z == Acota(z, R.z0 + (b + 2), Mayor(R.z0 + (b + 2), R.z1 - (b + 2)))
           n == [m EXCEPT !.x = X, !.z = Z]
           h == Huella(m)
<1>1. X \in Int /\ Z \in Int
  BY DEF Acota, Mayor
<1>2. h = [x0 |-> x - a, x1 |-> x + a, z0 |-> z - b, z1 |-> z + b]
  <2>1. h = Caja(x - a, x + a, z - b, z + b)
    BY DEF Huella
  <2>2. a \in Int /\ b \in Int /\ 0 <= a /\ 0 <= b
    OBVIOUS
  <2>3. x - a \in Int /\ x + a \in Int /\ z - b \in Int /\ z + b \in Int /\ x - a <= x + a /\ z - b <= z + b
    BY <2>2
  <2>4. Caja(x - a, x + a, z - b, z + b) = [x0 |-> x - a, x1 |-> x + a, z0 |-> z - b, z1 |-> z + b]
    BY <2>3 DEF Caja, Menor, Mayor
  <2>5. QED
    BY <2>1, <2>4
<1>3. Ancho(h) = 2 * a /\ Fondo(h) = 2 * b
  <2> HIDE DEF h
  <2>1. QED
    BY <1>2 DEF Ancho, Fondo
<1>4. Encaja(m, R) = n
  <2>1. Ancho(h) \div 2 + 2 = a + 2 /\ Fondo(h) \div 2 + 2 = b + 2
    <3> HIDE DEF h
    <3>1. QED
      BY <1>3
  <2>2. QED
    <3> HIDE DEF h
    <3>1. Encaja(m, R) = [m EXCEPT !.x = Acota(m.x, R.x0 + (Ancho(h) \div 2 + 2), Mayor(R.x0 + (Ancho(h) \div 2 + 2), R.x1 - (Ancho(h) \div 2 + 2))),
                                   !.z = Acota(m.z, R.z0 + (Fondo(h) \div 2 + 2), Mayor(R.z0 + (Fondo(h) \div 2 + 2), R.z1 - (Fondo(h) \div 2 + 2)))]
      BY DEF Encaja, h
    <3>2. QED
      BY <2>1, <3>1
<1> HIDE DEF X, Z
<1>5. n.tipo = tipo /\ n.x = X /\ n.z = Z /\ n.r = q
  OBVIOUS
<1> HIDE DEF n
<1>6. Huella(n) = Caja(X - a, X + a, Z - b, Z + b)
  BY <1>5 DEF Huella
<1>7. Huella(n) = [x0 |-> X - a, x1 |-> X + a, z0 |-> Z - b, z1 |-> Z + b]
  <2>1. X - a \in Int /\ X + a \in Int /\ Z - b \in Int /\ Z + b \in Int /\ X - a <= X + a /\ Z - b <= Z + b
    BY <1>1
  <2>2. QED
    BY <1>6, <2>1 DEF Caja, Menor, Mayor
<1>8. QED
  BY <1>1, <1>4, <1>7 DEF X, Z

\* Where it starts against the back of its room, or deep in it.
MitadX(tipo, q) == Tamano[tipo][IF q % 2 = 1 THEN 2 ELSE 1] \div 2
MitadZ(tipo, q) == Tamano[tipo][IF q % 2 = 1 THEN 1 ELSE 2] \div 2
HuellaDe(tipo, q, x, z, R) == Huella(Encaja([tipo |-> tipo, x |-> x, z |-> z, r |-> q], R))
LEMMA MuebleBien ==
  ASSUME NEW tipo, NEW q \in {0, 1, 3}, NEW x \in Int, NEW z \in Int, NEW R,
         R.x0 \in Int, R.x1 \in Int, R.z0 \in Int, R.z1 \in Int,
         MitadX(tipo, q) \in Nat, MitadZ(tipo, q) \in Nat
  PROVE  LET h == HuellaDe(tipo, q, x, z, R)
             a == MitadX(tipo, q)
             b == MitadZ(tipo, q)
         IN /\ h.x0 \in Int /\ h.x1 \in Int /\ h.z0 \in Int /\ h.z1 \in Int
            /\ R.x0 + 2 <= h.x0 /\ R.z0 + 2 <= h.z0
            /\ h.z0 >= z - b \/ h.z0 >= R.z1 - 2 * b - 2
            /\ h.x0 >= x - a \/ h.x0 >= R.x1 - 2 * a - 2
            /\ h.x1 <= x + a \/ h.x1 <= R.x0 + 2 * a + 2
<1> DEFINE a == MitadX(tipo, q)
           b == MitadZ(tipo, q)
           h == HuellaDe(tipo, q, x, z, R)
           X == Acota(x, R.x0 + (a + 2), Mayor(R.x0 + (a + 2), R.x1 - (a + 2)))
           Z == Acota(z, R.z0 + (b + 2), Mayor(R.z0 + (b + 2), R.z1 - (b + 2)))
<1>0. /\ a = Tamano[tipo][IF q % 2 = 1 THEN 2 ELSE 1] \div 2
      /\ b = Tamano[tipo][IF q % 2 = 1 THEN 1 ELSE 2] \div 2
      /\ a \in Nat /\ b \in Nat
  BY DEF MitadX, MitadZ
<1> HIDE DEF a, b
<1>1. X \in Int /\ Z \in Int /\ h = [x0 |-> X - a, x1 |-> X + a, z0 |-> Z - b, z1 |-> Z + b]
  BY <1>0, HuellaBien DEF HuellaDe
<1> HIDE DEF h
<1>2. X >= R.x0 + (a + 2) /\ (X >= x \/ X >= R.x1 - (a + 2)) /\ (X <= x \/ X <= R.x0 + (a + 2))
  BY <1>0 DEF Acota, Mayor
<1>3. Z >= R.z0 + (b + 2) /\ (Z >= z \/ Z >= R.z1 - (b + 2))
  BY <1>0 DEF Acota, Mayor
<1> HIDE DEF X, Z
<1>4. h.x0 = X - a /\ h.x1 = X + a /\ h.z0 = Z - b /\ h.z1 = Z + b
  BY <1>1
<1>5. /\ h.x0 \in Int /\ h.x1 \in Int /\ h.z0 \in Int /\ h.z1 \in Int
      /\ R.x0 + 2 <= h.x0 /\ R.z0 + 2 <= h.z0
      /\ h.z0 >= z - b \/ h.z0 >= R.z1 - 2 * b - 2
      /\ h.x0 >= x - a \/ h.x0 >= R.x1 - 2 * a - 2
      /\ h.x1 <= x + a \/ h.x1 <= R.x0 + 2 * a + 2
  BY <1>0, <1>1, <1>2, <1>3, <1>4
<1>6. QED
  BY <1>5 DEF h, a, b

\* What a percentage leaves.
LEMMA Centesimas ==
  ASSUME NEW s \in Nat, NEW n \in Nat, NEW lo \in Nat, NEW hi \in Nat, lo <= s, s <= hi
  PROVE  LET q == (s * n) \div 100 IN q \in Int /\ lo * n <= 100 * q + 99 /\ 100 * q <= hi * n
<1> DEFINE p == s * n
           q == p \div 100
<1>1. p \in Nat /\ lo * n <= p /\ p <= hi * n
  BY SMT
<1> HIDE DEF p
<1>2. q \in Int /\ p <= 100 * q + 99 /\ 100 * q <= p
  BY <1>1
<1> HIDE DEF q
<1>3. QED
  BY <1>1, <1>2 DEF p, q

\* The doors of a plan: nothing that cannot be moved in front of them, nor in
\* a flat with fewer than three plants any furniture, and the street door of a
\* house in its living room.
LEMMA PlanoBien ==
  ASSUME NEW x0 \in Int, NEW x1 \in Int, NEW zI \in Int, NEW en, NEW r, EsDado(r), x1 - x0 >= 700,
         en.x \in Int, en.ancho \in Int,
         \/ en.lado = "atras" /\ zI = 1000
         \/ en.lado = "frente" /\ zI >= 650 /\ en.x = 0 /\ en.ancho >= 100 /\ x0 <= -570 /\ 570 <= x1
  PROVE  LET I == Plano(x0, x1, 0, zI, en, r)
         IN /\ en.lado = "frente" => I.cuartos[1].x0 <= -30 /\ 30 <= I.cuartos[1].x1
            /\ \A paso \in I.pasos :
                 /\ \A w \in I.muros : ~ Corta(w, paso)
                 /\ \A s \in I.fijos : ~ Solapan(s, paso)
                 /\ en.lado = "atras" /\ r.nPlantas < 3 => \A s \in I.solidos : ~ Solapan(s, paso)
<1> DEFINE W == x1 - x0
           espejo == Espejo(x0, x1, en, r)
           X(u) == IF espejo THEN x0 + x1 - u ELSE u
           ua == x0 + (r.s * W) \div 100
           zm == zI - (r.df * (zI - 0)) \div 100
           uk == x0 + ((ua - x0) * 52) \div 100
           sal == Caja(X(x0), X(ua), zm, zI)
           dor == Caja(X(ua), X(x1), zm, zI)
           coc == Caja(X(x0), X(uk), 0, zm)
           rec == Caja(X(uk), X(ua), 0, zm)
           ban == Caja(X(ua), X(x1), 0, zm)
           xa == X(ua)
           puertaX == IF en.lado = "atras" THEN Acota(en.x, rec.x0 + 60, rec.x1 - 60)
                      ELSE (rec.x0 + rec.x1) \div 2
           alto == IF en.lado = "atras" THEN {<<puertaX - 50, puertaX + 50>>} ELSE {}
           calle == IF en.lado = "frente"
                    THEN {<<en.x - en.ancho \div 2, en.x + en.ancho \div 2>>} ELSE {}
           bp == IF espejo THEN <<ban.x1 - 130, ban.x1 - 40>> ELSE <<ban.x0 + 40, ban.x0 + 130>>
           muros == {Pared("x", Caja(x0 - 30, x1 + 30, zI, zI + 30), calle),
                     Pared("z", Caja(x0 - 30, x0, 0 - 15, zI), {}), Pared("z", Caja(x1, x1 + 30, 0 - 15, zI), {}),
                     Pared("x", Caja(x0 - 30, x1 + 30, 0 - 15, 0), alto),
                     Pared("z", Caja(xa - 6, xa + 6, zm, zI), {<<zm + 20, zm + 110>>}),
                     Pared("z", Caja(xa - 6, xa + 6, 0, zm), {}),
                     Pared("x", Caja(ban.x0, ban.x1, zm - 6, zm + 6), {bp})}
           d == IF espejo THEN -1 ELSE 1
           kx == IF espejo THEN coc.x1 ELSE coc.x0
           kL == Mayor(120, Ancho(coc) - 90)
           bx == IF espejo THEN ban.x1 ELSE ban.x0
           lav == Acota(bx + d * 190, ban.x0 + 45, ban.x1 - 45)
           ino == Acota(bx + d * 280, ban.x0 + 30, ban.x1 - 30)
           ducha == IF espejo THEN ban.x0 ELSE ban.x1 - 95
           fijos == {Caja(Min({kx + d * 40 - 35, kx + d * 80, kx + d * (80 + kL)}),
                          Max({kx + d * 40 + 35, kx + d * 80, kx + d * (80 + kL)}), 0, 0 + 74),
                     Caja(Min({lav - 40, ino - 25, ducha}), Max({lav + 40, ino + 25, ducha + 95}), 0, 0 + 60)}
           cS == (sal.z0 + sal.z1) \div 2
           sofaX == IF espejo THEN sal.x1 - 50 ELSE sal.x0 + 50
           teleX == IF espejo THEN sal.x0 + 24 ELSE sal.x1 - 24
           izq == IF espejo THEN 3 ELSE 1
           cama == IF r.camaIzq THEN dor.x0 + 110 ELSE dor.x1 - 110
           cD == (dor.z0 + dor.z1) \div 2 + 20
           M(t, x, z, q, R) == Encaja([tipo |-> t, x |-> x, z |-> z, r |-> q], R)
           plantas == <<M("planta", teleX - d * 10, sal.z1 - 40, 0, sal),
                        M("planta", (sal.x0 + sal.x1) \div 2 + d * 90, sal.z1 - 40, 1, sal),
                        M("planta", teleX, sal.z0 + 40, 2, sal)>>
           muebles == {M("sofa", sofaX, cS, izq, sal), M("mesa", (sofaX + teleX) \div 2 - d * 10, cS, 1, sal),
                       M("tele", teleX, cS, 4 - izq, sal),
                       M("estanteria", IF espejo THEN sal.x1 - 20 ELSE sal.x0 + 20, sal.z1 - 75, izq, sal),
                       M("pie", IF espejo THEN sal.x1 - 35 ELSE sal.x0 + 35, sal.z0 + 45, 0, sal),
                       M("cama", cama, cD, IF r.camaIzq THEN 1 ELSE 3, dor),
                       M("mesilla", IF r.camaIzq THEN dor.x0 + 26 ELSE dor.x1 - 26, cD + 130, 1, dor),
                       M("armario", IF r.camaIzq THEN dor.x1 - 35 ELSE dor.x0 + 35,
                         (dor.z0 + dor.z1) \div 2 + 60, 1, dor)} \cup {plantas[i] : i \in 1..r.nPlantas}
           pasoSal == Caja(xa - 66, xa + 66, zm + 35, zm + 95)
           pasoBan == Caja((bp[1] + bp[2]) \div 2 - 30, (bp[1] + bp[2]) \div 2 + 30, zm - 66, zm + 66)
           pasoEn == IF en.lado = "atras" THEN {Caja(puertaX - 30, puertaX + 30, 0 - 15, 0 + 60)}
                     ELSE {Caja(en.x - 30, en.x + 30, zI - 60, zI + 30)}
           I == Plano(x0, x1, 0, zI, en, r)
<1>1. /\ I.cuartos = <<sal, dor, coc, rec, ban>> /\ I.muros = muros /\ I.fijos = fijos
      /\ I.solidos = fijos \cup {Huella(m) : m \in muebles}
      /\ I.pasos = {pasoSal, pasoBan} \cup pasoEn
  BY DEF Plano
<1> HIDE DEF I, pasoSal, pasoBan, pasoEn, muros, fijos, muebles
<1>2. /\ espejo \in BOOLEAN /\ ua \in Int /\ uk \in Int /\ zm \in Int
      /\ 56 * (x1 - x0) <= 100 * (ua - x0) + 99 /\ 100 * (ua - x0) <= 66 * (x1 - x0)
      /\ uk - x0 >= 203 /\ ua - uk >= 187
      /\ zm >= 234 /\ zI - zm >= 363 /\ (zI = 1000 => zI - zm >= 560)
  <2>1. espejo \in BOOLEAN
    <3> DEFINE v == x0 + (r.s * (x1 - x0)) \div 100 - 80
    <3>1. espejo = (IF en.lado = "frente" THEN en.x >= v ELSE r.espejo)
      BY DEF Espejo
    <3> HIDE DEF v, espejo
    <3>2. r.espejo \in BOOLEAN /\ (en.x >= v) \in BOOLEAN
      BY DEF EsDado
    <3>3. CASE en.lado = "frente"
      BY <3>1, <3>2, <3>3
    <3>4. CASE en.lado # "frente"
      BY <3>1, <3>2, <3>4
    <3>5. QED
      BY <3>3, <3>4
  <2> HIDE DEF espejo
  <2> DEFINE q == (r.s * W) \div 100
             f == (r.df * zI) \div 100
             k == ((ua - x0) * 52) \div 100
  <2>2. q \in Int /\ 56 * W <= 100 * q + 99 /\ 100 * q <= 66 * W
    <3>1. r.s \in Nat /\ 56 <= r.s /\ r.s <= 66 /\ W \in Nat
      BY DEF EsDado
    <3> HIDE DEF W
    <3>2. QED
      BY <3>1, Centesimas
  <2>3. f \in Int /\ 56 * zI <= 100 * f + 99 /\ 100 * f <= 64 * zI
    <3>1. r.df \in Nat /\ 56 <= r.df /\ r.df <= 64 /\ zI \in Nat
      BY DEF EsDado
    <3>2. QED
      BY <3>1, Centesimas
  <2>4. ua = x0 + q /\ zm = zI - f
    BY DEF W
  <2> HIDE DEF q, f, ua, zm, W
  <2>5. W \in Int /\ W >= 700 /\ W = x1 - x0
    BY DEF W
  <2>6. ua \in Int /\ ua - x0 = q /\ q >= 391
    BY <2>2, <2>4, <2>5
  <2>7. k \in Int /\ 52 * q <= 100 * k + 99 /\ 100 * k <= 52 * q
    <3>1. q * 52 \in Int /\ q * 52 = 52 * q /\ k = (q * 52) \div 100
      BY <2>6
    <3> DEFINE p == q * 52
    <3> HIDE DEF p, k
    <3>2. k = p \div 100 /\ p \in Int /\ p = 52 * q
      BY <3>1 DEF p
    <3>3. QED
      BY <3>2
  <2>8. uk = x0 + k
    OBVIOUS
  <2> HIDE DEF k, uk
  <2>9. QED
    BY <2>1, <2>2, <2>3, <2>4, <2>5, <2>6, <2>7, <2>8
<1> DEFINE xk == X(uk)
<1> HIDE DEF ua, uk, zm
<1>3. xa \in Int /\ xk \in Int /\ IF espejo THEN xa = x0 + x1 - ua /\ xk = x0 + x1 - uk ELSE xa = ua /\ xk = uk
  BY <1>2
<1>4. IF espejo THEN xa - x0 >= 238 /\ x1 - xa >= 391 /\ x1 - xk >= 203 /\ xk - xa >= 187
                ELSE x1 - xa >= 238 /\ xa - x0 >= 391 /\ xk - x0 >= 203 /\ xa - xk >= 187
  <2> HIDE DEF espejo, xa, xk
  <2>1. QED
    BY <1>2, <1>3
<1>5. en.lado = "frente" => IF espejo THEN xa <= -36 ELSE xa >= 36
  <2>1. SUFFICES ASSUME en.lado = "frente" PROVE IF espejo THEN xa <= -36 ELSE xa >= 36
    OBVIOUS
  <2>2. (espejo <=> ua <= 80) /\ x0 <= -570 /\ 570 <= x1
    <3>1. espejo = (en.x >= x0 + (r.s * (x1 - x0)) \div 100 - 80)
      BY <2>1 DEF Espejo
    <3>2. ua - 80 = x0 + (r.s * (x1 - x0)) \div 100 - 80
      <4> DEFINE q == (r.s * W) \div 100
      <4>1. ua = x0 + q /\ q = (r.s * (x1 - x0)) \div 100
        BY DEF ua
      <4>2. q \in Int
        BY DEF EsDado
      <4> HIDE DEF q
      <4>3. QED
        BY <4>1, <4>2
    <3>3. en.x = 0 /\ x0 <= -570 /\ 570 <= x1
      BY <2>1
    <3> HIDE DEF espejo
    <3>4. espejo = (0 >= ua - 80)
      BY <3>1, <3>2, <3>3
    <3>5. 0 >= ua - 80 <=> ua <= 80
      BY <1>2
    <3>6. QED
      BY <3>3, <3>4, <3>5
  <2> HIDE DEF espejo, xa, xk
  <2>3. CASE espejo
    BY <1>2, <1>3, <2>2, <2>3
  <2>4. CASE ~ espejo
    BY <1>2, <1>3, <2>2, <2>4
  <2>5. QED
    BY <2>3, <2>4
<1>6. /\ sal.z0 = zm /\ sal.z1 = zI /\ dor.z0 = zm /\ dor.z1 = zI
      /\ IF espejo
         THEN /\ sal.x0 = xa /\ sal.x1 = x1 /\ dor.x0 = x0 /\ dor.x1 = xa /\ coc.x0 = xk /\ coc.x1 = x1
              /\ rec.x0 = xa /\ rec.x1 = xk /\ ban.x0 = x0 /\ ban.x1 = xa
         ELSE /\ sal.x0 = x0 /\ sal.x1 = xa /\ dor.x0 = xa /\ dor.x1 = x1 /\ coc.x0 = x0 /\ coc.x1 = xk
              /\ rec.x0 = xk /\ rec.x1 = xa /\ ban.x0 = xa /\ ban.x1 = x1
  <2> DEFINE y0 == X(x0)
             y1 == X(x1)
  <2>1. y0 \in Int /\ y1 \in Int /\ IF espejo THEN y0 = x1 /\ y1 = x0 ELSE y0 = x0 /\ y1 = x1
    BY <1>2
  <2>2. /\ sal = Caja(y0, xa, zm, zI) /\ dor = Caja(xa, y1, zm, zI) /\ coc = Caja(y0, xk, 0, zm)
        /\ rec = Caja(xk, xa, 0, zm) /\ ban = Caja(xa, y1, 0, zm)
    OBVIOUS
  <2> HIDE DEF y0, y1, xa, xk, espejo, sal, dor, coc, rec, ban
  <2>3. /\ sal.x0 = (IF y0 > xa THEN xa ELSE y0) /\ sal.x1 = (IF y0 > xa THEN y0 ELSE xa)
        /\ sal.z0 = zm /\ sal.z1 = zI
    BY <1>2, <1>3, <2>1, <2>2 DEF Caja, Menor, Mayor
  <2>4. /\ dor.x0 = (IF xa > y1 THEN y1 ELSE xa) /\ dor.x1 = (IF xa > y1 THEN xa ELSE y1)
        /\ dor.z0 = zm /\ dor.z1 = zI
    BY <1>2, <1>3, <2>1, <2>2 DEF Caja, Menor, Mayor
  <2>5. coc.x0 = (IF y0 > xk THEN xk ELSE y0) /\ coc.x1 = (IF y0 > xk THEN y0 ELSE xk)
    BY <1>2, <1>3, <2>1, <2>2 DEF Caja, Menor, Mayor
  <2>6. rec.x0 = (IF xk > xa THEN xa ELSE xk) /\ rec.x1 = (IF xk > xa THEN xk ELSE xa)
    BY <1>2, <1>3, <2>1, <2>2 DEF Caja, Menor, Mayor
  <2>7. ban.x0 = (IF xa > y1 THEN y1 ELSE xa) /\ ban.x1 = (IF xa > y1 THEN xa ELSE y1)
    BY <1>2, <1>3, <2>1, <2>2 DEF Caja, Menor, Mayor
  <2>8. CASE espejo
    BY <1>3, <1>4, <2>1, <2>3, <2>4, <2>5, <2>6, <2>7, <2>8
  <2>9. CASE ~ espejo
    BY <1>3, <1>4, <2>1, <2>3, <2>4, <2>5, <2>6, <2>7, <2>9
  <2>10. QED
    BY <1>2, <2>8, <2>9
<1> HIDE DEF espejo, xa, xk, sal, dor, coc, rec, ban
<1>7. /\ pasoSal.x0 = xa - 66 /\ pasoSal.x1 = xa + 66 /\ pasoSal.z0 = zm + 35 /\ pasoSal.z1 = zm + 95
      /\ pasoBan.z0 = zm - 66 /\ pasoBan.z1 = zm + 66
      /\ IF espejo THEN /\ pasoBan.x0 = xa - 115 /\ pasoBan.x1 = xa - 55 /\ bp = <<xa - 130, xa - 40>>
                   ELSE /\ pasoBan.x0 = xa + 55 /\ pasoBan.x1 = xa + 115 /\ bp = <<xa + 40, xa + 130>>
  <2>1. pasoSal = [x0 |-> xa - 66, x1 |-> xa + 66, z0 |-> zm + 35, z1 |-> zm + 95]
    BY <1>2, <1>3, CajaEs DEF pasoSal
  <2>2. IF espejo THEN bp = <<xa - 130, xa - 40>> ELSE bp = <<xa + 40, xa + 130>>
    BY <1>6
  <2> DEFINE m == (bp[1] + bp[2]) \div 2
  <2>3. IF espejo THEN m = xa - 85 ELSE m = xa + 85
    <3> HIDE DEF bp
    <3>1. CASE espejo
      BY <1>3, <2>2, <3>1
    <3>2. CASE ~ espejo
      BY <1>3, <2>2, <3>2
    <3>3. QED
      BY <3>1, <3>2
  <2>4. pasoBan = Caja(m - 30, m + 30, zm - 66, zm + 66)
    BY DEF pasoBan
  <2> HIDE DEF bp, m
  <2>5. m \in Int
    BY <1>3, <2>3
  <2>6. pasoBan = [x0 |-> m - 30, x1 |-> m + 30, z0 |-> zm - 66, z1 |-> zm + 66]
    BY <1>2, <2>4, <2>5, CajaEs
  <2>7. QED
    BY <1>3, <2>1, <2>2, <2>3, <2>6
<1> HIDE DEF bp
\* Where the way in is: on the landing side, or in the street facade.
<1>8. \A q \in pasoEn :
         \/ /\ en.lado = "atras" /\ q.x0 = puertaX - 30 /\ q.x1 = puertaX + 30 /\ q.z0 = -15 /\ q.z1 = 60
         \/ /\ en.lado = "frente" /\ q.x0 = -30 /\ q.x1 = 30 /\ q.z0 = zI - 60 /\ q.z1 = zI + 30
  <2>1. puertaX \in Int
    BY <1>3, <1>6 DEF Acota
  <2> HIDE DEF puertaX
  <2>2. CASE en.lado = "atras"
    <3>1. Caja(puertaX - 30, puertaX + 30, 0 - 15, 0 + 60).x0 = puertaX - 30
          /\ Caja(puertaX - 30, puertaX + 30, 0 - 15, 0 + 60).x1 = puertaX + 30
          /\ Caja(puertaX - 30, puertaX + 30, 0 - 15, 0 + 60).z0 = -15
          /\ Caja(puertaX - 30, puertaX + 30, 0 - 15, 0 + 60).z1 = 60
      BY <2>1 DEF Caja, Menor, Mayor
    <3>2. pasoEn = {Caja(puertaX - 30, puertaX + 30, 0 - 15, 0 + 60)}
      BY <2>2 DEF pasoEn
    <3>3. QED
      BY <2>2, <3>1, <3>2
  <2>3. CASE en.lado = "frente"
    <3>1. en.x = 0
      BY <2>3
    <3>2. pasoEn = {Caja(0 - 30, 0 + 30, zI - 60, zI + 30)}
      BY <2>3, <3>1 DEF pasoEn
    <3>3. Caja(0 - 30, 0 + 30, zI - 60, zI + 30).x0 = -30 /\ Caja(0 - 30, 0 + 30, zI - 60, zI + 30).x1 = 30
          /\ Caja(0 - 30, 0 + 30, zI - 60, zI + 30).z0 = zI - 60
          /\ Caja(0 - 30, 0 + 30, zI - 60, zI + 30).z1 = zI + 30
      BY DEF Caja, Menor, Mayor
    <3>4. QED
      BY <2>3, <3>2, <3>3
  <2>4. QED
    BY <2>2, <2>3
<1>9. en.lado = "atras" => /\ puertaX \in Int
                           /\ IF espejo THEN xa + 60 <= puertaX /\ puertaX <= xk - 60
                                        ELSE xk + 60 <= puertaX /\ puertaX <= xa - 60
  BY <1>3, <1>4, <1>6 DEF Acota
<1> HIDE DEF puertaX
\* The walls: the facade, the party walls, the one to the landing, the one
\* between the living room and the bedroom and what goes on from it, and the
\* one between the bedroom and the bathroom.
<1> DEFINE Fachadas(w) == w.eje = "x" /\ w.caja.z0 = zI /\ w.puertas = calle
           Medianera(w) == w.caja.x1 = x0 \/ w.caja.x0 = x1
           Trasera(w) == w.eje = "x" /\ w.caja.z1 = 0 /\ w.puertas = alto
           Tabique(w) == /\ w.caja.x0 = xa - 6 /\ w.caja.x1 = xa + 6 /\ w.caja.z0 = zm
                         /\ w.eje = "z" /\ w.puertas = {<<zm + 20, zm + 110>>}
           Ciego(w) == w.caja.x0 = xa - 6 /\ w.caja.x1 = xa + 6 /\ w.caja.z1 = zm
           DelBano(w) == w.eje = "x" /\ w.caja.z0 = zm - 6 /\ w.caja.z1 = zm + 6 /\ w.puertas = {bp}
<1>10. \A w \in muros :
          Fachadas(w) \/ Medianera(w) \/ Trasera(w) \/ Tabique(w) \/ Ciego(w) \/ DelBano(w)
  <2> DEFINE w1 == Pared("x", Caja(x0 - 30, x1 + 30, zI, zI + 30), calle)
             w2 == Pared("z", Caja(x0 - 30, x0, 0 - 15, zI), {})
             w3 == Pared("z", Caja(x1, x1 + 30, 0 - 15, zI), {})
             w4 == Pared("x", Caja(x0 - 30, x1 + 30, 0 - 15, 0), alto)
             w5 == Pared("z", Caja(xa - 6, xa + 6, zm, zI), {<<zm + 20, zm + 110>>})
             w6 == Pared("z", Caja(xa - 6, xa + 6, 0, zm), {})
             w7 == Pared("x", Caja(ban.x0, ban.x1, zm - 6, zm + 6), {bp})
  <2> HIDE DEF calle, alto
  <2>1. Fachadas(w1) /\ Trasera(w4) /\ DelBano(w7)
    BY DEF Pared, Caja
  <2>2. Medianera(w2) /\ Medianera(w3)
    BY DEF Pared, Caja, Mayor, Menor
  <2>3. Tabique(w5) /\ Ciego(w6)
    BY <1>3 DEF Pared, Caja, Mayor, Menor
  <2>4. muros = {w1, w2, w3, w4, w5, w6, w7}
    BY DEF muros
  <2> HIDE DEF w1, w2, w3, w4, w5, w6, w7, Fachadas, Medianera, Trasera, Tabique, Ciego, DelBano
  <2>5. QED
    BY <2>1, <2>2, <2>3, <2>4
<1>11. \A w \in muros : ~ Corta(w, pasoSal)
  <2>1. TAKE w \in muros
  <2>2. CASE Fachadas(w) \/ Medianera(w) \/ Trasera(w) \/ Ciego(w) \/ DelBano(w)
    <3>1. ~ Solapan(w.caja, pasoSal)
      BY <1>2, <1>3, <1>4, <1>7, <2>2 DEF Solapan
    <3>2. QED
      BY <3>1 DEF Corta
  <2>3. CASE Tabique(w)
    <3>1. \E h \in w.puertas : ~ (pasoSal.z0 < h[1] \/ pasoSal.z1 > h[2])
      BY <1>2, <1>7, <2>3
    <3>2. w.eje = "z"
      BY <2>3
    <3>3. QED
      BY <3>1, <3>2 DEF Corta
  <2>4. QED
    BY <1>10, <2>2, <2>3
<1>12. \A w \in muros : ~ Corta(w, pasoBan)
  <2>1. TAKE w \in muros
  <2>2. CASE Fachadas(w) \/ Medianera(w) \/ Trasera(w) \/ Ciego(w) \/ Tabique(w)
    <3>1. ~ Solapan(w.caja, pasoBan)
      BY <1>2, <1>3, <1>4, <1>7, <2>2 DEF Solapan
    <3>2. QED
      BY <3>1 DEF Corta
  <2>3. CASE DelBano(w)
    <3>1. \E h \in w.puertas : ~ (pasoBan.x0 < h[1] \/ pasoBan.x1 > h[2])
      BY <1>2, <1>3, <1>7, <2>3
    <3>2. w.eje = "x"
      BY <2>3
    <3>3. QED
      BY <3>1, <3>2 DEF Corta
  <2>4. QED
    BY <1>10, <2>2, <2>3
<1>13. \A q \in pasoEn, w \in muros : ~ Corta(w, q)
  <2>1. TAKE q \in pasoEn, w \in muros
  <2>2. CASE en.lado = "atras"
    <3>1. q.x0 = puertaX - 30 /\ q.x1 = puertaX + 30 /\ q.z0 = -15 /\ q.z1 = 60
      BY <1>8, <2>2
    <3>2. CASE ~ Trasera(w)
      <4>1. ~ Solapan(w.caja, q)
        BY <1>2, <1>3, <1>4, <1>9, <1>10, <2>2, <3>1, <3>2 DEF Solapan
      <4>2. QED
        BY <4>1 DEF Corta
    <3>3. CASE Trasera(w)
      <4>1. w.puertas = {<<puertaX - 50, puertaX + 50>>}
        BY <2>2, <3>3
      <4>2. \E h \in w.puertas : ~ (q.x0 < h[1] \/ q.x1 > h[2])
        BY <1>9, <2>2, <3>1, <4>1
      <4>3. w.eje = "x"
        BY <3>3
      <4>4. QED
        BY <4>2, <4>3 DEF Corta
    <3>4. QED
      BY <3>2, <3>3
  <2>3. CASE en.lado = "frente"
    <3>1. q.x0 = -30 /\ q.x1 = 30 /\ q.z0 = zI - 60 /\ q.z1 = zI + 30
      BY <1>8, <2>3
    <3>2. CASE ~ Fachadas(w)
      <4>1. ~ Solapan(w.caja, q)
        BY <1>2, <1>3, <1>5, <1>10, <2>3, <3>1, <3>2 DEF Solapan
      <4>2. QED
        BY <4>1 DEF Corta
    <3>3. CASE Fachadas(w)
      <4>1. en.x - en.ancho \div 2 <= -50 /\ 50 <= en.x + en.ancho \div 2
        BY <2>3
      <4> DEFINE a == en.x - en.ancho \div 2
                 b == en.x + en.ancho \div 2
      <4>2. w.puertas = {<<a, b>>} /\ a \in Int /\ b \in Int
        BY <2>3, <3>3
      <4> HIDE DEF a, b
      <4>3. a <= -50 /\ 50 <= b
        BY <4>1 DEF a, b
      <4>4. \E h \in w.puertas : ~ (q.x0 < h[1] \/ q.x1 > h[2])
        BY <3>1, <4>2, <4>3
      <4>5. w.eje = "x"
        BY <3>3
      <4>6. QED
        BY <4>4, <4>5 DEF Corta
    <3>4. QED
      BY <3>2, <3>3
  <2>4. QED
    BY <2>2, <2>3
\* The kitchen and the bathroom keep to their rooms.
<1>14. \A s \in fijos : /\ s.x0 \in Int /\ s.x1 \in Int /\ s.z0 = 0 /\ s.z1 \in Int /\ s.z1 <= 74
                        /\ IF espejo THEN xk <= s.x0 \/ s.x1 <= xa ELSE s.x1 <= xk \/ xa <= s.x0
  <2> DEFINE k1 == Caja(Min({kx + d * 40 - 35, kx + d * 80, kx + d * (80 + kL)}),
                        Max({kx + d * 40 + 35, kx + d * 80, kx + d * (80 + kL)}), 0, 0 + 74)
             k2 == Caja(Min({lav - 40, ino - 25, ducha}), Max({lav + 40, ino + 25, ducha + 95}), 0, 0 + 60)
  <2>1. fijos = {k1, k2}
    BY DEF fijos
  <2>2. /\ kL \in Int
        /\ IF espejo THEN d = -1 /\ kx = x1 /\ kL <= x1 - xk - 80 ELSE d = 1 /\ kx = x0 /\ kL <= xk - x0 - 80
        /\ kL >= 120
    BY <1>3, <1>4, <1>6 DEF Ancho, Mayor
  <2> HIDE DEF kL, kx, d
  <2> DEFINE lo == IF espejo THEN xk ELSE x0
             hi == IF espejo THEN x1 ELSE xk
             v1 == kx + d * 40 - 35
             v2 == kx + d * 80
             v3 == kx + d * (80 + kL)
             v4 == kx + d * 40 + 35
  <2>3. /\ lo \in Int /\ hi \in Int /\ v1 \in Int /\ v2 \in Int /\ v3 \in Int /\ v4 \in Int
        /\ \A v \in {v1, v2, v3, v4, v2, v3} : lo <= v /\ v <= hi
    <3>1. CASE espejo
      BY <1>3, <2>2, <3>1
    <3>2. CASE ~ espejo
      BY <1>3, <2>2, <3>2
    <3>3. QED
      BY <3>1, <3>2
  <2>4. k1.x0 \in Int /\ k1.x1 \in Int /\ k1.z0 = 0 /\ k1.z1 = 74 /\ lo <= k1.x0 /\ k1.x1 <= hi
    <3>1. k1 = Caja(Min({v1, v2, v3}), Max({v4, v2, v3}), 0, 0 + 74)
      OBVIOUS
    <3> DEFINE m == Min({v1, v2, v3})
               n == Max({v4, v2, v3})
    <3> HIDE DEF k1, v1, v2, v3, v4, lo, hi
    <3>2. m \in {v1, v2, v3} /\ n \in {v4, v2, v3}
      BY <2>3, DeTres
    <3>3. k1 = Caja(m, n, 0, 74)
      BY <3>1
    <3> HIDE DEF m, n
    <3>4. m \in Int /\ n \in Int /\ lo <= m /\ m <= hi /\ lo <= n /\ n <= hi
      BY <2>3, <3>2
    <3>5. QED
      BY <2>3, <3>3, <3>4 DEF Caja, Menor, Mayor
  <2>5. ban.x0 \in Int /\ ban.x1 \in Int /\ ban.x1 - ban.x0 >= 238
    BY <1>3, <1>4, <1>6
  <2> DEFINE b1 == bx + d * 190
             b2 == bx + d * 280
  <2>6. b1 \in Int /\ b2 \in Int
    BY <2>2, <2>5
  <2>7. lav = Acota(b1, ban.x0 + 45, ban.x1 - 45) /\ ino = Acota(b2, ban.x0 + 30, ban.x1 - 30)
    OBVIOUS
  <2> HIDE DEF lav, ino, b1, b2
  <2>8. /\ lav \in Int /\ ban.x0 + 45 <= lav /\ lav <= ban.x1 - 45
        /\ ino \in Int /\ ban.x0 + 30 <= ino /\ ino <= ban.x1 - 30
    BY <2>5, <2>6, <2>7 DEF Acota
  <2>9. ducha \in Int /\ ban.x0 <= ducha /\ ducha + 95 <= ban.x1
    BY <2>5
  <2> HIDE DEF ducha
  <2>10. \A v \in {lav - 40, ino - 25, ducha, lav + 40, ino + 25, ducha + 95} : ban.x0 <= v /\ v <= ban.x1
    BY <2>5, <2>8, <2>9
  <2>11. k2.x0 \in Int /\ k2.x1 \in Int /\ k2.z0 = 0 /\ k2.z1 = 60 /\ ban.x0 <= k2.x0 /\ k2.x1 <= ban.x1
    <3> HIDE DEF k2
    <3>1. /\ lav - 40 \in Int /\ ino - 25 \in Int /\ ducha \in Int /\ lav + 40 \in Int /\ ino + 25 \in Int
          /\ ducha + 95 \in Int
      BY <2>8, <2>9
    <3> DEFINE w1 == lav - 40
               w2 == ino - 25
               w3 == lav + 40
               w4 == ino + 25
               w5 == ducha + 95
               m == Min({w1, w2, ducha})
               n == Max({w3, w4, w5})
    <3>2. k2 = Caja(m, n, 0, 0 + 60)
      BY DEF k2
    <3>3. \A v \in {w1, w2, ducha, w3, w4, w5} : v \in Int /\ ban.x0 <= v /\ v <= ban.x1
      BY <2>10, <3>1
    <3> HIDE DEF w1, w2, w3, w4, w5
    <3>4. m \in {w1, w2, ducha} /\ n \in {w3, w4, w5}
      BY <3>3, DeTres
    <3>5. k2 = Caja(m, n, 0, 60)
      BY <3>2
    <3> HIDE DEF m, n
    <3>6. m \in Int /\ n \in Int /\ ban.x0 <= m /\ m <= ban.x1 /\ ban.x0 <= n /\ n <= ban.x1
      BY <3>3, <3>4
    <3>7. QED
      BY <2>5, <3>5, <3>6 DEF Caja, Menor, Mayor
  <2> HIDE DEF k1, k2
  <2>12. QED
    BY <1>3, <1>6, <2>1, <2>4, <2>11
<1>15. \A s \in fijos : ~ Solapan(s, pasoSal) /\ ~ Solapan(s, pasoBan) /\ \A q \in pasoEn : ~ Solapan(s, q)
  <2>1. TAKE s \in fijos
  <2>2. ~ Solapan(s, pasoSal) /\ ~ Solapan(s, pasoBan)
    BY <1>2, <1>7, <1>14 DEF Solapan
  <2>3. \A q \in pasoEn : ~ Solapan(s, q)
    <3>1. TAKE q \in pasoEn
    <3>2. CASE en.lado = "atras"
      BY <1>3, <1>8, <1>9, <1>14, <3>2 DEF Solapan
    <3>3. CASE en.lado = "frente"
      BY <1>8, <1>14, <3>3 DEF Solapan
    <3>4. QED
      BY <3>2, <3>3
  <2>4. QED
    BY <2>2, <2>3
\* The furniture of a flat keeps its distance from the doors.
<1> DEFINE Puesto(h) == /\ h.x0 \in Int /\ h.x1 \in Int /\ h.z0 \in Int /\ h.z1 \in Int /\ h.z0 >= zm + 2
                        /\ h.z0 >= zm + 95 \/ IF espejo THEN h.x0 >= xa + 66 ELSE h.x1 <= xa - 66
<1>16. en.lado = "atras" /\ r.nPlantas < 3 => \A m \in muebles : Puesto(Huella(m))
  <2>1. SUFFICES ASSUME en.lado = "atras", r.nPlantas < 3 PROVE \A m \in muebles : Puesto(Huella(m))
    OBVIOUS
  <2>2. /\ zm \in Int /\ zI \in Int /\ zI - zm >= 560
        /\ sal.x0 \in Int /\ sal.x1 \in Int /\ sal.z0 = zm /\ sal.z1 = zI
        /\ dor.x0 \in Int /\ dor.x1 \in Int /\ dor.z0 = zm /\ dor.z1 = zI
    BY <1>2, <1>3, <1>6, <2>1
  <2>3. /\ cS \in Int /\ cS >= zm + 280 /\ cD \in Int /\ cD >= zm + 280
        /\ (dor.z0 + dor.z1) \div 2 + 60 \in Int /\ (dor.z0 + dor.z1) \div 2 + 60 >= zm + 280
    BY <2>2
  <2>4. /\ sofaX \in Int /\ teleX \in Int /\ d \in Int /\ izq \in {1, 3} /\ 4 - izq \in {1, 3} /\ cama \in Int
        /\ r.camaIzq \in BOOLEAN
    BY <2>2 DEF EsDado
  <2> HIDE DEF cS, cD, sofaX, teleX, d, cama
  <2>5. Puesto(Huella(M("sofa", sofaX, cS, izq, sal)))
    <3> DEFINE x == sofaX
               z == cS
               q == izq
    <3>1. x \in Int /\ z \in Int /\ zm + 95 <= z - 110 /\ q \in {0, 1, 3}
      BY <2>2, <2>3, <2>4
    <3>2. MitadX("sofa", q) = 45 /\ MitadZ("sofa", q) = 110
      BY <2>4 DEF MitadX, MitadZ, Tamano
    <3> HIDE DEF x, z, q
    <3> DEFINE h == HuellaDe("sofa", q, x, z, sal)
    <3>3. /\ h.x0 \in Int /\ h.x1 \in Int /\ h.z0 \in Int /\ h.z1 \in Int
          /\ h.z0 >= z - 110 \/ h.z0 >= sal.z1 - 2 * 110 - 2
      BY <2>2, <3>1, <3>2, MuebleBien
    <3> HIDE DEF h
    <3>4. h.z0 >= zm + 95
      BY <2>2, <3>1, <3>3
    <3>5. Puesto(h)
      BY <2>2, <3>3, <3>4
    <3>6. QED
      BY <3>5 DEF h, x, z, q, HuellaDe
  <2>6. Puesto(Huella(M("mesa", (sofaX + teleX) \div 2 - d * 10, cS, 1, sal)))
    <3> DEFINE x == (sofaX + teleX) \div 2 - d * 10
               z == cS
               q == 1
    <3>1. x \in Int /\ z \in Int /\ zm + 95 <= z - 55 /\ q \in {0, 1, 3}
      BY <2>2, <2>3, <2>4
    <3>2. MitadX("mesa", q) = 30 /\ MitadZ("mesa", q) = 55
      BY <2>4 DEF MitadX, MitadZ, Tamano
    <3> HIDE DEF x, z, q
    <3> DEFINE h == HuellaDe("mesa", q, x, z, sal)
    <3>3. /\ h.x0 \in Int /\ h.x1 \in Int /\ h.z0 \in Int /\ h.z1 \in Int
          /\ h.z0 >= z - 55 \/ h.z0 >= sal.z1 - 2 * 55 - 2
      BY <2>2, <3>1, <3>2, MuebleBien
    <3> HIDE DEF h
    <3>4. h.z0 >= zm + 95
      BY <2>2, <3>1, <3>3
    <3>5. Puesto(h)
      BY <2>2, <3>3, <3>4
    <3>6. QED
      BY <3>5 DEF h, x, z, q, HuellaDe
  <2>7. Puesto(Huella(M("tele", teleX, cS, 4 - izq, sal)))
    <3> DEFINE x == teleX
               z == cS
               q == 4 - izq
    <3>1. x \in Int /\ z \in Int /\ zm + 95 <= z - 90 /\ q \in {0, 1, 3}
      BY <2>2, <2>3, <2>4
    <3>2. MitadX("tele", q) = 21 /\ MitadZ("tele", q) = 90
      BY <2>4 DEF MitadX, MitadZ, Tamano
    <3> HIDE DEF x, z, q
    <3> DEFINE h == HuellaDe("tele", q, x, z, sal)
    <3>3. /\ h.x0 \in Int /\ h.x1 \in Int /\ h.z0 \in Int /\ h.z1 \in Int
          /\ h.z0 >= z - 90 \/ h.z0 >= sal.z1 - 2 * 90 - 2
      BY <2>2, <3>1, <3>2, MuebleBien
    <3> HIDE DEF h
    <3>4. h.z0 >= zm + 95
      BY <2>2, <3>1, <3>3
    <3>5. Puesto(h)
      BY <2>2, <3>3, <3>4
    <3>6. QED
      BY <3>5 DEF h, x, z, q, HuellaDe
  <2>8. Puesto(Huella(M("estanteria", IF espejo THEN sal.x1 - 20 ELSE sal.x0 + 20, sal.z1 - 75, izq, sal)))
    <3> DEFINE x == IF espejo THEN sal.x1 - 20 ELSE sal.x0 + 20
               z == sal.z1 - 75
               q == izq
    <3>1. x \in Int /\ z \in Int /\ zm + 95 <= z - 60 /\ q \in {0, 1, 3}
      BY <2>2, <2>3, <2>4
    <3>2. MitadX("estanteria", q) = 18 /\ MitadZ("estanteria", q) = 60
      BY <2>4 DEF MitadX, MitadZ, Tamano
    <3> HIDE DEF x, z, q
    <3> DEFINE h == HuellaDe("estanteria", q, x, z, sal)
    <3>3. /\ h.x0 \in Int /\ h.x1 \in Int /\ h.z0 \in Int /\ h.z1 \in Int
          /\ h.z0 >= z - 60 \/ h.z0 >= sal.z1 - 2 * 60 - 2
      BY <2>2, <3>1, <3>2, MuebleBien
    <3> HIDE DEF h
    <3>4. h.z0 >= zm + 95
      BY <2>2, <3>1, <3>3
    <3>5. Puesto(h)
      BY <2>2, <3>3, <3>4
    <3>6. QED
      BY <3>5 DEF h, x, z, q, HuellaDe
  <2>9. Puesto(Huella(M("cama", cama, cD, IF r.camaIzq THEN 1 ELSE 3, dor)))
    <3> DEFINE x == cama
               z == cD
               q == IF r.camaIzq THEN 1 ELSE 3
    <3>1. x \in Int /\ z \in Int /\ zm + 95 <= z - 85 /\ q \in {0, 1, 3}
      BY <2>2, <2>3, <2>4
    <3>2. MitadX("cama", q) = 106 /\ MitadZ("cama", q) = 85
      BY <2>4 DEF MitadX, MitadZ, Tamano
    <3> HIDE DEF x, z, q
    <3> DEFINE h == HuellaDe("cama", q, x, z, dor)
    <3>3. /\ h.x0 \in Int /\ h.x1 \in Int /\ h.z0 \in Int /\ h.z1 \in Int
          /\ h.z0 >= z - 85 \/ h.z0 >= dor.z1 - 2 * 85 - 2
      BY <2>2, <3>1, <3>2, MuebleBien
    <3> HIDE DEF h
    <3>4. h.z0 >= zm + 95
      BY <2>2, <3>1, <3>3
    <3>5. Puesto(h)
      BY <2>2, <3>3, <3>4
    <3>6. QED
      BY <3>5 DEF h, x, z, q, HuellaDe
  <2>10. Puesto(Huella(M("mesilla", IF r.camaIzq THEN dor.x0 + 26 ELSE dor.x1 - 26, cD + 130, 1, dor)))
    <3> DEFINE x == IF r.camaIzq THEN dor.x0 + 26 ELSE dor.x1 - 26
               z == cD + 130
               q == 1
    <3>1. x \in Int /\ z \in Int /\ zm + 95 <= z - 23 /\ q \in {0, 1, 3}
      BY <2>2, <2>3, <2>4
    <3>2. MitadX("mesilla", q) = 20 /\ MitadZ("mesilla", q) = 23
      BY <2>4 DEF MitadX, MitadZ, Tamano
    <3> HIDE DEF x, z, q
    <3> DEFINE h == HuellaDe("mesilla", q, x, z, dor)
    <3>3. /\ h.x0 \in Int /\ h.x1 \in Int /\ h.z0 \in Int /\ h.z1 \in Int
          /\ h.z0 >= z - 23 \/ h.z0 >= dor.z1 - 2 * 23 - 2
      BY <2>2, <3>1, <3>2, MuebleBien
    <3> HIDE DEF h
    <3>4. h.z0 >= zm + 95
      BY <2>2, <3>1, <3>3
    <3>5. Puesto(h)
      BY <2>2, <3>3, <3>4
    <3>6. QED
      BY <3>5 DEF h, x, z, q, HuellaDe
  <2>11. Puesto(Huella(M("armario", IF r.camaIzq THEN dor.x1 - 35 ELSE dor.x0 + 35, (dor.z0 + dor.z1) \div 2 + 60, 1, dor)))
    <3> DEFINE x == IF r.camaIzq THEN dor.x1 - 35 ELSE dor.x0 + 35
               z == (dor.z0 + dor.z1) \div 2 + 60
               q == 1
    <3>1. x \in Int /\ z \in Int /\ zm + 95 <= z - 90 /\ q \in {0, 1, 3}
      BY <2>2, <2>3, <2>4
    <3>2. MitadX("armario", q) = 30 /\ MitadZ("armario", q) = 90
      BY <2>4 DEF MitadX, MitadZ, Tamano
    <3> HIDE DEF x, z, q
    <3> DEFINE h == HuellaDe("armario", q, x, z, dor)
    <3>3. /\ h.x0 \in Int /\ h.x1 \in Int /\ h.z0 \in Int /\ h.z1 \in Int
          /\ h.z0 >= z - 90 \/ h.z0 >= dor.z1 - 2 * 90 - 2
      BY <2>2, <3>1, <3>2, MuebleBien
    <3> HIDE DEF h
    <3>4. h.z0 >= zm + 95
      BY <2>2, <3>1, <3>3
    <3>5. Puesto(h)
      BY <2>2, <3>3, <3>4
    <3>6. QED
      BY <3>5 DEF h, x, z, q, HuellaDe
  <2>12. Puesto(Huella(M("planta", teleX - d * 10, sal.z1 - 40, 0, sal)))
    <3> DEFINE x == teleX - d * 10
               z == sal.z1 - 40
               q == 0
    <3>1. x \in Int /\ z \in Int /\ zm + 95 <= z - 25 /\ q \in {0, 1, 3}
      BY <2>2, <2>3, <2>4
    <3>2. MitadX("planta", q) = 25 /\ MitadZ("planta", q) = 25
      BY <2>4 DEF MitadX, MitadZ, Tamano
    <3> HIDE DEF x, z, q
    <3> DEFINE h == HuellaDe("planta", q, x, z, sal)
    <3>3. /\ h.x0 \in Int /\ h.x1 \in Int /\ h.z0 \in Int /\ h.z1 \in Int
          /\ h.z0 >= z - 25 \/ h.z0 >= sal.z1 - 2 * 25 - 2
      BY <2>2, <3>1, <3>2, MuebleBien
    <3> HIDE DEF h
    <3>4. h.z0 >= zm + 95
      BY <2>2, <3>1, <3>3
    <3>5. Puesto(h)
      BY <2>2, <3>3, <3>4
    <3>6. QED
      BY <3>5 DEF h, x, z, q, HuellaDe
  <2>13. Puesto(Huella(M("planta", (sal.x0 + sal.x1) \div 2 + d * 90, sal.z1 - 40, 1, sal)))
    <3> DEFINE x == (sal.x0 + sal.x1) \div 2 + d * 90
               z == sal.z1 - 40
               q == 1
    <3>1. x \in Int /\ z \in Int /\ zm + 95 <= z - 25 /\ q \in {0, 1, 3}
      BY <2>2, <2>3, <2>4
    <3>2. MitadX("planta", q) = 25 /\ MitadZ("planta", q) = 25
      BY <2>4 DEF MitadX, MitadZ, Tamano
    <3> HIDE DEF x, z, q
    <3> DEFINE h == HuellaDe("planta", q, x, z, sal)
    <3>3. /\ h.x0 \in Int /\ h.x1 \in Int /\ h.z0 \in Int /\ h.z1 \in Int
          /\ h.z0 >= z - 25 \/ h.z0 >= sal.z1 - 2 * 25 - 2
      BY <2>2, <3>1, <3>2, MuebleBien
    <3> HIDE DEF h
    <3>4. h.z0 >= zm + 95
      BY <2>2, <3>1, <3>3
    <3>5. Puesto(h)
      BY <2>2, <3>3, <3>4
    <3>6. QED
      BY <3>5 DEF h, x, z, q, HuellaDe
  <2>14. Puesto(Huella(M("pie", IF espejo THEN sal.x1 - 35 ELSE sal.x0 + 35, sal.z0 + 45, 0, sal)))
    <3> DEFINE x == IF espejo THEN sal.x1 - 35 ELSE sal.x0 + 35
               z == sal.z0 + 45
               h == HuellaDe("pie", 0, x, z, sal)
    <3>1. x \in Int /\ z \in Int
      BY <2>2
    <3>2. MitadX("pie", 0) = 20 /\ MitadZ("pie", 0) = 20
      BY DEF MitadX, MitadZ, Tamano
    <3> HIDE DEF x, z
    <3>3. /\ h.x0 \in Int /\ h.x1 \in Int /\ h.z0 \in Int /\ h.z1 \in Int
          /\ sal.x0 + 2 <= h.x0 /\ sal.z0 + 2 <= h.z0
          /\ h.z0 >= z - 20 \/ h.z0 >= sal.z1 - 2 * 20 - 2
          /\ h.x0 >= x - 20 \/ h.x0 >= sal.x1 - 2 * 20 - 2
          /\ h.x1 <= x + 20 \/ h.x1 <= sal.x0 + 2 * 20 + 2
      BY <2>2, <3>1, <3>2, MuebleBien
    <3> HIDE DEF h
    <3>4. IF espejo THEN h.x0 >= xa + 66 ELSE h.x1 <= xa - 66
      BY <1>3, <1>4, <1>6, <2>2, <3>3 DEF x
    <3>5. Puesto(h)
      BY <2>2, <3>3, <3>4
    <3>6. QED
      BY <3>5 DEF h, x, z, HuellaDe
  <2>15. \A i \in 1..r.nPlantas : Puesto(Huella(plantas[i]))
    <3>1. TAKE i \in 1..r.nPlantas
    <3>2. i = 1 \/ i = 2
      BY <2>1 DEF EsDado
    <3>3. plantas[1] = M("planta", teleX - d * 10, sal.z1 - 40, 0, sal)
          /\ plantas[2] = M("planta", (sal.x0 + sal.x1) \div 2 + d * 90, sal.z1 - 40, 1, sal)
      OBVIOUS
    <3> HIDE DEF plantas, M, Puesto
    <3>4. QED
      BY <2>12, <2>13, <3>2, <3>3
  <2>16. QED
    <3> DEFINE m1 == M("sofa", sofaX, cS, izq, sal)
               m2 == M("mesa", (sofaX + teleX) \div 2 - d * 10, cS, 1, sal)
               m3 == M("tele", teleX, cS, 4 - izq, sal)
               m4 == M("estanteria", IF espejo THEN sal.x1 - 20 ELSE sal.x0 + 20, sal.z1 - 75, izq, sal)
               m5 == M("pie", IF espejo THEN sal.x1 - 35 ELSE sal.x0 + 35, sal.z0 + 45, 0, sal)
               m6 == M("cama", cama, cD, IF r.camaIzq THEN 1 ELSE 3, dor)
               m7 == M("mesilla", IF r.camaIzq THEN dor.x0 + 26 ELSE dor.x1 - 26, cD + 130, 1, dor)
               m8 == M("armario", IF r.camaIzq THEN dor.x1 - 35 ELSE dor.x0 + 35, (dor.z0 + dor.z1) \div 2 + 60, 1, dor)
    <3>1. muebles = {m1, m2, m3, m4, m5, m6, m7, m8} \cup {plantas[i] : i \in 1..r.nPlantas}
      BY DEF muebles, cS, cD, sofaX, teleX, d, cama
    <3> HIDE DEF plantas, Puesto
    <3>2. Puesto(Huella(m1)) /\ Puesto(Huella(m2)) /\ Puesto(Huella(m3)) /\ Puesto(Huella(m4))
          /\ Puesto(Huella(m5)) /\ Puesto(Huella(m6)) /\ Puesto(Huella(m7)) /\ Puesto(Huella(m8))
      BY <2>5, <2>6, <2>7, <2>8, <2>14, <2>9, <2>10, <2>11
    <3> HIDE DEF m1, m2, m3, m4, m5, m6, m7, m8
    <3>3. QED
      BY <2>15, <3>1, <3>2
<1>17. en.lado = "atras" /\ r.nPlantas < 3 =>
         \A m \in muebles : /\ ~ Solapan(Huella(m), pasoSal) /\ ~ Solapan(Huella(m), pasoBan)
                            /\ \A q \in pasoEn : ~ Solapan(Huella(m), q)
  <2>1. SUFFICES ASSUME en.lado = "atras", NEW h, Puesto(h)
                 PROVE  /\ ~ Solapan(h, pasoSal) /\ ~ Solapan(h, pasoBan)
                        /\ \A q \in pasoEn : ~ Solapan(h, q)
    <3> HIDE DEF Puesto
    <3>1. QED
      BY <1>16
  <2>2. ~ Solapan(h, pasoSal) /\ ~ Solapan(h, pasoBan)
    BY <1>2, <1>3, <1>7, <2>1 DEF Solapan
  <2>3. \A q \in pasoEn : ~ Solapan(h, q)
    BY <1>2, <1>8, <2>1 DEF Solapan
  <2>4. QED
    BY <2>2, <2>3
<1>18. en.lado = "frente" => sal.x0 <= -30 /\ 30 <= sal.x1
  BY <1>3, <1>5, <1>6
<1>19. QED
  <2>1. en.lado = "frente" => I.cuartos[1].x0 <= -30 /\ 30 <= I.cuartos[1].x1
    BY <1>1, <1>18
  <2>2. \A paso \in I.pasos, w \in I.muros : ~ Corta(w, paso)
    BY <1>1, <1>11, <1>12, <1>13
  <2>3. \A paso \in I.pasos, s \in I.fijos : ~ Solapan(s, paso)
    BY <1>1, <1>15
  <2>4. en.lado = "atras" /\ r.nPlantas < 3 => \A paso \in I.pasos, s \in I.solidos : ~ Solapan(s, paso)
    BY <1>1, <1>15, <1>17
  <2>5. QED
    BY <2>1, <2>2, <2>3, <2>4 DEF I

\* A flat has 7 m of facade or more.
LEMMA AnchoBien ==
  ASSUME NEW plan, plan.fx0 \in Int, plan.fx1 \in Int, plan.upp \in Nat \ {0}, NEW s \in Int
  PROVE  Fachada(plan, s)[1] \in Int /\ Fachada(plan, s)[2] \in Int /\ Fachada(plan, s)[2] - Fachada(plan, s)[1] >= 700
<1> DEFINE u == plan.upp
           fx == plan.fx1 - plan.fx0
           Ws == (fx - 100) \div u
           W == IF s < 0 THEN Mayor(700, Menor(fx - 140, 1600)) ELSE Mayor(700, Menor(Ws - 40, 1500))
           p == (2 * s + 1) * Ws
           cx == IF s < 0 THEN (plan.fx0 + plan.fx1) \div 2 ELSE plan.fx0 + 50 + p \div 2
           m == W \div 2
<1>1. Fachada(plan, s) = <<cx - m, cx + m>>
  BY DEF Fachada
<1>2. fx \in Int /\ Ws \in Int
  <2> HIDE DEF u
  <2>1. u \in Nat \ {0} /\ fx \in Int
    BY DEF u
  <2> HIDE DEF fx
  <2>2. QED
    BY <2>1, SMT
<1> HIDE DEF Ws, fx
<1>3. W \in Int /\ W >= 700
  BY <1>2 DEF Mayor, Menor
<1>4. p \in Int
  BY <1>2, SMT
<1> HIDE DEF p, W
<1>5. cx \in Int /\ m \in Int /\ 2 * m >= 700
  BY <1>3, <1>4
<1> HIDE DEF cx, m
<1>6. Fachada(plan, s)[1] = cx - m /\ Fachada(plan, s)[2] = cx + m
  BY <1>1
<1>7. QED
  BY <1>5, <1>6

\* DoorsAreNotWalledUp: whatever the building, the flat of its floor or the
\* house behind its street door, and whatever its seed rolls, the doors are
\* free of walls and fittings, of furniture too in a flat with fewer than three
\* plants, and the street door of a house opens into the living room
\* (construyePiso and construyeVilla).
THEOREM OpenDoors == InitPiso /\ [][UNCHANGED caso]_caso => []DoorsAreNotWalledUp
<1>1. InitPiso => DoorsAreNotWalledUp
  <2>1. SUFFICES ASSUME caso \in Casos, caso.clase \in {"piso", "villa"}
                 PROVE  DoorsAreFree(Interior, caso.clase, caso.r.nPlantas)
    BY DEF InitPiso, DoorsAreNotWalledUp
  <2>2. CASE caso.clase = "piso"
    <3> DEFINE f == Fachada(caso.plan, caso.slot)
               en == [lado |-> "atras", x |-> Acota(caso.ex, f[1] + 200, f[2] - 200), ancho |-> 100]
               J == Plano(f[1], f[2], 0, 1000, en, caso.r)
    <3>1. /\ caso.plan.fx0 \in Int /\ caso.plan.fx1 \in Int /\ caso.plan.upp \in Nat \ {0}
          /\ caso.slot \in Int /\ caso.ex \in Int /\ EsDado(caso.r)
      BY <2>1, <2>2, CasosAssumption
    <3>2. f[1] \in Int /\ f[2] \in Int /\ f[2] - f[1] >= 700
      BY <3>1, AnchoBien
    <3>3. Interior = J
      BY <2>2 DEF Interior, PisoDe
    <3> HIDE DEF f
    <3>4. en.lado = "atras" /\ en.x \in Int /\ en.ancho \in Int
      BY <3>1, <3>2 DEF Acota
    <3> HIDE DEF en
    <3>5. \A paso \in J.pasos :
             /\ \A w \in J.muros : ~ Corta(w, paso)
             /\ \A s \in J.fijos : ~ Solapan(s, paso)
             /\ en.lado = "atras" /\ caso.r.nPlantas < 3 => \A s \in J.solidos : ~ Solapan(s, paso)
      BY <3>1, <3>2, <3>4, PlanoBien
    <3> HIDE DEF J
    <3>6. QED
      BY <2>2, <3>3, <3>4, <3>5 DEF DoorsAreFree
  <2>3. CASE caso.clase = "villa"
    <3> DEFINE x0 == Mayor(30 - caso.izq, -800)
               x1 == Menor(caso.der - 30, 800)
               zI == Acota(caso.fondo - 65, 650, 1150)
               en == [lado |-> "frente", x |-> 0, ancho |-> caso.hueco]
               J == Plano(x0, x1, 0, zI, en, caso.r)
    <3>1. /\ caso.izq \in Int /\ caso.izq >= 600 /\ caso.der \in Int /\ caso.der >= 600
          /\ caso.fondo \in Int /\ caso.hueco \in Int /\ caso.hueco >= 100 /\ EsDado(caso.r)
      BY <2>1, <2>3, CasosAssumption
    <3>2. x0 \in Int /\ x1 \in Int /\ zI \in Int /\ x0 <= -570 /\ 570 <= x1 /\ 650 <= zI
      BY <3>1 DEF Mayor, Menor, Acota
    <3>3. Interior = J
      BY <2>3 DEF Interior, VillaDe
    <3> HIDE DEF x0, x1, zI
    <3>4. en.lado = "frente" /\ en.x = 0 /\ en.ancho \in Int /\ en.ancho >= 100
      BY <3>1
    <3> HIDE DEF en
    <3>5. x1 - x0 >= 700 /\ en.x \in Int
      BY <3>2, <3>4
    <3>6. /\ J.cuartos[1].x0 <= -30 /\ 30 <= J.cuartos[1].x1
          /\ \A paso \in J.pasos : /\ \A w \in J.muros : ~ Corta(w, paso)
                                   /\ \A s \in J.fijos : ~ Solapan(s, paso)
      BY <3>1, <3>2, <3>4, <3>5, PlanoBien
    <3> HIDE DEF J
    <3>7. QED
      BY <2>3, <3>3, <3>6 DEF DoorsAreFree
  <2>4. QED
    BY <2>1, <2>2, <2>3
<1>2. DoorsAreNotWalledUp /\ [UNCHANGED caso]_caso => DoorsAreNotWalledUp'
  BY DEF DoorsAreNotWalledUp, DoorsAreFree, Interior
<1>3. QED
  BY <1>1, <1>2, PTL
=============================================================================
