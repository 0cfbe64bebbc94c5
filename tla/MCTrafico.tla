---------------------------- MODULE MCTrafico ----------------------------
(***************************************************************************)
(* Two streets of a quarter of villas that cross, and two arteries that meet *)
(* in a roundabout: their routes, crossings and zebras come from Vias.       *)
(***************************************************************************)
EXTENDS Trafico, TLC

Villas == [calzada |-> 1000, acera |-> 240, rango |-> 10]
Secundaria == [calzada |-> 1500, acera |-> 300, rango |-> 1015]
X == Cruce(Villas, 1, 7000, Villas, 2, 6000)
G == Glorieta(Secundaria, Secundaria, 9000, 9000)

Ruta(v, len, conf, cebras) ==
  LET lanes == CarrilesDe(v.calzada)
      zonas == {<<c.t - c.alc, c.t + c.alc>> : c \in Range(conf)}
               \cup {<<z.t - z.med - 100, z.t + z.med + 100>> : z \in Range(cebras)}
      tc == CentrosVuelta(len, lanes[Len(lanes)], zonas)
  IN [len |-> len, semi |-> v.calzada \div 2, carriles |-> lanes, vmax |-> VmaxDe(v.calzada),
      tc0 |-> tc.tc0, tc1 |-> tc.tc1, conf |-> conf, cebras |-> cebras]
Cebras(S) == SetToSortSeq({[t |-> (z[1] + z[2]) \div 2, med |-> (z[2] - z[1]) \div 2] : z \in S}, LAMBDA a, b : a.t < b.t)
ConAlc(semi, c) == c @@ [alc |-> AlcanceConf(semi, c)]
Rutas1 ==
  <<Ruta(Villas, 16000,
         <<ConAlc(500, [tipo |-> "manda", t |-> 7000, otra |-> 2, par |-> 1, tOtra |-> 6000, semiOtra |-> 500,
                        sab |-> 1, lin |-> 0, caja |-> X.cajaMay])>>, Cebras(X.cebrasMay)),
    Ruta(Villas, 12500,
         <<ConAlc(500, [tipo |-> "cede", t |-> 6000, otra |-> 1, par |-> 1, tOtra |-> 7000, semiOtra |-> 500,
                        sab |-> -1, lin |-> X.lin, caja |-> X.caja])>>, Cebras(X.cebrasMen)),
    Ruta(Secundaria, 18000,
         <<ConAlc(750, [tipo |-> "gl", t |-> 9000, d |-> G.dA, gl |-> 1, ang |-> 180, des |-> <<6, 15>>,
                        rr |-> G.R - G.anillo \div 2])>>, Cebras(PasoZebra(9000, G.dA + 250, G.dA + 500))),
    Ruta(Secundaria, 18000,
         <<ConAlc(750, [tipo |-> "gl", t |-> 9000, d |-> G.dB, gl |-> 1, ang |-> 270, des |-> <<6, 15>>,
                        rr |-> G.R - G.anillo \div 2])>>, Cebras(PasoZebra(9000, G.dB + 250, G.dB + 500)))>>
C(r, t, dir, v) == [r |-> r, t |-> t, dir |-> dir, k |-> 1, vmax |-> v]
(* On the lane beside. *)
C2(r, t, dir, v) == [C(r, t, dir, v) EXCEPT !.k = 2]
MCRutas == LET R == Rutas1 IN R
Escenas1 ==
  {[coches |-> <<C(1, 2100, 1, v), C(1, 3300, 1, 110), C(1, 8500, 1, 100), C(1, 11000, 1, 110), C(1, 2500, -1, 100),
                 C(1, 5000, -1, 110), C(1, 10500, -1, v), C(1, 12800, -1, 110), C(2, 2200, 1, 110)>>, jug |-> Nadie] : v \in {94, 105}}
  \cup {[coches |-> <<C(1, 2100, 1, 110), C(1, 11000, 1, 94), C(1, 5000, -1, 100), C(1, 12800, -1, v),
                 C(2, 2200, 1, 110), C(2, 10400, -1, 100)>>, jug |-> Nadie] : v \in {94, 110}}
  \cup {[coches |-> <<C(3, 2400, 1, 150), C(4, t, 1, 140), C(3, 15600, -1, 130), C(4, 15600, -1, 150)>>, jug |-> Nadie] : t \in {2350}}
  \cup {[coches |-> <<C(3, 2400, 1, 150), C2(3, t, 1, 150), C(4, 2350, 1, 140)>>, jug |-> Nadie] : t \in {2400, 2700}}
  \cup {[coches |-> <<C(1, 2100, 1, v)>>, jug |-> [r |-> 1, t |-> 12000, u |-> u]] : v \in {94, 110}, u \in {40, 120, 196, 300}}
MCEscenas == Escenas1
MCSitios == {[r |-> 1, t |-> 13000, dir |-> -1, k |-> 1]}

(* Every car starts where the code would put one. *)
ASSUME WellPlaced ==
  \A e \in MCEscenas : LET cs == [i \in DOMAIN e.coches |-> NuevoCoche(e.coches[i], e.coches[i].vmax)]
                        IN \A i \in DOMAIN cs : BuenSitio(cs, i, e.coches[i])
MCPasos == {<<2, 2>>}
==========================================================================
