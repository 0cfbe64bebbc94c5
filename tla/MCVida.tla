------------------------------- MODULE MCVida -------------------------------
(***************************************************************************)
(* A quarter of villas and one of offices, three kilometres apart; one     *)
(* parcel in the quarter of villas and one on its own, reached by taxi.    *)
(***************************************************************************)
EXTENDS Vida

Cruces == (-1..1) \X (-1..1)
Trama(i, x) ==
  [i |-> i, x |-> x, z |-> 0, R |-> 16000, paso |-> 10000, calzada |-> 1000, acera |-> 240, radio |-> 450,
   vias |-> {0, 1} \X (-1..1), pintadas |-> (-1..1) \X (-1..1) \X {0, 1} \X {-1, 1}, pisadas |-> {}, otras |-> {},
   turno |-> [c \in Cruces |-> (370 * (c[1] + 3 * c[2] + 5) + 130 * i) % 900]]
LasTramas == <<[Trama(1, 0) EXCEPT !.pisadas = {{33, 41}}, !.otras = {{33, 41}}], Trama(2, 300000)>>

Hora(h, m) == (h * 60 + m) * 600
Dia0 == [sale |-> Hora(8, 0), vuelve |-> Hora(18, 0), ida |-> 9000, regreso |-> 12000, comida |-> Nada,
         recado1 |-> Nada, recado2 |-> Nada, paseo |-> Nada, madrugada |-> Nada]
Casa(x, z, celda, gente) == [trama |-> 1, x |-> x, z |-> z, tapados |-> {}, kind |-> "villas", h |-> 900, area |-> 200,
                             semilla |-> 0, celda |-> celda, gente |-> gente]
Persona(trabaja, v, azar, dia) == [trabaja |-> trabaja, v |-> v, azar |-> azar, dia |-> dia]
LosEdificios ==
  <<Casa(5000, 1000, <<3, 3>>, <<Persona(TRUE, 12, <<100, 500, 500>>, Dia0),
                                 Persona(FALSE, 14, <<900, 500, 100>>,
                                         [Dia0 EXCEPT !.recado1 = [t |-> Hora(13, 59), estancia |-> 35900, azar |-> 7],
                                                      !.recado2 = [t |-> Hora(15, 0), estancia |-> 30000, azar |-> 4]])>>),
    Casa(-3000, 9100, <<5, 3>>, <<Persona(TRUE, 16, <<800, 200, 900>>, [Dia0 EXCEPT !.sale = Hora(7, 58), !.comida = [t |-> Hora(13, 0), estancia |-> 15000, azar |-> 3]]),
                                  Persona(TRUE, 13, <<100, 900, 100>>,
                                          [Dia0 EXCEPT !.sale = Hora(7, 57), !.madrugada = [t |-> Hora(23, 57), azar |-> 5]])>>),
    [Casa(5000, 1000, <<9, 3>>, <<>>) EXCEPT !.trama = 2, !.kind = "towers", !.h = 6400],
    [Casa(-4000, -1000, <<9, 3>>, <<>>) EXCEPT !.trama = 2, !.kind = "warehouses"]>>
MCSorteos == <<<<5, 1, 2>>, <<0, 0, 0>>, <<3, 4, 1>>, <<9, 0, 5>>>>
Cara(seca, libre, via) == [seca |-> seca, libre |-> libre, calle |-> via]
Parcela(x, y, base, portal, caras, oculta) ==
  [x |-> x, y |-> y, base |-> base, ingresos |-> 0, activos |-> 0, portal |-> portal, caras |-> caras, oculta |-> oculta]
Tienda == Parcela(3, 3, 1, [trama |-> 1, x |-> -4000, z |-> 1000, tapados |-> {"sur"}], <<>>, {})
Granja == Parcela(6, 2, 1, [trama |-> 0, x |-> 90000, z |-> 50000, tapados |-> {}],
                  <<Cara(FALSE, 0, FALSE), Cara(TRUE, 400, TRUE), Cara(TRUE, 4000, FALSE)>>, {})
Almacen == Parcela(9, 3, 2, [trama |-> 2, x |-> 5000, z |-> 3000, tapados |-> {}], <<>>, {3})
MCTramas == LasTramas
MCEdificios == LosEdificios
LasCiudades == <<{}, {Tienda, Granja}, {Almacen}>>
MCCiudades == LasCiudades
LasPoblaciones == FoldLeft(LAMBDA s, c : Append(s, <<Poblacion(Ciudades[c], TRUE), Poblacion(Ciudades[c], FALSE)>>), <<>>, <<1, 2, 3>>)
MCPoblaciones == LET ps == LasPoblaciones IN ps
MCInstantes == {Hora(15, 0) + 100, 950}
MCFocos == {<<0, 0>>, <<300000, 0>>}
=============================================================================
