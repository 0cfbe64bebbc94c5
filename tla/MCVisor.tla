------------------------------ MODULE MCVisor ------------------------------
(* A city of four cells with a landmark and two quarters, and one session  *)
(* for each of the things a player may be doing.                           *)
EXTENDS Visor
CONSTANTS Ana
Intento(x, z, k) == [x |-> x, z |-> z, w |-> 30, d |-> 30, agua |-> FALSE, calle |-> FALSE, via |-> FALSE, kind |-> k]
Intentos1 ==
  <<[cuenta |-> 4, lugares |-> <<Intento(100, 100, "villas"), Intento(130, 100, "villas"), Intento(40, 40, "villas"),
                                 [Intento(40, 150, "villas") EXCEPT !.via = TRUE], Intento(50, 160, "villas")>>],
    [cuenta |-> 2, lugares |-> <<Intento(300, 105, "towers"), [Intento(250, 40, "towers") EXCEPT !.agua = TRUE], Intento(370, 40, "towers"), Intento(300, 310, "towers")>>]>>
MCIntentos == Intentos1
Hitos1 == <<[id |-> <<"hito", 0, 0>>, tipo |-> "hito", x |-> 300, z |-> 300, hw |-> 20, hd |-> 30, celda |-> <<1, 1>>]>>
MCHitos == Hitos1
Fraccion1 == [baja |-> 4, media |-> 10]
MCFraccion == Fraccion1
MCMar == {<<0, 1>>}
MCMedia == <<<<30, 20>>, <<20, 20>>>>
MCPortal == <<<<20, 60>>, <<0, 50>>>>
MCInsumos == <<{1, 2}, {2}>>
MCTormentas == {[ini |-> 1, fin |-> 5]}
MCTravelling == [giro |-> 120, paso |-> 90]

Parcela(c, k, o, h) == [celda |-> c, kind |-> k, owner |-> o, since |-> 1, name |-> 1, handle |-> h, pending |-> FALSE, sale |-> FALSE, distrito |-> 1 + c[1]]
Ciudad(ps, hs) == [parcels |-> ps, assets |-> <<[celda |-> <<0, 0>>, sale |-> TRUE]>>, me |-> 1, huecos |-> hs]
P1 == Parcela(<<0, 0>>, 1, 1, Nada)
P2 == Parcela(<<1, 0>>, 2, 2, Ana)
Ciudades1 ==
  {Ciudad(<<P1, P2>>, <<1, 2>>),
   Ciudad(<<[P1 EXCEPT !.kind = 2], [P2 EXCEPT !.sale = TRUE]>>, <<1, 2>>),
   Ciudad(<<P2, [P1 EXCEPT !.pending = TRUE]>>, <<1>>),
   Ciudad(<<P1, [P2 EXCEPT !.sale = TRUE]>>, <<1, 2>>)}
MCCiudades == Ciudades1
MCPresencias ==
  LET yo == [pk |-> 1, me |-> TRUE, name |-> "yo", handle |-> "yo", verified |-> FALSE]
      otro(n, v) == [pk |-> 2, me |-> FALSE, name |-> n, handle |-> "otro", verified |-> v]
      tercero == [pk |-> 3, me |-> FALSE, name |-> "c", handle |-> "c", verified |-> FALSE]
  IN {<<yo>>, <<yo, otro("a", FALSE)>>, <<otro("b", TRUE), tercero>>, <<tercero, otro("a", TRUE)>>}
MCDestinos == {<<0, 0>>, <<1, 1>>}
MCFantasmas == {<<>>, <<[celda |-> <<0, 1>>, estado |-> "solo_alli"]>>, <<[celda |-> <<0, 1>>, estado |-> "solo_aqui"]>>}
MCPoses == {[pos |-> <<300, 300>>, yaw |-> 90, fly |-> 0], [pos |-> <<105, 160>>, yaw |-> 0, fly |-> 40]}

Quieto == [llega |-> TRUE, mov |-> <<0, 0>>, sol |-> FALSE, decimosexto |-> FALSE, segundo |-> FALSE, choca |-> FALSE, pasa |-> TRUE]
Vacio == [guia |-> Nada, enc |-> TRUE, sonido |-> Nada, audio |-> TRUE]
Guion(llamadas, max, cuadros) == [llamadas |-> llamadas, max |-> max, discos |-> {Vacio}, ancho |-> 900, cuadros |-> cuadros]
ConVuelo == {Quieto, [Quieto EXCEPT !.llega = FALSE]}
APie == ConVuelo \cup {[Quieto EXCEPT !.mov = m] : m \in {<<60, 0>>, <<0, -60>>}}
Choca == ConVuelo \cup {[Quieto EXCEPT !.choca = TRUE]}
Suelto(b) == [Vacio EXCEPT !.sonido = b]
G(h, c) == [h |-> h, c |-> c, visto |-> TRUE]
Guiones1 ==
  {Guion({"ciudad", "calidad", "remonta"}, 4, {Quieto}),
   Guion({"ciudad", "vuela", "lista", "encargos"}, 3, Choca),
   Guion({"ciudad", "pose", "elige"}, 2, APie),
   Guion({"modo", "foto", "vuela"}, 4, ConVuelo \cup {[Quieto EXCEPT !.decimosexto = TRUE]}),
   Guion({"elige", "senala", "foto", "gafas"}, 3, {Quieto}),
   Guion({"ciudad", "gafas", "modo", "lista"}, 3, Choca),
   Guion({"medida", "modo", "vuela"}, 2, ConVuelo),
   Guion({"foto", "medida"}, 4, ConVuelo),
   Guion({"hora", "tormenta"}, 2, {Quieto, [Quieto EXCEPT !.sol = TRUE]}),
   Guion({"gafas", "tormenta"}, 3, {Quieto, [Quieto EXCEPT !.sol = TRUE]}),
   Guion({"gente", "fantasmas", "mueve"}, 4, {Quieto}),
   [Guion({"ciudad", "idioma", "casa", "guia", "remonta", "modo"}, 3, {[Quieto EXCEPT !.segundo = TRUE]}) EXCEPT
      !.discos = {Vacio, [Vacio EXCEPT !.guia = G({"mirar"}, FALSE)], [Vacio EXCEPT !.guia = G(Pasos, TRUE)]}, !.ancho = 500],
   [Guion({"sonido", "esconde", "mueve", "pose"}, 3, APie) EXCEPT !.discos = {Vacio, Suelto(TRUE), Suelto(FALSE), [Suelto(TRUE) EXCEPT !.audio = FALSE]}]}
MCGuiones == Guiones1
=============================================================================
