---------------------------- MODULE Vivienda ----------------------------
(***************************************************************************)
(* rami-core/src/state.rs: parcels of the city, their sale as a whole and  *)
(* the deeds of the housing units a parcel is divided into, with the cap   *)
(* on the units an account may own in parcels of others.                   *)
(*                                                                         *)
(* One action per transaction the ledger accepts, once the rules of Dubai  *)
(* and of housing are in force; a rejected transaction changes nothing.    *)
(* Nonces are the concern of BlockTree and Node.  Amounts are unbounded:   *)
(* the code's arithmetic on them is checked and the supply fits 64 bits.   *)
(***************************************************************************)
EXTENDS Integers, Sequences, FiniteSets

CONSTANTS
    Accounts,
    Parcels,                    \* cells of the city
    Prices,                     \* prices a seller can ask, 0 not among them
    Fees,                       \* fees a transaction can offer
    PrecioParcela,              \* price of a free parcel
    MAX_UNIDADES_POR_PARCELA,   \* 64
    MAX_UNIDADES_POR_CUENTA,    \* 16
    InitialBalance              \* the accounts when housing comes into force

ASSUME ViviendaAssumption ==
    /\ IsFiniteSet(Parcels)
    /\ Prices \subseteq Nat \ {0} /\ Fees \subseteq Nat /\ PrecioParcela \in Nat
    /\ MAX_UNIDADES_POR_PARCELA \in Nat /\ MAX_UNIDADES_POR_CUENTA \in Nat
    /\ InitialBalance \in [Accounts -> Nat]

NotForSale == 0
Asked == Prices \cup {NotForSale}

Numbers == 1..MAX_UNIDADES_POR_PARCELA

Unidad == [owner : Accounts, sale : Asked]
\* The units of a parcel, by number; a parcel without units is not divided.
Units == UNION {[1..k -> Unidad] : k \in Numbers \cup {0}}
Parcel == [owner : Accounts, sale : Asked, units : Units]

VARIABLES
    balance,
    quemado,             \* amount burnt
    comisiones,          \* fees paid, which the miner of the block collects
    parcels,             \* parcel -> Parcel, for those with an owner
    viviendas_ajenas     \* units of each account in parcels of others

vars == <<balance, quemado, comisiones, parcels, viviendas_ajenas>>

Init ==
    /\ balance = InitialBalance
    /\ quemado = 0 /\ comisiones = 0
    /\ parcels = [p \in {} |-> {}]
    /\ viviendas_ajenas = [a \in Accounts |-> 0]

----------------------------------------------------------------------------
(* Helpers.                                                                *)

\* who pays amount and fee; the amount goes to payee.
Pay(who, amount, payee, fee) ==
    /\ balance[who] >= amount + fee
    /\ balance' = [a \in Accounts |->
                      balance[a] - (IF a = who THEN amount + fee ELSE 0)
                                 + (IF a = payee THEN amount ELSE 0)]
    /\ comisiones' = comisiones + fee
    /\ UNCHANGED quemado

\* who pays the fee alone.
PayFee(who, fee) == Pay(who, 0, who, fee)

HasUnit(p, n) == p \in DOMAIN parcels /\ n \in DOMAIN parcels[p].units
UnitOwner(p, n) == parcels[p].units[n].owner

\* comprobar_no_congelada: the units of the owner of a parcel on sale go with it.
NoCongelada(p, owner) == parcels[p].sale # NotForSale => owner # parcels[p].owner

EsAjena(p, owner) == owner # parcels[p].owner

\* Defect: the cap is checked on the account that lets the unit go.
CabeDelQueSale(p, from, to) ==
    /\ EsAjena(p, to) => viviendas_ajenas[from] <= MAX_UNIDADES_POR_CUENTA
    /\ EsAjena(p, from) => viviendas_ajenas[from] >= 1

\* comprobar_tope_cuenta for the new owner, and a counter that can go down
\* for the old one.
Cabe(p, from, to) ==
    /\ EsAjena(p, to) => viviendas_ajenas[to] < MAX_UNIDADES_POR_CUENTA
    /\ EsAjena(p, from) => viviendas_ajenas[from] >= 1

\* Unit n of p passes from one account to the other: restar_ajenas, sumar_ajenas.
MoveUnit(p, n, from, to) ==
    /\ parcels' = [parcels EXCEPT ![p].units[n] = [owner |-> to, sale |-> NotForSale]]
    /\ viviendas_ajenas' =
          [a \in Accounts |->
              viviendas_ajenas[a] - (IF a = from /\ EsAjena(p, from) THEN 1 ELSE 0)
                                  + (IF a = to /\ EsAjena(p, to) THEN 1 ELSE 0)]

----------------------------------------------------------------------------
(* Transactions on a whole parcel.                                         *)

\* A free parcel is bought and its price burnt; one's own is renamed for a fee.
ClaimParcel(who, p, fee) ==
    \/ /\ p \in DOMAIN parcels /\ parcels[p].owner = who
       /\ PayFee(who, fee)
       /\ UNCHANGED <<parcels, viviendas_ajenas>>
    \/ /\ p \notin DOMAIN parcels
       /\ balance[who] >= PrecioParcela + fee
       /\ balance' = [balance EXCEPT ![who] = @ - (PrecioParcela + fee)]
       /\ comisiones' = comisiones + fee
       /\ quemado' = quemado + PrecioParcela
       /\ parcels' = [x \in DOMAIN parcels \cup {p} |->
                         IF x = p THEN [owner |-> who, sale |-> NotForSale, units |-> <<>>]
                                  ELSE parcels[x]]
       /\ UNCHANGED viviendas_ajenas

\* A price of 0 withdraws the sale.
SellParcel(who, p, price, fee) ==
    /\ p \in DOMAIN parcels /\ parcels[p].owner = who
    /\ PayFee(who, fee)
    /\ parcels' = [parcels EXCEPT ![p].sale = price]
    /\ UNCHANGED viviendas_ajenas

YaDelComprador(who, p) ==
    Cardinality({n \in DOMAIN parcels[p].units : UnitOwner(p, n) = who})

\* Defects: every unit goes with the parcel; the seller's units stay on sale.
BoughtEntera(parcel, who) ==
    [owner |-> who, sale |-> NotForSale,
     units |-> [n \in DOMAIN parcel.units |-> [owner |-> who, sale |-> NotForSale]]]
\* What a parcel is once bought: the units of the seller go with it and leave
\* the market; every other unit stays as it was.
Bought(parcel, who) ==
    [owner |-> who, sale |-> NotForSale,
     units |-> [n \in DOMAIN parcel.units |->
                   IF parcel.units[n].owner = parcel.owner
                   THEN [owner |-> who, sale |-> NotForSale]
                   ELSE parcel.units[n]]]

BuyParcel(who, p, max_price, fee) ==
    /\ p \in DOMAIN parcels /\ parcels[p].owner # who
    /\ parcels[p].sale \in 1..max_price
    /\ viviendas_ajenas[who] >= YaDelComprador(who, p)
    /\ Pay(who, parcels[p].sale, parcels[p].owner, fee)
    /\ parcels' = [parcels EXCEPT ![p] = Bought(@, who)]
    /\ viviendas_ajenas' = [viviendas_ajenas EXCEPT ![who] = @ - YaDelComprador(who, p)]

----------------------------------------------------------------------------
(* Deeds of housing units.                                                 *)

DivideParcel(who, p, unidades, fee) ==
    /\ p \in DOMAIN parcels /\ parcels[p].owner = who
    /\ parcels[p].units = <<>> /\ parcels[p].sale = NotForSale
    /\ PayFee(who, fee)
    /\ parcels' = [parcels EXCEPT ![p].units =
                      [n \in 1..unidades |-> [owner |-> who, sale |-> NotForSale]]]
    /\ UNCHANGED viviendas_ajenas

TransferUnit(from, p, n, to, fee) ==
    /\ HasUnit(p, n) /\ UnitOwner(p, n) = from /\ to # from
    /\ parcels[p].units[n].sale = NotForSale
    /\ NoCongelada(p, from)
    /\ Cabe(p, from, to)
    /\ PayFee(from, fee)
    /\ MoveUnit(p, n, from, to)

\* A unit that goes with its parcel cannot be put on sale; it can be withdrawn.
SellUnit(who, p, n, price, fee) ==
    /\ HasUnit(p, n) /\ UnitOwner(p, n) = who
    /\ price # NotForSale => NoCongelada(p, who)
    /\ PayFee(who, fee)
    /\ parcels' = [parcels EXCEPT ![p].units[n].sale = price]
    /\ UNCHANGED viviendas_ajenas

BuyUnit(who, p, n, max_price, fee) ==
    /\ HasUnit(p, n) /\ UnitOwner(p, n) # who
    /\ parcels[p].units[n].sale \in 1..max_price
    /\ NoCongelada(p, UnitOwner(p, n))
    /\ Cabe(p, UnitOwner(p, n), who)
    /\ Pay(who, parcels[p].units[n].sale, UnitOwner(p, n), fee)
    /\ MoveUnit(p, n, UnitOwner(p, n), who)

----------------------------------------------------------------------------

\* The transactions an account can sign.
Signs(who) ==
    \E p \in Parcels, fee \in Fees :
        \/ ClaimParcel(who, p, fee)
        \/ \E price \in Asked : SellParcel(who, p, price, fee)
        \/ \E max_price \in Prices : BuyParcel(who, p, max_price, fee)
        \/ \E unidades \in Numbers : DivideParcel(who, p, unidades, fee)
        \/ \E n \in Numbers :
              \/ \E to \in Accounts : TransferUnit(who, p, n, to, fee)
              \/ \E price \in Asked : SellUnit(who, p, n, price, fee)
              \/ \E max_price \in Prices : BuyUnit(who, p, n, max_price, fee)

Next == \E who \in Accounts : Signs(who)

Spec == Init /\ [][Next]_vars

----------------------------------------------------------------------------
(* Properties.                                                             *)

TypeOK ==
    /\ balance \in [Accounts -> Nat]
    /\ quemado \in Nat /\ comisiones \in Nat
    /\ DOMAIN parcels \subseteq Parcels
    /\ parcels \in [DOMAIN parcels -> Parcel]
    /\ viviendas_ajenas \in [Accounts -> Nat]

Unidades == {u \in Parcels \X Numbers : HasUnit(u[1], u[2])}
Owner(u) == UnitOwner(u[1], u[2])
Ajenas(a) == {u \in Unidades : Owner(u) = a /\ EsAjena(u[1], a)}

\* viviendas_ajenas_recontadas.
Recontadas == [a \in Accounts |-> Cardinality(Ajenas(a))]

\* The counter kept transaction by transaction is the count made from nothing,
\* also after a parcel is bought by an account that had units in it.
AjenasCorrect == viviendas_ajenas = Recontadas

\* No account owns more than MAX_UNIDADES_POR_CUENTA units in parcels of
\* others, by whatever sequence of divisions, sales, transfers and purchases:
\* buying and selling the parcel around them included.
CapHolds == \A a \in Accounts : Cardinality(Ajenas(a)) <= MAX_UNIDADES_POR_CUENTA

OwnersUnits(p) == {n \in DOMAIN parcels[p].units : UnitOwner(p, n) = parcels[p].owner}

\* From the moment a parcel is published until the sale is withdrawn or
\* closed, the units that go with it can only grow in number, and the buyer
\* receives at least those.
Withdrawn(p) == parcels' = [parcels EXCEPT ![p].sale = NotForSale]
BuyerGetsWhatWasListed ==
    [][\A p \in DOMAIN parcels :
          parcels[p].sale # NotForSale =>
              OwnersUnits(p) \subseteq OwnersUnits(p)' \/ Withdrawn(p)]_vars

\* Nobody loses a parcel or a unit but by a transaction he signs, or paid the
\* price he had published, of the unit or of his parcel with it: the purchase
\* of a parcel takes no unit from a third party.
PaidTo(a, price) == price # NotForSale /\ balance'[a] >= balance[a] + price
ParcelPaid(p) ==
    parcels'[p].owner # parcels[p].owner => PaidTo(parcels[p].owner, parcels[p].sale)
UnitPaid(p, n) ==
    UnitOwner(p, n)' # UnitOwner(p, n) =>
        \/ Signs(UnitOwner(p, n))
        \/ PaidTo(UnitOwner(p, n), parcels[p].units[n].sale)
        \/ ~EsAjena(p, UnitOwner(p, n)) /\ PaidTo(parcels[p].owner, parcels[p].sale)
NobodyLosesUnpaid ==
    [][\A p \in DOMAIN parcels :
          ParcelPaid(p) /\ \A n \in DOMAIN parcels[p].units : UnitPaid(p, n)]_vars

\* Transactions move, burn or pay in fees what there was: none appears.
==========================================================================
