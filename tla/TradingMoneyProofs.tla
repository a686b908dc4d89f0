------------------------- MODULE TradingMoneyProofs -------------------------
(***************************************************************************)
(* Proofs about the money of spot trading, for every number of orders,     *)
(* every book, price and fee, with one request at a time and no step that  *)
(* fails (Sequential): the tape explains the order rows and the balances.  *)
(*                                                                         *)
(* Ledgered says what the rows, the pass and the references of the ledger  *)
(* know between any two steps, and Backed that the balances are the opening*)
(* funds and what the orders gained, with the unspent locks of the live    *)
(* orders set aside.  From those follows that no step of a pass is refused,*)
(* and from that that no two orders that rest cross (BookClear).           *)
(***************************************************************************)
EXTENDS TradingProofs

-----------------------------------------------------------------------------
(* Money and the tape.                                                     *)

(* What an order of this side reserves in.                                 *)
AssetOf(side) == IF side = "BUY" THEN Quote ELSE Base

(* A tape, whatever the orders.                                            *)
TapeRows ==
    [taker : Nat, maker : Nat, price : Nat, quantity : Nat, quoteAmount : Nat,
     makerFee : Nat, takerFee : Nat]

Party(row, o) == row.taker = o \/ row.maker = o

On(tape, o) == {k \in DOMAIN tape : Party(tape[k], o)}

QuantityOn(tape, o) == SumOf([k \in DOMAIN tape |-> tape[k].quantity], On(tape, o))
QuoteOn(tape, o) == SumOf([k \in DOMAIN tape |-> tape[k].quoteAmount], On(tape, o))

PaidOn(tape, side, o) == IF side = "BUY" THEN QuoteOn(tape, o) ELSE QuantityOn(tape, o)

(* What a row of the tape brought order o, of this side, in asset x.       *)
FeeOf(row, o) == IF row.taker = o THEN row.takerFee ELSE row.makerFee

GainIn(row, o, side, x) ==
    IF x = AssetOf(side)
    THEN -(IF side = "BUY" THEN row.quoteAmount ELSE row.quantity)
    ELSE (IF side = "BUY" THEN row.quantity ELSE row.quoteAmount) - FeeOf(row, o)

GainOn(tape, side, o, x) ==
    SumOf([k \in DOMAIN tape |-> GainIn(tape[k], o, side, x)], On(tape, o))

LEMMA OnFinite ==
    ASSUME NEW tape \in Seq(TapeRows), NEW o
    PROVE  IsFiniteSet(On(tape, o)) /\ On(tape, o) \subseteq DOMAIN tape
<1>1. DOMAIN tape = 1..Len(tape) /\ Len(tape) \in Nat
  OBVIOUS
<1>2. On(tape, o) \subseteq 1..Len(tape)
  BY <1>1 DEF On
<1> QED
  BY <1>1, <1>2, FiniteUpTo

LEMMA OnAppended ==
    ASSUME NEW tape \in Seq(TapeRows), NEW row \in TapeRows, NEW o,
           NEW n \in Nat, n = Len(tape)
    PROVE  /\ On(tape, o) \subseteq 1..n
           /\ Party(row, o) => On(Append(tape, row), o) = On(tape, o) \cup {n + 1}
           /\ ~Party(row, o) => On(Append(tape, row), o) = On(tape, o)
           /\ DOMAIN tape = 1..n /\ DOMAIN Append(tape, row) = 1..(n + 1)
           /\ Append(tape, row)[n + 1] = row
           /\ \A k \in 1..n : Append(tape, row)[k] = tape[k] /\ tape[k] \in TapeRows
<1>1. /\ DOMAIN tape = 1..n /\ DOMAIN Append(tape, row) = 1..(n + 1)
      /\ Append(tape, row)[n + 1] = row
      /\ \A k \in 1..n : Append(tape, row)[k] = tape[k] /\ tape[k] \in TapeRows
  OBVIOUS
<1> QED
  BY <1>1 DEF On

(* A row adds what it says to the totals of its parties.                   *)
LEMMA TapeGrown ==
    ASSUME NEW tape \in Seq(TapeRows), NEW row \in TapeRows, NEW o,
           NEW e, e = Len(tape) + 1, NEW f, NEW g,
           \A k \in DOMAIN tape : f[k] \in Int /\ g[k] = f[k], g[e] \in Int
    PROVE  SumOf(g, On(Append(tape, row), o))
              = SumOf(f, On(tape, o)) + (IF Party(row, o) THEN g[e] ELSE 0)
<1> DEFINE S == On(tape, o)
           T == On(Append(tape, row), o)
<1>1. /\ S \subseteq DOMAIN tape /\ IsFiniteSet(S) /\ e \notin S
      /\ Party(row, o) => T = S \cup {e}
      /\ ~Party(row, o) => T = S
  <2>1. DOMAIN tape = 1..Len(tape) /\ Len(tape) \in Nat
    OBVIOUS
  <2> QED
    BY <2>1, OnAppended, OnFinite
<1>2. IsFiniteSet(S) /\ e \notin S /\ g[e] \in Int
  BY <1>1
<1>3. \A j \in S : f[j] \in Int /\ g[j] = f[j]
  BY <1>1
<1> HIDE DEF S, T
<1>4. /\ SumOf(g, S) = SumOf(f, S) /\ SumOf(f, S) \in Int
      /\ SumOf(g, S \cup {e}) = SumOf(f, S) + g[e]
  <2>1. SumOf(g, S) = SumOf(f, S) /\ SumOf(f, S) \in Int
    BY <1>2, <1>3, SumSame, SumType
  <2>2. \A j \in S \cup {e} : g[j] \in Int
    BY <1>2, <1>3
  <2>3. SumOf(g, S \cup {e}) = SumOf(g, S) + g[e]
    BY <1>2, <2>2, SumAdd
  <2> QED
    BY <2>1, <2>3
<1>5. CASE Party(row, o)
  <2>1. SumOf(g, T) = SumOf(g, S \cup {e})
    BY <1>1, <1>5, Zenon
  <2>2. SumOf(g, T) = SumOf(f, S) + g[e]
    BY <1>4, <2>1
  <2> QED
    BY <1>5, <2>2 DEF S, T
<1>6. CASE ~Party(row, o)
  <2>1. SumOf(g, T) = SumOf(g, S)
    BY <1>1, <1>6, Zenon
  <2> QED
    BY <1>4, <1>6, <2>1 DEF S, T
<1> QED
  BY <1>5, <1>6

LEMMA RowNumbers ==
    ASSUME NEW row \in TapeRows
    PROVE  /\ row.quantity \in Nat /\ row.quoteAmount \in Nat
           /\ row.takerFee \in Nat /\ row.makerFee \in Nat
           /\ row.taker \in Nat /\ row.maker \in Nat
           /\ \A o, side, x : GainIn(row, o, side, x) \in Int
<1>1. /\ row.quantity \in Nat /\ row.quoteAmount \in Nat
      /\ row.takerFee \in Nat /\ row.makerFee \in Nat
      /\ row.taker \in Nat /\ row.maker \in Nat
  BY DEF TapeRows
<1> QED
  BY <1>1 DEF GainIn, FeeOf

LEMMA TapeAppend ==
    ASSUME NEW tape \in Seq(TapeRows), NEW row \in TapeRows, NEW o
    PROVE  /\ QuantityOn(Append(tape, row), o)
                 = QuantityOn(tape, o) + (IF Party(row, o) THEN row.quantity ELSE 0)
           /\ QuoteOn(Append(tape, row), o)
                 = QuoteOn(tape, o) + (IF Party(row, o) THEN row.quoteAmount ELSE 0)
           /\ \A side, x : GainOn(Append(tape, row), side, o, x)
                 = GainOn(tape, side, o, x)
                      + (IF Party(row, o) THEN GainIn(row, o, side, x) ELSE 0)
<1> DEFINE e == Len(tape) + 1
           more == Append(tape, row)
<1>1. /\ e \in DOMAIN more /\ more[e] = row
      /\ \A k \in DOMAIN tape : k \in DOMAIN more /\ more[k] = tape[k] /\ tape[k] \in TapeRows
  <2>1. Len(tape) \in Nat
    OBVIOUS
  <2> QED
    BY <2>1, OnAppended
<1> HIDE DEF e, more
<1>2. QuantityOn(more, o) = QuantityOn(tape, o) + (IF Party(row, o) THEN row.quantity ELSE 0)
  <2> DEFINE f == [k \in DOMAIN tape |-> tape[k].quantity]
             g == [k \in DOMAIN more |-> more[k].quantity]
  <2>1. /\ \A k \in DOMAIN tape : f[k] \in Int /\ g[k] = f[k]
        /\ g[e] = row.quantity /\ g[e] \in Int
    BY <1>1, RowNumbers
  <2> HIDE DEF f, g
  <2>2. SumOf(g, On(more, o)) = SumOf(f, On(tape, o)) + (IF Party(row, o) THEN g[e] ELSE 0)
    BY <1>1, <2>1, TapeGrown DEF e, more
  <2> QED
    BY <2>1, <2>2 DEF QuantityOn, f, g
<1>3. QuoteOn(more, o) = QuoteOn(tape, o) + (IF Party(row, o) THEN row.quoteAmount ELSE 0)
  <2> DEFINE f == [k \in DOMAIN tape |-> tape[k].quoteAmount]
             g == [k \in DOMAIN more |-> more[k].quoteAmount]
  <2>1. /\ \A k \in DOMAIN tape : f[k] \in Int /\ g[k] = f[k]
        /\ g[e] = row.quoteAmount /\ g[e] \in Int
    BY <1>1, RowNumbers
  <2> HIDE DEF f, g
  <2>2. SumOf(g, On(more, o)) = SumOf(f, On(tape, o)) + (IF Party(row, o) THEN g[e] ELSE 0)
    BY <1>1, <2>1, TapeGrown DEF e, more
  <2> QED
    BY <2>1, <2>2 DEF QuoteOn, f, g
<1>4. ASSUME NEW side, NEW x
      PROVE  GainOn(more, side, o, x)
                = GainOn(tape, side, o, x)
                      + (IF Party(row, o) THEN GainIn(row, o, side, x) ELSE 0)
  <2> DEFINE f == [k \in DOMAIN tape |-> GainIn(tape[k], o, side, x)]
             g == [k \in DOMAIN more |-> GainIn(more[k], o, side, x)]
  <2>1. /\ \A k \in DOMAIN tape : f[k] \in Int /\ g[k] = f[k]
        /\ g[e] = GainIn(row, o, side, x) /\ g[e] \in Int
    BY <1>1, RowNumbers
  <2> HIDE DEF f, g
  <2>2. SumOf(g, On(more, o)) = SumOf(f, On(tape, o)) + (IF Party(row, o) THEN g[e] ELSE 0)
    BY <1>1, <2>1, TapeGrown DEF e, more
  <2> QED
    BY <2>1, <2>2 DEF GainOn, f, g
<1> QED
  BY <1>2, <1>3, <1>4 DEF more

LEMMA TotalsTyped ==
    ASSUME NEW tape \in Seq(TapeRows), NEW o
    PROVE  /\ QuantityOn(tape, o) \in Nat /\ QuoteOn(tape, o) \in Nat
           /\ \A side, x : GainOn(tape, side, o, x) \in Int
<1>1. IsFiniteSet(On(tape, o)) /\ \A k \in On(tape, o) : k \in DOMAIN tape /\ tape[k] \in TapeRows
  BY OnFinite
<1>2. QuantityOn(tape, o) \in Nat
  <2> DEFINE f == [k \in DOMAIN tape |-> tape[k].quantity]
  <2>1. \A k \in On(tape, o) : f[k] \in Nat
    BY <1>1, RowNumbers
  <2> HIDE DEF f
  <2> QED
    BY <1>1, <2>1, SumNat DEF QuantityOn, f
<1>3. QuoteOn(tape, o) \in Nat
  <2> DEFINE f == [k \in DOMAIN tape |-> tape[k].quoteAmount]
  <2>1. \A k \in On(tape, o) : f[k] \in Nat
    BY <1>1, RowNumbers
  <2> HIDE DEF f
  <2> QED
    BY <1>1, <2>1, SumNat DEF QuoteOn, f
<1>4. ASSUME NEW side, NEW x PROVE GainOn(tape, side, o, x) \in Int
  <2> DEFINE f == [k \in DOMAIN tape |-> GainIn(tape[k], o, side, x)]
  <2>1. \A k \in On(tape, o) : f[k] \in Int
    BY <1>1, RowNumbers
  <2> HIDE DEF f
  <2> QED
    BY <1>1, <2>1, SumType DEF GainOn, f
<1> QED
  BY <1>2, <1>3, <1>4

(* An order that the tape does not name.                                   *)
LEMMA NotOnTape ==
    ASSUME NEW tape, NEW o, On(tape, o) = {}
    PROVE  /\ QuantityOn(tape, o) = 0 /\ QuoteOn(tape, o) = 0
           /\ \A side, x : GainOn(tape, side, o, x) = 0
<1>1. \A f : SumOf(f, {}) = 0
  BY FS_EmptySet, SumUnfolds
<1> QED
  BY <1>1 DEF QuantityOn, QuoteOn, GainOn

-----------------------------------------------------------------------------
(* The balances of an asset are what the orders hold of it and gained.     *)

OrdersOf(rows, u) == {o \in DOMAIN rows : rows[o].user = u}
LockedFor(rows, u, x) == {o \in OrdersOf(rows, u) : AssetOf(rows[o].side) = x}

HoldersOf(rows, x) == {o \in DOMAIN rows : AssetOf(rows[o].side) = x}

GainsOf(rows, gain) == [u \in Users |-> SumOf(gain, OrdersOf(rows, u))]

Fits(bal, x, rows, held, gain) ==
    /\ \A u \in Users :
          /\ bal[Locked(u, x)] = SumOf(held, LockedFor(rows, u, x))
          /\ bal[Available(u, x)] + bal[Locked(u, x)]
                = Funds[<<u, x>>] + SumOf(gain, OrdersOf(rows, u))
    /\ bal[System("FEE_REVENUE", x)] = -SumOf(GainsOf(rows, gain), Users)

(* An order of user u comes to hold dh more, and to have gained dg more.   *)
Shifted(bal, new, x, u, dh, dg) ==
    /\ new[Locked(u, x)] = bal[Locked(u, x)] + dh
    /\ new[Available(u, x)] = bal[Available(u, x)] + dg - dh
    /\ new[System("FEE_REVENUE", x)] = bal[System("FEE_REVENUE", x)] - dg
    /\ \A v \in Users \ {u} :
          new[Locked(v, x)] = bal[Locked(v, x)] /\ new[Available(v, x)] = bal[Available(v, x)]

(* A function that grew by d at one place a of D.                          *)
GrewAt(f, g, D, a, d) ==
    /\ \A o \in D : f[o] \in Int
    /\ \A o \in D \ {a} : g[o] = f[o]
    /\ a \in D => g[a] = f[a] + d

LEMMA SumGrewAt ==
    ASSUME NEW S, IsFiniteSet(S), NEW f, NEW g, NEW a, NEW d \in Int, GrewAt(f, g, S, a, d)
    PROVE  /\ SumOf(f, S) \in Int /\ SumOf(g, S) \in Int
           /\ a \in S => SumOf(g, S) = SumOf(f, S) + d
           /\ a \notin S => SumOf(g, S) = SumOf(f, S)
<1>1. \A o \in S : f[o] \in Int /\ g[o] \in Int
  <2> SUFFICES ASSUME NEW o \in S PROVE f[o] \in Int /\ g[o] \in Int
    OBVIOUS
  <2>1. CASE o = a
    BY <2>1 DEF GrewAt
  <2>2. CASE o # a
    BY <2>2 DEF GrewAt
  <2> QED
    BY <2>1, <2>2
<1>2. \A o \in S \ {a} : g[o] = f[o]
  BY DEF GrewAt
<1>3. SumOf(g, S) = SumOf(f, S) + (IF a \in S THEN g[a] - f[a] ELSE 0)
  BY <1>1, <1>2, SumShift
<1>4. SumOf(f, S) \in Int
  BY <1>1, SumType
<1>5. a \in S => g[a] - f[a] = d
  BY DEF GrewAt
<1> QED
  BY <1>3, <1>4, <1>5

LEMMA GrewInPart ==
    ASSUME NEW D, NEW S, S \subseteq D, NEW f, NEW g, NEW a, NEW d, GrewAt(f, g, D, a, d)
    PROVE  GrewAt(f, g, S, a, d)
BY DEF GrewAt

LEMMA ShiftFits ==
    ASSUME IsFiniteSet(Users), NEW rows, NEW n \in Nat, DOMAIN rows = 1..n,
           NEW a \in 1..n, rows[a].user \in Users,
           NEW x, NEW dh \in Int, NEW dg \in Int, AssetOf(rows[a].side) = x \/ dh = 0,
           \A u \in Users : Funds[<<u, x>>] \in Int,
           NEW bal, NEW new, \A u \in Users : bal[Available(u, x)] \in Int,
           Shifted(bal, new, x, rows[a].user, dh, dg),
           NEW held, NEW hold, GrewAt(held, hold, HoldersOf(rows, x), a, dh),
           NEW gain, NEW gained, GrewAt(gain, gained, 1..n, a, dg),
           Fits(bal, x, rows, held, gain)
    PROVE  Fits(new, x, rows, hold, gained)
<1> DEFINE w == rows[a].user
<1>1. ASSUME NEW u \in Users
      PROVE  /\ SumOf(held, LockedFor(rows, u, x)) \in Int
             /\ SumOf(gain, OrdersOf(rows, u)) \in Int
             /\ SumOf(gained, OrdersOf(rows, u)) \in Int
             /\ SumOf(hold, LockedFor(rows, u, x))
                   = SumOf(held, LockedFor(rows, u, x)) + (IF u = w THEN dh ELSE 0)
             /\ SumOf(gained, OrdersOf(rows, u))
                   = SumOf(gain, OrdersOf(rows, u)) + (IF u = w THEN dg ELSE 0)
  <2> DEFINE S == LockedFor(rows, u, x)
             T == OrdersOf(rows, u)
  <2>1. /\ S \subseteq HoldersOf(rows, x) /\ S \subseteq 1..n /\ T \subseteq 1..n
        /\ a \in T <=> u = w
        /\ a \in S <=> u = w /\ AssetOf(rows[a].side) = x
    BY DEF LockedFor, OrdersOf, HoldersOf
  <2>2. IsFiniteSet(S) /\ IsFiniteSet(T)
    BY <2>1, FiniteUpTo
  <2> HIDE DEF S, T
  <2>3. GrewAt(held, hold, S, a, dh) /\ GrewAt(gain, gained, T, a, dg)
    BY <2>1, GrewInPart
  <2>4. /\ SumOf(held, S) \in Int
        /\ a \in S => SumOf(hold, S) = SumOf(held, S) + dh
        /\ a \notin S => SumOf(hold, S) = SumOf(held, S)
    BY <2>2, <2>3, SumGrewAt
  <2>5. /\ SumOf(gain, T) \in Int /\ SumOf(gained, T) \in Int
        /\ a \in T => SumOf(gained, T) = SumOf(gain, T) + dg
        /\ a \notin T => SumOf(gained, T) = SumOf(gain, T)
    BY <2>2, <2>3, SumGrewAt
  <2>6. SumOf(hold, S) = SumOf(held, S) + (IF u = w THEN dh ELSE 0)
    <3>1. CASE u = w
      BY <2>1, <2>4, <3>1
    <3>2. CASE u # w
      BY <2>1, <2>4, <3>2
    <3> QED
      BY <3>1, <3>2
  <2>7. SumOf(gained, T) = SumOf(gain, T) + (IF u = w THEN dg ELSE 0)
    BY <2>1, <2>5
  <2> QED
    BY <2>4, <2>5, <2>6, <2>7 DEF S, T
<1>2. SumOf(GainsOf(rows, gained), Users) = SumOf(GainsOf(rows, gain), Users) + dg
      /\ SumOf(GainsOf(rows, gain), Users) \in Int
  <2> DEFINE f == GainsOf(rows, gain)
             g == GainsOf(rows, gained)
  <2>1. \A u \in Users : /\ f[u] = SumOf(gain, OrdersOf(rows, u))
                         /\ g[u] = SumOf(gained, OrdersOf(rows, u))
    BY DEF GainsOf
  <2>2. GrewAt(f, g, Users, w, dg)
    <3> HIDE DEF f, g, w
    <3> QED
      BY <1>1, <2>1 DEF GrewAt
  <2> HIDE DEF f, g
  <2> QED
    BY <2>2, SumGrewAt DEF f, g
<1>3. ASSUME NEW u \in Users
      PROVE  /\ new[Locked(u, x)] = SumOf(hold, LockedFor(rows, u, x))
             /\ new[Available(u, x)] + new[Locked(u, x)]
                   = Funds[<<u, x>>] + SumOf(gained, OrdersOf(rows, u))
  <2>1. /\ bal[Locked(u, x)] = SumOf(held, LockedFor(rows, u, x))
        /\ bal[Available(u, x)] + bal[Locked(u, x)]
              = Funds[<<u, x>>] + SumOf(gain, OrdersOf(rows, u))
    BY DEF Fits
  <2>2. bal[Locked(u, x)] \in Int /\ bal[Available(u, x)] \in Int /\ Funds[<<u, x>>] \in Int
    BY <1>1, <2>1
  <2>3. CASE u = w
    <3>1. /\ new[Locked(u, x)] = bal[Locked(u, x)] + dh
          /\ new[Available(u, x)] = bal[Available(u, x)] + dg - dh
      BY <2>3 DEF Shifted
    <3>2. SumOf(hold, LockedFor(rows, u, x)) = SumOf(held, LockedFor(rows, u, x)) + dh
      BY <1>1, <2>3
    <3>3. SumOf(gained, OrdersOf(rows, u)) = SumOf(gain, OrdersOf(rows, u)) + dg
      BY <1>1, <2>3
    <3>4. SumOf(gain, OrdersOf(rows, u)) \in Int
      BY <1>1
    <3>5. new[Locked(u, x)] = SumOf(hold, LockedFor(rows, u, x))
      BY <2>1, <3>1, <3>2
    <3>6. PICK h \in Int, f \in Int :
             h = SumOf(gain, OrdersOf(rows, u)) /\ f = Funds[<<u, x>>]
      BY <2>2, <3>4
    <3>7. PICK av \in Int, lo \in Int :
             av = bal[Available(u, x)] /\ lo = bal[Locked(u, x)]
      BY <2>2
    <3>8. av + lo = f + h
      BY <2>1, <3>6, <3>7
    <3>9. /\ new[Available(u, x)] = av + dg - dh
          /\ new[Locked(u, x)] = lo + dh
      BY <3>1, <3>7
    <3>10. SumOf(gained, OrdersOf(rows, u)) = h + dg
      BY <3>3, <3>6
    <3>11. /\ av + dg - dh + (lo + dh) = f + (h + dg)
      <4>1. dg \in Int /\ dh \in Int
        OBVIOUS
      <4> QED
        BY <3>8, <4>1
    <3> QED
      BY <3>5, <3>6, <3>9, <3>10, <3>11
  <2>4. CASE u # w
    <3>1. /\ new[Locked(u, x)] = bal[Locked(u, x)]
          /\ new[Available(u, x)] = bal[Available(u, x)]
      BY <2>4 DEF Shifted
    <3>2. SumOf(hold, LockedFor(rows, u, x)) = SumOf(held, LockedFor(rows, u, x))
      BY <1>1, <2>4
    <3>3. SumOf(gained, OrdersOf(rows, u)) = SumOf(gain, OrdersOf(rows, u))
      BY <1>1, <2>4
    <3> QED
      BY <2>1, <3>1, <3>2, <3>3
  <2> QED
    BY <2>3, <2>4
<1>4. new[System("FEE_REVENUE", x)] = -SumOf(GainsOf(rows, gained), Users)
  <2>1. /\ new[System("FEE_REVENUE", x)] = bal[System("FEE_REVENUE", x)] - dg
        /\ bal[System("FEE_REVENUE", x)] = -SumOf(GainsOf(rows, gain), Users)
    BY DEF Shifted, Fits
  <2> QED
    BY <1>2, <2>1
<1> QED
  BY <1>3, <1>4 DEF Fits

(* One order pays n of asset x, another receives it less a fee.            *)
Paid(bal, new, x, p, r, n, fee) ==
    /\ new[Locked(p, x)] = bal[Locked(p, x)] - n
    /\ new[Available(p, x)] = bal[Available(p, x)]
    /\ new[Available(r, x)] = bal[Available(r, x)] + (n - fee)
    /\ new[Locked(r, x)] = bal[Locked(r, x)]
    /\ new[System("FEE_REVENUE", x)] = bal[System("FEE_REVENUE", x)] + fee
    /\ \A v \in Users \ {p, r} :
          new[Locked(v, x)] = bal[Locked(v, x)] /\ new[Available(v, x)] = bal[Available(v, x)]

PaysFor(rows, n, x, a, b, c, fee, bal, new, held, hold, gain, gained) ==
    /\ n \in Nat /\ DOMAIN rows = 1..n /\ a \in 1..n /\ b \in 1..n /\ a # b
    /\ rows[a].user \in Users /\ rows[b].user \in Users /\ rows[a].user # rows[b].user
    /\ AssetOf(rows[a].side) = x /\ c \in Int /\ fee \in Int
    /\ \A u \in Users : Funds[<<u, x>>] \in Int
    /\ \A u \in Users : bal[Available(u, x)] \in Int
    /\ bal[System("FEE_REVENUE", x)] \in Int
    /\ Paid(bal, new, x, rows[a].user, rows[b].user, c, fee)
    /\ GrewAt(held, hold, HoldersOf(rows, x), a, -c)
    /\ \A o \in 1..n : gain[o] \in Int
    /\ gained[a] = gain[a] - c /\ gained[b] = gain[b] + (c - fee)
    /\ \A o \in (1..n) \ {a, b} : gained[o] = gain[o]
    /\ Fits(bal, x, rows, held, gain)

LEMMA PaidFits ==
    ASSUME IsFiniteSet(Users), NEW rows, NEW n, NEW x, NEW a, NEW b, NEW c, NEW fee,
           NEW bal, NEW new, NEW held, NEW hold, NEW gain, NEW gained,
           PaysFor(rows, n, x, a, b, c, fee, bal, new, held, hold, gain, gained)
    PROVE  Fits(new, x, rows, hold, gained)
<1> USE DEF PaysFor
<1> DEFINE p == rows[a].user
           r == rows[b].user
           R == System("FEE_REVENUE", x)
           mid == [name \in {R} \cup {Locked(u, x) : u \in Users} \cup {Available(u, x) : u \in Users} |->
                      IF name = R THEN bal[R] + c
                      ELSE IF name = Locked(p, x) THEN bal[name] - c ELSE bal[name]]
           won == [o \in 1..n |-> IF o = a THEN gain[a] - c ELSE gain[o]]
<1>1. /\ mid[R] = bal[R] + c
      /\ mid[Locked(p, x)] = bal[Locked(p, x)] - c
      /\ \A u \in Users \ {p} : mid[Locked(u, x)] = bal[Locked(u, x)]
      /\ \A u \in Users : mid[Available(u, x)] = bal[Available(u, x)]
  BY DEF Locked, Available, System
<1>2. /\ \A o \in 1..n : won[o] \in Int
      /\ won[a] = gain[a] - c /\ \A o \in (1..n) \ {a} : won[o] = gain[o]
  <2>1. PICK z \in Int : z = c
    OBVIOUS
  <2>2. /\ \A o \in 1..n : won[o] = IF o = a THEN gain[a] - c ELSE gain[o]
        /\ \A o \in 1..n : gain[o] \in Int
        /\ a \in 1..n
    OBVIOUS
  <2> HIDE DEF won, PaysFor
  <2> QED
    BY <2>1, <2>2
<1> HIDE DEF mid, won
<1>3. Shifted(bal, mid, x, p, -c, -c)
  <2>1. \A v \in Users \ {p} :
           mid[Locked(v, x)] = bal[Locked(v, x)] /\ mid[Available(v, x)] = bal[Available(v, x)]
    BY <1>1
  <2>2. mid[Locked(p, x)] = bal[Locked(p, x)] + (-c)
    BY <1>1
  <2>3. mid[Available(p, x)] = bal[Available(p, x)] + (-c) - (-c)
    BY <1>1
  <2>4. mid[R] = bal[R] - (-c)
    BY <1>1
  <2> QED
    BY <2>1, <2>2, <2>3, <2>4 DEF Shifted
<1>4. GrewAt(gain, won, 1..n, a, -c)
  BY <1>2 DEF GrewAt
<1>5. Fits(mid, x, rows, hold, won)
  <2>1. -c \in Int
    OBVIOUS
  <2> QED
    BY <1>3, <1>4, <2>1, ShiftFits
<1>6. Shifted(mid, new, x, r, 0, c - fee)
  <2>1. /\ bal[Available(r, x)] \in Int
        /\ \A v \in Users \ {r} :
              new[Locked(v, x)] = mid[Locked(v, x)] /\ new[Available(v, x)] = mid[Available(v, x)]
    <3>1. ASSUME NEW v \in Users \ {r}
          PROVE  new[Locked(v, x)] = mid[Locked(v, x)] /\ new[Available(v, x)] = mid[Available(v, x)]
      <4>1. CASE v = p
        BY <1>1, <4>1 DEF Paid
      <4>2. CASE v # p
        BY <1>1, <4>2 DEF Paid
      <4> QED
        BY <4>1, <4>2
    <3> QED
      BY <3>1
  <2>2. new[Locked(r, x)] = mid[Locked(r, x)] + 0
    <3>1. mid[Locked(r, x)] = bal[Locked(r, x)] /\ new[Locked(r, x)] = bal[Locked(r, x)]
      BY <1>1 DEF Paid
    <3>2. bal[Locked(r, x)] \in Int
      <4>1. IsFiniteSet(LockedFor(rows, r, x)) /\ LockedFor(rows, r, x) \subseteq HoldersOf(rows, x)
        <5>1. LockedFor(rows, r, x) \subseteq 1..n
          BY DEF LockedFor, OrdersOf
        <5> QED
          BY <5>1, FiniteUpTo DEF LockedFor, OrdersOf, HoldersOf
      <4>2. \A o \in LockedFor(rows, r, x) : held[o] \in Int
        BY <4>1 DEF GrewAt
      <4>3. SumOf(held, LockedFor(rows, r, x)) \in Int
        BY <4>1, <4>2, SumType
      <4> QED
        BY <4>3 DEF Fits
    <3> QED
      BY <3>1, <3>2
  <2>3. new[Available(r, x)] = mid[Available(r, x)] + (c - fee) - 0
    <3>1. mid[Available(r, x)] = bal[Available(r, x)]
      BY <1>1
    <3>2. new[Available(r, x)] = bal[Available(r, x)] + (c - fee)
      BY <1>1 DEF Paid
    <3>3. PICK av \in Int, d \in Int : av = bal[Available(r, x)] /\ d = c - fee
      BY <2>1
    <3>4. av + d = av + d - 0
      OBVIOUS
    <3> QED
      BY <3>1, <3>2, <3>3, <3>4
  <2>4. new[R] = mid[R] - (c - fee)
    BY <1>1 DEF Paid
  <2> QED
    BY <2>1, <2>2, <2>3, <2>4 DEF Shifted
<1>7. GrewAt(won, gained, 1..n, b, c - fee)
  <2>1. ASSUME NEW o \in (1..n) \ {b} PROVE gained[o] = won[o]
    <3>1. CASE o = a
      BY <1>2, <3>1
    <3>2. CASE o # a
      BY <1>2, <3>2
    <3> QED
      BY <3>1, <3>2
  <2> QED
    BY <1>2, <2>1 DEF GrewAt
<1>8. GrewAt(hold, hold, HoldersOf(rows, x), b, 0)
  <2>1. ASSUME NEW o \in HoldersOf(rows, x) PROVE hold[o] \in Int
    <3>1. CASE o = a
      BY <3>1 DEF GrewAt
    <3>2. CASE o # a
      BY <3>2 DEF GrewAt
    <3> QED
      BY <3>1, <3>2
  <2> QED
    BY <2>1 DEF GrewAt
<1>9. \A u \in Users : mid[Available(u, x)] \in Int
  BY <1>1
<1> QED
  <2>1. c - fee \in Int /\ 0 \in Int
    OBVIOUS
  <2> QED
    BY <1>5, <1>6, <1>7, <1>8, <1>9, <2>1, ShiftFits

-----------------------------------------------------------------------------
(* The postings, and what they do to the balances.                         *)

FeeKind == "FEE_REVENUE" \in SystemKinds

LEMMA NamedAccounts ==
    ASSUME FeeKind
    PROVE  \A x \in {Base, Quote} :
              /\ System("FEE_REVENUE", x) \in Accounts
              /\ \A u \in Users : Available(u, x) \in Accounts /\ Locked(u, x) \in Accounts
<1>1. /\ {Base, Quote} \subseteq Assets /\ NoUser \notin Users
      /\ UserKinds \cap SystemKinds = {} /\ "FEE_REVENUE" \in SystemKinds
  BY KindsAssumption, MarketAssumption DEF FeeKind
<1>2. ASSUME NEW x \in {Base, Quote} PROVE System("FEE_REVENUE", x) \in Accounts
  <2>1. "FEE_REVENUE" \notin UserKinds /\ x \in Assets
    BY <1>1
  <2> QED
    BY <1>1, <2>1 DEF Accounts, AccountNames, isUserAccount, System
<1>3. ASSUME NEW x \in {Base, Quote}, NEW u \in Users
      PROVE  Available(u, x) \in Accounts /\ Locked(u, x) \in Accounts
  <2>1. x \in Assets
    BY <1>1
  <2> QED
    BY <2>1 DEF Accounts, AccountNames, UserKinds, isUserAccount, Available, Locked
<1> QED
  BY <1>2, <1>3

LEMMA AccountsApart ==
    /\ \A u, v, x, y : Available(u, x) # Locked(v, y)
    /\ \A u, v, x, y : /\ Available(u, x) = Available(v, y) => u = v /\ x = y
                       /\ Locked(u, x) = Locked(v, y) => u = v /\ x = y
    /\ \A u, x, y : System("FEE_REVENUE", y) \notin {Available(u, x), Locked(u, x)}
    /\ \A x, y : System("FEE_REVENUE", x) = System("FEE_REVENUE", y) => x = y
    /\ \A u, x : /\ Available(u, x).asset = x /\ Locked(u, x).asset = x
                 /\ System("FEE_REVENUE", x).asset = x
    /\ Base # Quote
BY DEF Available, Locked, System, Base, Quote

LEMMA LineParts ==
    /\ \A name, n : /\ Debit(name, n).account = name /\ Debit(name, n).amount = n
                    /\ Debit(name, n).direction = "DEBIT"
                    /\ Signed(Debit(name, n)) = -n
    /\ \A name, n : /\ Credit(name, n).account = name /\ Credit(name, n).amount = n
                    /\ Credit(name, n).direction = "CREDIT"
                    /\ Signed(Credit(name, n)) = n
BY DEF Debit, Credit, Signed

(* What the lines of a set add to the ledger: nothing, when they balance.  *)
TotalOf(lines, T) == MapThenSumSet(LAMBDA h : Signed(lines[h]), T)

LEMMA Balances ==
    ASSUME NEW lines,
           \A x \in {lines[h].account.asset : h \in DOMAIN lines} :
              TotalOf(lines, {h \in DOMAIN lines : lines[h].account.asset = x}) = 0
    PROVE  CreditsEqualDebits(lines)
BY DEF CreditsEqualDebits, TotalOf

LEMMA PairBalances ==
    ASSUME NEW lines, NEW h, NEW j, h # j,
           Signed(lines[h]) \in Int, Signed(lines[j]) \in Int,
           Signed(lines[h]) + Signed(lines[j]) = 0
    PROVE  TotalOf(lines, {h, j}) = 0
<1> DEFINE s == [k \in {h, j} |-> Signed(lines[k])]
<1>1. s[h] = Signed(lines[h]) /\ s[j] = Signed(lines[j])
  OBVIOUS
<1>2. IsFiniteSet({h, j})
  <2>1. IsFiniteSet({h} \cup {j})
    BY FS_Singleton, FS_AddElement
  <2>2. {h, j} = {h} \cup {j}
    OBVIOUS
  <2> QED
    BY <2>1, <2>2
<1>3. MapThenSumSet(LAMBDA k : Signed(lines[k]), {h, j}) = SumOf(s, {h, j})
  BY <1>2, SumOfLines
<1> HIDE DEF s
<1>4. SumOf(s, {h, j}) = s[h] + s[j]
  BY <1>1, SumOfTwo
<1> QED
  BY <1>1, <1>3, <1>4 DEF TotalOf

LEMMA TripleBalances ==
    ASSUME NEW lines, NEW h, NEW j, NEW l, h # j, h # l, j # l,
           Signed(lines[h]) \in Int, Signed(lines[j]) \in Int, Signed(lines[l]) \in Int,
           Signed(lines[h]) = -(Signed(lines[j]) + Signed(lines[l]))
    PROVE  TotalOf(lines, {h, j, l}) = 0
<1> DEFINE s == [k \in {h, j, l} |-> Signed(lines[k])]
<1>1. s[h] = Signed(lines[h]) /\ s[j] = Signed(lines[j]) /\ s[l] = Signed(lines[l])
  OBVIOUS
<1>2. IsFiniteSet({h, j, l})
  <2>1. IsFiniteSet(({h} \cup {j}) \cup {l})
    BY FS_Singleton, FS_AddElement
  <2>2. {h, j, l} = ({h} \cup {j}) \cup {l}
    OBVIOUS
  <2> QED
    BY <2>1, <2>2
<1>3. MapThenSumSet(LAMBDA k : Signed(lines[k]), {h, j, l}) = SumOf(s, {h, j, l})
  BY <1>2, SumOfLines
<1> HIDE DEF s
<1>4. SumOf(s, {j, l}) = s[j] + s[l]
  BY <1>1, SumOfTwo
<1>5. SumOf(s, {h, j, l}) = s[h] + SumOf(s, {j, l})
  <2>1. {h, j, l} \ {h} = {j, l} /\ \A x \in {h, j, l} : s[x] \in Int
    BY <1>1
  <2> QED
    BY <1>2, <2>1, SumRemove
<1> QED
  BY <1>1, <1>3, <1>4, <1>5 DEF TotalOf

(* Money between the two accounts of one user: n of asset x from one to    *)
(* the other.                                                              *)
LEMMA PairPosts ==
    ASSUME FeeKind, NEW bal, NEW from \in Accounts, NEW to \in Accounts, from # to,
           NEW n \in Int, NEW x, from.asset = x, to.asset = x,
           NEW lines, lines = <<Debit(from, n), Credit(to, n)>>
    PROVE  /\ Applied(bal, lines)[from] = bal[from] + (-n)
           /\ Applied(bal, lines)[to] = bal[to] + n
           /\ \A name \in Accounts \ {from, to} : Applied(bal, lines)[name] = bal[name]
           /\ n > 0 => assertPostingBalanced(lines)
           /\ CanPost(bal, lines) <=> (isUserAccount(from) => bal[from] >= n)
<1>1. /\ Len(lines) = 2 /\ DOMAIN lines = {1, 2}
      /\ lines[1] = Debit(from, n) /\ lines[2] = Credit(to, n)
  OBVIOUS
<1>2. /\ lines[1].account = from /\ lines[2].account = to
      /\ lines[1].amount = n /\ lines[2].amount = n
      /\ lines[1].direction = "DEBIT" /\ lines[2].direction = "CREDIT"
      /\ Signed(lines[1]) = -n /\ Signed(lines[2]) = n
  BY <1>1, LineParts
<1> HIDE DEF Debit, Credit
<1>3. DistinctAccounts(lines) /\ AccountsOf(lines) = {from, to}
  BY <1>1, <1>2 DEF DistinctAccounts, AccountsOf
<1>4. /\ Applied(bal, lines)[from] = bal[from] + (-n)
      /\ Applied(bal, lines)[to] = bal[to] + n
      /\ \A name \in Accounts \ {from, to} : Applied(bal, lines)[name] = bal[name]
  BY <1>1, <1>2, <1>3, AppliedAt
<1>5. CreditsEqualDebits(lines)
  <2>1. TotalOf(lines, {1, 2}) = 0
    BY <1>2, PairBalances
  <2>2. {h \in DOMAIN lines : lines[h].account.asset = x} = {1, 2}
    BY <1>1, <1>2
  <2>3. {lines[h].account.asset : h \in DOMAIN lines} = {x}
    BY <1>1, <1>2
  <2>4. ASSUME NEW y \in {lines[h].account.asset : h \in DOMAIN lines}
        PROVE  TotalOf(lines, {h \in DOMAIN lines : lines[h].account.asset = y}) = 0
    <3>1. y = x
      BY <2>3
    <3> QED
      BY <2>1, <2>2, <3>1, Zenon
  <2> QED
    BY <2>4, Balances
<1>6. n > 0 => assertPostingBalanced(lines)
  BY <1>1, <1>2, <1>5 DEF assertPostingBalanced
<1>7. CanPost(bal, lines) <=> (isUserAccount(from) => bal[from] >= n)
  BY <1>1, <1>2 DEF CanPost, MayApply
<1> QED
  BY <1>4, <1>6, <1>7

(* The lines of a settlement.                                              *)
Payments(p, r, quote, quantity, sf, bf) ==
    <<Debit(Locked(p, Quote), quote), Credit(Available(r, Quote), quote - sf),
      Debit(Locked(r, Base), quantity), Credit(Available(p, Base), quantity - bf)>>
        \o FeeLines(Quote, sf) \o FeeLines(Base, bf)

(* One more line.                                                          *)
With(s, e) == s \o <<e>>

LEMMA FifthLine ==
    ASSUME NEW S, NEW s \in Seq(S), NEW e \in S, Len(s) = 4, NEW z, z = With(s, e)
    PROVE  /\ z \in Seq(S) /\ Len(z) = 5 /\ z[5] = e
           /\ z[1] = s[1] /\ z[2] = s[2] /\ z[3] = s[3] /\ z[4] = s[4]
<1> DEFINE t == <<e>>
<1>1. t \in Seq(S) /\ Len(t) = 1 /\ t[1] = e
  OBVIOUS
<1> HIDE DEF t
<1>2. /\ s \o t \in Seq(S) /\ Len(s \o t) = Len(s) + Len(t)
      /\ \A h \in 1..(Len(s) + Len(t)) :
            (s \o t)[h] = IF h <= Len(s) THEN s[h] ELSE t[h - Len(s)]
  BY <1>1, ConcatProperties, Zenon
<1>3. z = s \o t
  BY DEF t, With
<1> HIDE DEF t
<1>4. z \in Seq(S) /\ Len(z) = Len(s) + Len(t)
  BY <1>2, <1>3, Zenon
<1>5. \A h \in 1..(Len(s) + Len(t)) : z[h] = IF h <= Len(s) THEN s[h] ELSE t[h - Len(s)]
  BY <1>2, <1>3, Zenon
<1>6. Len(s) = 4 /\ Len(t) = 1
  BY <1>1
<1> QED
  BY <1>1, <1>4, <1>5, <1>6

LEMMA SixthLine ==
    ASSUME NEW S, NEW s \in Seq(S), NEW e \in S, Len(s) = 5, NEW z, z = With(s, e)
    PROVE  /\ z \in Seq(S) /\ Len(z) = 6 /\ z[6] = e /\ z[5] = s[5]
           /\ z[1] = s[1] /\ z[2] = s[2] /\ z[3] = s[3] /\ z[4] = s[4]
<1> DEFINE t == <<e>>
<1>1. t \in Seq(S) /\ Len(t) = 1 /\ t[1] = e
  OBVIOUS
<1> HIDE DEF t
<1>2. /\ s \o t \in Seq(S) /\ Len(s \o t) = Len(s) + Len(t)
      /\ \A h \in 1..(Len(s) + Len(t)) :
            (s \o t)[h] = IF h <= Len(s) THEN s[h] ELSE t[h - Len(s)]
  BY <1>1, ConcatProperties, Zenon
<1>3. z = s \o t
  BY DEF t, With
<1>4. z \in Seq(S) /\ Len(z) = Len(s) + Len(t)
  BY <1>2, <1>3, Zenon
<1>5. \A h \in 1..(Len(s) + Len(t)) : z[h] = IF h <= Len(s) THEN s[h] ELSE t[h - Len(s)]
  BY <1>2, <1>3, Zenon
<1>6. Len(s) = 5 /\ Len(t) = 1
  BY <1>1
<1> QED
  BY <1>1, <1>4, <1>5, <1>6

LEMMA NoMoreLines ==
    ASSUME NEW S, NEW s \in Seq(S)
    PROVE  s \o << >> = s
OBVIOUS

LEMMA FourLines ==
    ASSUME NEW S, NEW a \in S, NEW b \in S, NEW c \in S, NEW d \in S
    PROVE  /\ <<a, b, c, d>> \in Seq(S) /\ Len(<<a, b, c, d>>) = 4
           /\ <<a, b, c, d>>[1] = a /\ <<a, b, c, d>>[2] = b
           /\ <<a, b, c, d>>[3] = c /\ <<a, b, c, d>>[4] = d
OBVIOUS

(* Where the line of the buyer's fee is.                                   *)
BuyerFeeAt(sf) == IF sf > 0 THEN 6 ELSE 5

LEMMA LineNumbers ==
    /\ {1, 2, 3, 4, 5} = {1, 2, 3, 4} \cup {5} \cup {}
    /\ {1, 2, 3, 4} = {1, 2, 3, 4} \cup {} \cup {}
    /\ 4 >= 4 /\ 5 >= 4
OBVIOUS

(* The lines of a payment, and who they are for.                           *)
PaymentParts(L, p, r, quote, quantity, sf, bf) ==
    /\ Len(L) >= 4
    /\ DOMAIN L = {1, 2, 3, 4} \cup (IF sf > 0 THEN {5} ELSE {})
                                  \cup (IF bf > 0 THEN {BuyerFeeAt(sf)} ELSE {})
    /\ L[1] = Debit(Locked(p, Quote), quote)
    /\ L[2] = Credit(Available(r, Quote), quote - sf)
    /\ L[3] = Debit(Locked(r, Base), quantity)
    /\ L[4] = Credit(Available(p, Base), quantity - bf)
    /\ sf > 0 => L[5] = Credit(System("FEE_REVENUE", Quote), sf)
    /\ bf > 0 => L[BuyerFeeAt(sf)] = Credit(System("FEE_REVENUE", Base), bf)

LEMMA PaymentLines ==
    ASSUME NEW p, NEW r, NEW quote \in Nat, NEW quantity \in Nat, NEW sf \in Nat, NEW bf \in Nat,
           NEW L, L = Payments(p, r, quote, quantity, sf, bf)
    PROVE  PaymentParts(L, p, r, quote, quantity, sf, bf)
<1> USE DEF PaymentParts
<1> DEFINE a == Debit(Locked(p, Quote), quote)
           b == Credit(Available(r, Quote), quote - sf)
           c == Debit(Locked(r, Base), quantity)
           d == Credit(Available(p, Base), quantity - bf)
           e == Credit(System("FEE_REVENUE", Quote), sf)
           g == Credit(System("FEE_REVENUE", Base), bf)
           S == {a, b, c, d, e, g}
           M == <<a, b, c, d>>
           N == M \o FeeLines(Quote, sf)
<1>1. /\ FeeLines(Quote, sf) = IF sf > 0 THEN <<e>> ELSE << >>
      /\ FeeLines(Base, bf) = IF bf > 0 THEN <<g>> ELSE << >>
      /\ L = N \o FeeLines(Base, bf)
  BY DEF FeeLines, Payments
<1>2. /\ M \in Seq(S) /\ Len(M) = 4 /\ e \in S /\ g \in S
      /\ M[1] = a /\ M[2] = b /\ M[3] = c /\ M[4] = d
  <2> HIDE DEF a, b, c, d, e, g
  <2>1. a \in S /\ b \in S /\ c \in S /\ d \in S /\ e \in S /\ g \in S
    OBVIOUS
  <2> HIDE DEF S
  <2> QED
    BY <2>1, FourLines
<1> HIDE DEF a, b, c, d, e, g, S, M
<1>3. CASE sf > 0
  <2>1. /\ N \in Seq(S) /\ Len(N) = 5 /\ N[5] = e
        /\ N[1] = a /\ N[2] = b /\ N[3] = c /\ N[4] = d
    <3>1. N = With(M, e)
      BY <1>1, <1>3, Zenon DEF With
    <3> HIDE DEF N
    <3> QED
      BY <1>2, <3>1, FifthLine
  <2> HIDE DEF N
  <2>2. CASE bf > 0
    <3>1. L = With(N, g)
      BY <1>1, <2>2, Zenon DEF With
    <3>2. /\ L \in Seq(S) /\ Len(L) = 6 /\ L[6] = g /\ L[5] = N[5]
          /\ L[1] = N[1] /\ L[2] = N[2] /\ L[3] = N[3] /\ L[4] = N[4]
      BY <1>2, <2>1, <3>1, SixthLine
    <3>3. DOMAIN L = {1, 2, 3, 4, 5, 6}
      BY <3>2
    <3> QED
      BY <1>3, <2>1, <2>2, <3>2, <3>3 DEF a, b, c, d, e, g, BuyerFeeAt
  <2>3. CASE ~(bf > 0)
    <3>1. L = N
      BY <1>1, <2>1, <2>3, NoMoreLines
    <3>2. DOMAIN L = {1, 2, 3, 4, 5}
      BY <2>1, <3>1
    <3>3. Len(L) = 5
      BY <2>1, <3>1, Zenon
    <3>4. /\ L[1] = a /\ L[2] = b /\ L[3] = c /\ L[4] = d /\ L[5] = e
      BY <2>1, <3>1
    <3> QED
      BY <1>3, <2>3, <3>2, <3>3, <3>4, LineNumbers, Zenon DEF a, b, c, d, e
  <2> QED
    BY <2>2, <2>3
<1>4. CASE ~(sf > 0)
  <2>1. N = M
    BY <1>1, <1>2, <1>4, NoMoreLines
  <2> HIDE DEF N
  <2>2. CASE bf > 0
    <3>1. L = With(M, g)
      BY <1>1, <2>1, <2>2, Zenon DEF With
    <3>2. /\ L \in Seq(S) /\ Len(L) = 5 /\ L[5] = g
          /\ L[1] = a /\ L[2] = b /\ L[3] = c /\ L[4] = d
      BY <1>2, <3>1, FifthLine
    <3>3. DOMAIN L = {1, 2, 3, 4, 5}
      BY <3>2
    <3> QED
      BY <1>4, <2>2, <3>2, <3>3 DEF a, b, c, d, e, g, BuyerFeeAt
  <2>3. CASE ~(bf > 0)
    <3>1. L = M
      BY <1>1, <1>2, <2>1, <2>3, NoMoreLines
    <3>2. DOMAIN L = {1, 2, 3, 4}
      BY <1>2, <3>1
    <3>3. Len(L) = 4
      BY <1>2, <3>1, Zenon
    <3>4. L[1] = a /\ L[2] = b /\ L[3] = c /\ L[4] = d
      BY <1>2, <3>1
    <3> QED
      BY <1>4, <2>3, <3>2, <3>3, <3>4, LineNumbers, Zenon DEF a, b, c, d
  <2> QED
    BY <2>2, <2>3
<1> QED
  BY <1>3, <1>4

LEMMA SettlementPosts ==
    ASSUME FeeKind, NEW p \in Users, NEW r \in Users, p # r,
           NEW quote \in Nat, NEW quantity \in Nat, NEW sf \in Nat, NEW bf \in Nat,
           NEW bal \in [Accounts -> Int],
           NEW L, L = Payments(p, r, quote, quantity, sf, bf),
           NEW new, new = Applied(bal, L)
    PROVE  /\ Paid(bal, new, Quote, p, r, quote, sf)
           /\ Paid(bal, new, Base, r, p, quantity, bf)
           /\ sf < quote /\ bf < quantity => assertPostingBalanced(L)
           /\ bal[Locked(p, Quote)] >= quote /\ bal[Locked(r, Base)] >= quantity
                 => CanPost(bal, L)
<1> DEFINE a == Locked(p, Quote)
           b == Available(r, Quote)
           c == Locked(r, Base)
           d == Available(p, Base)
           e == System("FEE_REVENUE", Quote)
           g == System("FEE_REVENUE", Base)
           k == BuyerFeeAt(sf)
<1>1. /\ Len(L) >= 4
      /\ DOMAIN L = {1, 2, 3, 4} \cup (IF sf > 0 THEN {5} ELSE {})
                                 \cup (IF bf > 0 THEN {k} ELSE {})
      /\ L[1] = Debit(a, quote) /\ L[2] = Credit(b, quote - sf)
      /\ L[3] = Debit(c, quantity) /\ L[4] = Credit(d, quantity - bf)
      /\ sf > 0 => L[5] = Credit(e, sf)
      /\ bf > 0 => L[k] = Credit(g, bf)
  <2>1. PaymentParts(L, p, r, quote, quantity, sf, bf)
    BY PaymentLines, Zenon
  <2> QED
    BY <2>1, Zenon DEF PaymentParts
<1>2. /\ L[1].account = a /\ Signed(L[1]) = -quote
      /\ L[2].account = b /\ Signed(L[2]) = quote - sf
      /\ L[3].account = c /\ Signed(L[3]) = -quantity
      /\ L[4].account = d /\ Signed(L[4]) = quantity - bf
      /\ sf > 0 => L[5].account = e /\ Signed(L[5]) = sf
      /\ bf > 0 => L[k].account = g /\ Signed(L[k]) = bf
  <2> HIDE DEF a, b, c, d, e, g, k
  <2> QED
    BY <1>1, LineParts
<1>3. /\ L[1].amount = quote /\ L[2].amount = quote - sf
      /\ L[3].amount = quantity /\ L[4].amount = quantity - bf
      /\ sf > 0 => L[5].amount = sf
      /\ bf > 0 => L[k].amount = bf
      /\ L[2].direction = "CREDIT" /\ L[4].direction = "CREDIT"
      /\ sf > 0 => L[5].direction = "CREDIT"
      /\ bf > 0 => L[k].direction = "CREDIT"
  <2> HIDE DEF a, b, c, d, e, g, k
  <2> QED
    BY <1>1, LineParts
<1>4. /\ a # b /\ a # c /\ a # d /\ a # e /\ a # g
      /\ b # c /\ b # d /\ b # e /\ b # g
      /\ c # d /\ c # e /\ c # g /\ d # e /\ d # g /\ e # g
      /\ a.asset = Quote /\ b.asset = Quote /\ e.asset = Quote
      /\ c.asset = Base /\ d.asset = Base /\ g.asset = Base
  BY AccountsApart
<1>5. {a, b, c, d, e, g} \subseteq Accounts
  BY NamedAccounts
<1>6. \A v \in Users \ {p, r} : \A x \in {Base, Quote} :
         Locked(v, x) \notin {a, b, c, d, e, g} /\ Available(v, x) \notin {a, b, c, d, e, g}
  BY AccountsApart
<1>7. k = 5 \/ k = 6
  BY DEF BuyerFeeAt
<1>8. /\ Locked(r, Quote) \notin {a, b, c, d, e, g} /\ Available(p, Quote) \notin {a, b, c, d, e, g}
      /\ Locked(p, Base) \notin {a, b, c, d, e, g} /\ Available(r, Base) \notin {a, b, c, d, e, g}
  BY AccountsApart
<1>9. AccountsOf(L) = {a, b, c, d} \cup (IF sf > 0 THEN {e} ELSE {})
                                   \cup (IF bf > 0 THEN {g} ELSE {})
  <2> HIDE DEF a, b, c, d, e, g, k
  <2>1. CASE sf > 0
    <3>1. CASE bf > 0
      BY <1>1, <1>2, <2>1, <3>1 DEF AccountsOf
    <3>2. CASE ~(bf > 0)
      BY <1>1, <1>2, <2>1, <3>2 DEF AccountsOf
    <3> QED
      BY <3>1, <3>2
  <2>2. CASE ~(sf > 0)
    <3>1. CASE bf > 0
      BY <1>1, <1>2, <2>2, <3>1 DEF AccountsOf
    <3>2. CASE ~(bf > 0)
      BY <1>1, <1>2, <2>2, <3>2 DEF AccountsOf
    <3> QED
      BY <3>1, <3>2
  <2> QED
    BY <2>1, <2>2
<1>10. DistinctAccounts(L)
  <2> SUFFICES ASSUME NEW y \in DOMAIN L, NEW j \in DOMAIN L, L[y].account = L[j].account
               PROVE  y = j
    BY DEF DistinctAccounts
  <2>1. /\ y \in {1, 2, 3, 4} \/ (sf > 0 /\ y = 5) \/ (bf > 0 /\ y = k)
        /\ j \in {1, 2, 3, 4} \/ (sf > 0 /\ j = 5) \/ (bf > 0 /\ j = k)
    BY <1>1
  <2> HIDE DEF a, b, c, d, e, g, k
  <2> QED
    BY <1>2, <1>4, <2>1
<1>11. /\ new[a] = bal[a] - quote /\ new[b] = bal[b] + (quote - sf)
       /\ new[c] = bal[c] - quantity /\ new[d] = bal[d] + (quantity - bf)
       /\ new[e] = bal[e] + sf /\ new[g] = bal[g] + bf
       /\ \A name \in Accounts : name \notin {a, b, c, d, e, g} => new[name] = bal[name]
  <2> HIDE DEF a, b, c, d, e, g, k
  <2>1. /\ \A name \in Accounts, y \in DOMAIN L :
              L[y].account = name => new[name] = bal[name] + Signed(L[y])
        /\ \A name \in Accounts : name \notin AccountsOf(L) => new[name] = bal[name]
    BY <1>10, AppliedAt
  <2>2. {1, 2, 3, 4} \subseteq DOMAIN L /\ (sf > 0 => 5 \in DOMAIN L) /\ (bf > 0 => k \in DOMAIN L)
    BY <1>1
  <2>3. \A name \in {a, b, c, d, e, g} : bal[name] \in Int
    BY <1>5
  <2>4. /\ new[a] = bal[a] + (-quote) /\ new[b] = bal[b] + (quote - sf)
        /\ new[c] = bal[c] + (-quantity) /\ new[d] = bal[d] + (quantity - bf)
    BY <1>2, <1>5, <2>1, <2>2
  <2>5. new[e] = bal[e] + sf
    <3>1. CASE sf > 0
      BY <1>2, <1>5, <2>1, <2>2, <3>1
    <3>2. CASE sf = 0
      <4>1. e \notin AccountsOf(L)
        BY <1>4, <1>9, <3>2
      <4> QED
        BY <1>5, <2>1, <2>3, <3>2, <4>1
    <3> QED
      BY <3>1, <3>2
  <2>6. new[g] = bal[g] + bf
    <3>1. CASE bf > 0
      BY <1>2, <1>5, <2>1, <2>2, <3>1
    <3>2. CASE bf = 0
      <4>1. g \notin AccountsOf(L)
        BY <1>4, <1>9, <3>2
      <4> QED
        BY <1>5, <2>1, <2>3, <3>2, <4>1
    <3> QED
      BY <3>1, <3>2
  <2>7. \A name \in Accounts : name \notin {a, b, c, d, e, g} => new[name] = bal[name]
    BY <1>9, <2>1
  <2> QED
    BY <2>3, <2>4, <2>5, <2>6, <2>7
<1>12. \A u \in Users : \A x \in {Base, Quote} : Available(u, x) \in Accounts /\ Locked(u, x) \in Accounts
  BY NamedAccounts
<1>13. Paid(bal, new, Quote, p, r, quote, sf)
  <2>1. Quote \in {Base, Quote} /\ Base \in {Base, Quote}
    OBVIOUS
  <2>2. \A v \in Users \ {p, r} :
          new[Locked(v, Quote)] = bal[Locked(v, Quote)]
             /\ new[Available(v, Quote)] = bal[Available(v, Quote)]
    BY <1>6, <1>11, <1>12, <2>1
  <2>3. new[Locked(r, Quote)] = bal[Locked(r, Quote)]
        /\ new[Available(p, Quote)] = bal[Available(p, Quote)]
    BY <1>8, <1>11, <1>12, <2>1
  <2> QED
    BY <1>11, <2>2, <2>3 DEF Paid
<1>14. Paid(bal, new, Base, r, p, quantity, bf)
  <2>1. Quote \in {Base, Quote} /\ Base \in {Base, Quote}
    OBVIOUS
  <2>2. \A v \in Users \ {p, r} :
          new[Locked(v, Base)] = bal[Locked(v, Base)]
             /\ new[Available(v, Base)] = bal[Available(v, Base)]
    BY <1>6, <1>11, <1>12, <2>1
  <2>3. new[Locked(p, Base)] = bal[Locked(p, Base)]
        /\ new[Available(r, Base)] = bal[Available(r, Base)]
    BY <1>8, <1>11, <1>12, <2>1
  <2> QED
    BY <1>11, <2>2, <2>3 DEF Paid
<1>15. ASSUME bal[a] >= quote, bal[c] >= quantity PROVE CanPost(bal, L)
  <2> SUFFICES ASSUME NEW y \in DOMAIN L PROVE MayApply(bal, L[y])
    BY DEF CanPost
  <2>1. y \in {1, 2, 3, 4} \/ (sf > 0 /\ y = 5) \/ (bf > 0 /\ y = k)
    BY <1>1
  <2> HIDE DEF a, b, c, d, e, g, k
  <2> QED
    BY <1>2, <1>3, <1>15, <2>1 DEF MayApply
<1>16. ASSUME sf < quote, bf < quantity PROVE assertPostingBalanced(L)
  <2> HIDE DEF a, b, c, d, e, g, k
  <2>1. \A y \in DOMAIN L : L[y].amount > 0
    <3> SUFFICES ASSUME NEW y \in DOMAIN L PROVE L[y].amount > 0
      OBVIOUS
    <3>1. y \in {1, 2, 3, 4} \/ (sf > 0 /\ y = 5) \/ (bf > 0 /\ y = k)
      BY <1>1
    <3> QED
      BY <1>3, <1>16, <3>1
  <2>2. TotalOf(L, {y \in DOMAIN L : L[y].account.asset = Quote}) = 0
    <3>1. CASE sf > 0
      <4>1. {y \in DOMAIN L : L[y].account.asset = Quote} = {1, 2, 5}
        <5>1. k = 6
          BY <3>1 DEF k, BuyerFeeAt
        <5> QED
          BY <1>1, <1>2, <1>4, <3>1, <5>1, AccountsApart
      <4>2. TotalOf(L, {1, 2, 5}) = 0
        <5>1. PICK y, j, h : y = 1 /\ j = 2 /\ h = 5
          OBVIOUS
        <5>2. /\ Signed(L[y]) = -(Signed(L[j]) + Signed(L[h]))
              /\ y # j /\ y # h /\ j # h
              /\ Signed(L[y]) \in Int /\ Signed(L[j]) \in Int /\ Signed(L[h]) \in Int
          BY <1>2, <3>1, <5>1
        <5>3. TotalOf(L, {y, j, h}) = 0
          BY <5>2, TripleBalances, Zenon
        <5> QED
          BY <5>1, <5>3, Zenon
      <4> QED
        BY <4>1, <4>2, Zenon
    <3>2. CASE ~(sf > 0)
      <4>1. {y \in DOMAIN L : L[y].account.asset = Quote} = {1, 2}
        BY <1>1, <1>2, <1>4, <3>2, AccountsApart
      <4>2. TotalOf(L, {1, 2}) = 0
        <5>1. /\ Signed(L[1]) \in Int /\ Signed(L[2]) \in Int /\ 1 # 2
              /\ Signed(L[1]) + Signed(L[2]) = 0
          BY <1>2, <3>2
        <5> QED
          BY <5>1, PairBalances, Zenon
      <4> QED
        BY <4>1, <4>2, Zenon
    <3> QED
      BY <3>1, <3>2
  <2>3. TotalOf(L, {y \in DOMAIN L : L[y].account.asset = Base}) = 0
    <3>1. CASE bf > 0
      <4>1. {y \in DOMAIN L : L[y].account.asset = Base} = {3, 4, k}
        <5>1. k = IF sf > 0 THEN 6 ELSE 5
          BY DEF k, BuyerFeeAt
        <5> QED
          BY <1>1, <1>2, <1>4, <3>1, <5>1, AccountsApart
      <4>2. TotalOf(L, {3, 4, k}) = 0
        <5>1. /\ Signed(L[3]) = -(Signed(L[4]) + Signed(L[k]))
              /\ 3 # 4 /\ 3 # k /\ 4 # k
              /\ Signed(L[3]) \in Int /\ Signed(L[4]) \in Int /\ Signed(L[k]) \in Int
          BY <1>2, <1>7, <3>1
        <5> QED
          BY <5>1, TripleBalances, Zenon
      <4> QED
        BY <4>1, <4>2, Zenon
    <3>2. CASE ~(bf > 0)
      <4>1. {y \in DOMAIN L : L[y].account.asset = Base} = {3, 4}
        BY <1>1, <1>2, <1>4, <3>2, AccountsApart
      <4>2. TotalOf(L, {3, 4}) = 0
        <5>1. /\ Signed(L[3]) \in Int /\ Signed(L[4]) \in Int /\ 3 # 4
              /\ Signed(L[3]) + Signed(L[4]) = 0
          BY <1>2, <3>2
        <5> QED
          BY <5>1, PairBalances, Zenon
      <4> QED
        BY <4>1, <4>2, Zenon
    <3> QED
      BY <3>1, <3>2
  <2>4. {L[y].account.asset : y \in DOMAIN L} = {Quote, Base}
    BY <1>1, <1>2, <1>4
  <2>5. CreditsEqualDebits(L)
    <3>1. ASSUME NEW x \in {L[y].account.asset : y \in DOMAIN L}
          PROVE  TotalOf(L, {y \in DOMAIN L : L[y].account.asset = x}) = 0
      <4>1. x = Quote \/ x = Base
        BY <2>4
      <4> QED
        BY <2>2, <2>3, <4>1, Zenon
    <3> QED
      BY <3>1, Balances
  <2> QED
    BY <1>1, <2>1, <2>5 DEF assertPostingBalanced
<1> QED
  BY <1>13, <1>14, <1>15, <1>16

-----------------------------------------------------------------------------
(* What the ledger still holds of the lock of an order, and what the order *)
(* gained in an asset.                                                     *)
HeldIn(tape, rows, refs) ==
    [o \in DOMAIN rows |->
        IF LockRef(o) \in refs /\ UnlockRef(o) \notin refs
        THEN rows[o].locked - PaidOn(tape, rows[o].side, o) ELSE 0]

GainsIn(tape, rows, x) == [o \in DOMAIN rows |-> GainOn(tape, rows[o].side, o, x)]

Explained(bal, tape, rows, refs) ==
    \A x \in {Base, Quote} :
        Fits(bal, x, rows, HeldIn(tape, rows, refs), GainsIn(tape, rows, x))

(* The tape as the ledger has it: the row of a settled fill comes next.    *)
Moved ==
    IF \E o \in Orders : place[o] = "trade"
    THEN Append(trades, TradeRow(Head(queue).order, CurrentFill)) ELSE trades

Backed == Explained(balance, Moved, orders, posted)

LEMMA BackedNext == Backed' <=> Explained(balance', Moved', orders', posted')
BY DEF Backed

(* The terms of the orders, as far as money is concerned.                  *)
Terms(rows, n) ==
    /\ DOMAIN rows = 1..n
    /\ \A o \in 1..n : /\ rows[o].user \in Users /\ rows[o].side \in {"BUY", "SELL"}
                       /\ rows[o].locked \in Int

LEMMA PaidTyped ==
    ASSUME NEW tape \in Seq(TapeRows), NEW o, NEW side
    PROVE  PaidOn(tape, side, o) \in Nat
BY TotalsTyped DEF PaidOn

LEMMA HeldTyped ==
    ASSUME NEW rows, NEW n \in Nat, Terms(rows, n), NEW tape \in Seq(TapeRows), NEW refs
    PROVE  \A o \in 1..n :
              /\ HeldIn(tape, rows, refs)[o] \in Int
              /\ \A x : /\ GainsIn(tape, rows, x)[o] = GainOn(tape, rows[o].side, o, x)
                        /\ GainsIn(tape, rows, x)[o] \in Int
<1> SUFFICES ASSUME NEW o \in 1..n
             PROVE  /\ HeldIn(tape, rows, refs)[o] \in Int
                    /\ \A x : /\ GainsIn(tape, rows, x)[o] = GainOn(tape, rows[o].side, o, x)
                              /\ GainsIn(tape, rows, x)[o] \in Int
  OBVIOUS
<1>1. rows[o].locked \in Int /\ PaidOn(tape, rows[o].side, o) \in Int /\ o \in DOMAIN rows
  BY PaidTyped DEF Terms
<1>2. \A x : GainOn(tape, rows[o].side, o, x) \in Int
  BY TotalsTyped
<1> QED
  BY <1>1, <1>2 DEF HeldIn, GainsIn

LEMMA FundsTyped == \A u \in Users : \A x \in {Base, Quote} : Funds[<<u, x>>] \in Int
BY FundsAssumption, MarketAssumption

(* Who ordered what, on which side and against which lock, is all that     *)
(* matters of the rows.                                                    *)
LEMMA SameExplained ==
    ASSUME NEW bal, NEW tape, NEW rows, NEW next, NEW refs, DOMAIN next = DOMAIN rows,
           \A o \in DOMAIN rows : /\ next[o].user = rows[o].user
                                  /\ next[o].side = rows[o].side
                                  /\ next[o].locked = rows[o].locked,
           Explained(bal, tape, rows, refs)
    PROVE  Explained(bal, tape, next, refs)
<1>1. /\ HeldIn(tape, next, refs) = HeldIn(tape, rows, refs)
      /\ \A x : GainsIn(tape, next, x) = GainsIn(tape, rows, x)
  BY DEF HeldIn, GainsIn
<1>2. \A u : /\ OrdersOf(next, u) = OrdersOf(rows, u)
             /\ \A x : LockedFor(next, u, x) = LockedFor(rows, u, x)
  BY DEF OrdersOf, LockedFor
<1>3. \A gain : GainsOf(next, gain) = GainsOf(rows, gain)
  BY <1>2 DEF GainsOf
<1>4. ASSUME NEW x \in {Base, Quote}
      PROVE  Fits(bal, x, next, HeldIn(tape, next, refs), GainsIn(tape, next, x))
  <2> DEFINE held == HeldIn(tape, rows, refs)
             gain == GainsIn(tape, rows, x)
  <2>1. Fits(bal, x, rows, held, gain)
    BY DEF Explained
  <2>2. HeldIn(tape, next, refs) = held /\ GainsIn(tape, next, x) = gain
    BY <1>1, Zenon
  <2> HIDE DEF held, gain
  <2>3. Fits(bal, x, next, held, gain)
    <3>1. ASSUME NEW u \in Users
          PROVE  /\ bal[Locked(u, x)] = SumOf(held, LockedFor(next, u, x))
                 /\ bal[Available(u, x)] + bal[Locked(u, x)]
                       = Funds[<<u, x>>] + SumOf(gain, OrdersOf(next, u))
      <4>1. LockedFor(next, u, x) = LockedFor(rows, u, x) /\ OrdersOf(next, u) = OrdersOf(rows, u)
        BY <1>2, Zenon
      <4>2. /\ bal[Locked(u, x)] = SumOf(held, LockedFor(rows, u, x))
            /\ bal[Available(u, x)] + bal[Locked(u, x)]
                  = Funds[<<u, x>>] + SumOf(gain, OrdersOf(rows, u))
        BY <2>1, Zenon DEF Fits
      <4> QED
        BY <4>1, <4>2, Zenon
    <3>2. bal[System("FEE_REVENUE", x)] = -SumOf(GainsOf(next, gain), Users)
      <4>1. GainsOf(next, gain) = GainsOf(rows, gain)
        BY <1>3, Zenon
      <4>2. bal[System("FEE_REVENUE", x)] = -SumOf(GainsOf(rows, gain), Users)
        BY <2>1, Zenon DEF Fits
      <4> QED
        BY <4>1, <4>2, Zenon
    <3> QED
      BY <3>1, <3>2, Zenon DEF Fits
  <2> QED
    BY <2>2, <2>3, Zenon
<1> QED
  BY <1>4 DEF Explained

(* Money moves between the two accounts of the user of one order, and what *)
(* is held of the lock of the order changes by that.                       *)
Relocks(bal, new, u, y, d) ==
    /\ new[Locked(u, y)] = bal[Locked(u, y)] + d
    /\ new[Available(u, y)] = bal[Available(u, y)] + (-d)
    /\ \A name \in Accounts \ {Locked(u, y), Available(u, y)} : new[name] = bal[name]

MovesWithin(rows, n, tape, refs, more, a, d, bal, new) ==
    /\ n \in Nat /\ Terms(rows, n) /\ tape \in Seq(TapeRows) /\ a \in 1..n /\ d \in Int
    /\ HeldIn(tape, rows, more)[a] = HeldIn(tape, rows, refs)[a] + d
    /\ \A o \in (1..n) \ {a} : HeldIn(tape, rows, more)[o] = HeldIn(tape, rows, refs)[o]
    /\ bal \in [Accounts -> Int]
    /\ Relocks(bal, new, rows[a].user, AssetOf(rows[a].side), d)
    /\ Explained(bal, tape, rows, refs)

LEMMA MovedWithin ==
    ASSUME IsFiniteSet(Users), FeeKind, NEW rows, NEW n, NEW tape, NEW refs, NEW more,
           NEW a, NEW d, NEW bal, NEW new,
           MovesWithin(rows, n, tape, refs, more, a, d, bal, new)
    PROVE  Explained(new, tape, rows, more)
<1> USE DEF MovesWithin, Relocks
<1> DEFINE y == AssetOf(rows[a].side)
<1> SUFFICES ASSUME NEW x \in {Base, Quote}
             PROVE  Fits(new, x, rows, HeldIn(tape, rows, more), GainsIn(tape, rows, x))
  BY DEF Explained
<1> DEFINE held == HeldIn(tape, rows, refs)
           hold == HeldIn(tape, rows, more)
           gain == GainsIn(tape, rows, x)
           u == rows[a].user
           dh == IF x = y THEN d ELSE 0
<1>1. /\ \A o \in 1..n : held[o] \in Int /\ gain[o] \in Int
      /\ Fits(bal, x, rows, held, gain) /\ u \in Users
      /\ y \in {Base, Quote} /\ DOMAIN rows = 1..n
  BY HeldTyped DEF Explained, Terms, AssetOf
<1>2. /\ \A v \in Users : bal[Available(v, x)] \in Int /\ bal[Locked(v, x)] \in Int
      /\ bal[System("FEE_REVENUE", x)] \in Int
      /\ \A v \in Users : /\ Available(v, x) \in Accounts /\ Locked(v, x) \in Accounts
      /\ System("FEE_REVENUE", x) \in Accounts
  BY NamedAccounts
<1>3. GrewAt(held, hold, HoldersOf(rows, x), a, dh)
  <2>1. HoldersOf(rows, x) \subseteq 1..n /\ (x # y => a \notin HoldersOf(rows, x))
    BY <1>1 DEF HoldersOf
  <2> HIDE DEF held, hold
  <2> QED
    BY <1>1, <2>1 DEF GrewAt, held, hold
<1>4. GrewAt(gain, gain, 1..n, a, 0)
  <2> HIDE DEF gain
  <2> QED
    BY <1>1 DEF GrewAt
<1>5. Shifted(bal, new, x, u, dh, 0)
  <2> HIDE DEF u
  <2>1. /\ new[System("FEE_REVENUE", x)] = bal[System("FEE_REVENUE", x)]
        /\ \A v \in Users \ {u} :
              new[Locked(v, x)] = bal[Locked(v, x)] /\ new[Available(v, x)] = bal[Available(v, x)]
    BY <1>2, AccountsApart DEF u
  <2>2. CASE x = y
    BY <1>1, <1>2, <2>1, <2>2 DEF Shifted, u
  <2>3. CASE x # y
    <3>1. new[Locked(u, x)] = bal[Locked(u, x)] /\ new[Available(u, x)] = bal[Available(u, x)]
      BY <1>1, <1>2, <2>3, AccountsApart DEF u
    <3> QED
      BY <1>1, <1>2, <2>1, <2>3, <3>1 DEF Shifted
  <2> QED
    BY <2>2, <2>3
<1>6. AssetOf(rows[a].side) = x \/ dh = 0
  OBVIOUS
<1>7. dh \in Int /\ 0 \in Int /\ \A v \in Users : Funds[<<v, x>>] \in Int
  <2>1. \A v \in Users : Funds[<<v, x>>] \in Int
    BY FundsTyped, Zenon
  <2>2. dh \in Int
    OBVIOUS
  <2> HIDE DEF dh
  <2> QED
    BY <2>1, <2>2
<1> HIDE DEF held, hold, gain, dh
<1>8. Fits(new, x, rows, hold, gain)
  BY <1>1, <1>2, <1>3, <1>4, <1>5, <1>6, <1>7, ShiftFits DEF u
<1> QED
  BY <1>8 DEF hold, gain

(* A settlement, with its row on the tape.                                 *)
SettlesFor(rows, n, tape, row, a, b, refs, more, bal, new) ==
    /\ n \in Nat /\ Terms(rows, n) /\ tape \in Seq(TapeRows) /\ row \in TapeRows
    /\ a \in 1..n /\ b \in 1..n /\ rows[a].side = "BUY" /\ rows[b].side = "SELL"
    /\ rows[a].user # rows[b].user
    /\ \A o : Party(row, o) <=> o \in {a, b}
    /\ \A o \in 1..n : /\ LockRef(o) \in more <=> LockRef(o) \in refs
                       /\ UnlockRef(o) \in more <=> UnlockRef(o) \in refs
    /\ \A o \in {a, b} : LockRef(o) \in refs /\ UnlockRef(o) \notin refs
    /\ bal \in [Accounts -> Int]
    /\ Paid(bal, new, Quote, rows[a].user, rows[b].user, row.quoteAmount, FeeOf(row, b))
    /\ Paid(bal, new, Base, rows[b].user, rows[a].user, row.quantity, FeeOf(row, a))
    /\ Explained(bal, tape, rows, refs)
LEMMA SettledExplained ==
    ASSUME IsFiniteSet(Users), FeeKind, NEW rows, NEW n, NEW tape, NEW row, NEW a, NEW b,
           NEW refs, NEW more, NEW bal, NEW new,
           SettlesFor(rows, n, tape, row, a, b, refs, more, bal, new)
    PROVE  Explained(new, Append(tape, row), rows, more)
<1> USE DEF SettlesFor
<1> DEFINE next == Append(tape, row)
           held == HeldIn(tape, rows, refs)
           hold == HeldIn(next, rows, more)
           gain(x) == GainsIn(tape, rows, x)
           gained(x) == GainsIn(next, rows, x)
<1>1. next \in Seq(TapeRows)
  OBVIOUS
<1>2. \A o \in 1..n : /\ held[o] \in Int /\ hold[o] \in Int
                      /\ \A x : gain(x)[o] \in Int /\ gained(x)[o] \in Int
  <2> HIDE DEF next
  <2> QED
    BY <1>1, HeldTyped
<1>3. /\ DOMAIN rows = 1..n /\ a # b /\ Base # Quote
      /\ rows[a].user \in Users /\ rows[b].user \in Users
      /\ row.quoteAmount \in Int /\ row.quantity \in Int
      /\ FeeOf(row, a) \in Int /\ FeeOf(row, b) \in Int
  BY RowNumbers, AccountsApart DEF Terms, FeeOf
<1>4. ASSUME NEW x \in {Base, Quote}
      PROVE  /\ \A v \in Users : bal[Available(v, x)] \in Int
             /\ bal[System("FEE_REVENUE", x)] \in Int
             /\ \A v \in Users : Funds[<<v, x>>] \in Int
  BY NamedAccounts, FundsTyped
<1>5. \A x : /\ gained(x)[a] = gain(x)[a] + GainIn(row, a, rows[a].side, x)
             /\ gained(x)[b] = gain(x)[b] + GainIn(row, b, rows[b].side, x)
             /\ \A o \in (1..n) \ {a, b} : gained(x)[o] = gain(x)[o]
  <2>1. ASSUME NEW o \in 1..n, NEW x
        PROVE  /\ Party(row, o) => gained(x)[o] = gain(x)[o] + GainIn(row, o, rows[o].side, x)
               /\ ~Party(row, o) => gained(x)[o] = gain(x)[o] + 0
    <3>1. /\ gained(x)[o] = GainOn(next, rows[o].side, o, x)
          /\ gain(x)[o] = GainOn(tape, rows[o].side, o, x)
      BY <1>3, Zenon DEF GainsIn
    <3>2. GainOn(next, rows[o].side, o, x) = GainOn(tape, rows[o].side, o, x)
             + (IF Party(row, o) THEN GainIn(row, o, rows[o].side, x) ELSE 0)
      BY TapeAppend
    <3> QED
      BY <3>1, <3>2, Zenon
  <2>2. \A o \in 1..n : \A x : gain(x)[o] \in Int
    BY <1>2
  <2>3. a \in 1..n /\ b \in 1..n /\ \A o : Party(row, o) <=> o \in {a, b}
    OBVIOUS
  <2> HIDE DEF gain, gained, next, SettlesFor
  <2> QED
    BY <2>1, <2>2, <2>3
<1>6. /\ \A o \in 1..n : o \notin {a, b} => hold[o] = held[o]
      /\ hold[a] = held[a] - row.quoteAmount /\ hold[b] = held[b] - row.quantity
  <2>1. ASSUME NEW o \in 1..n
        PROVE  PaidOn(next, rows[o].side, o) = PaidOn(tape, rows[o].side, o)
                  + (IF Party(row, o)
                     THEN IF rows[o].side = "BUY" THEN row.quoteAmount ELSE row.quantity ELSE 0)
    BY TapeAppend DEF PaidOn
  <2>2. ASSUME NEW o \in 1..n, o \notin {a, b} PROVE hold[o] = held[o]
    <3>1. PaidOn(next, rows[o].side, o) = PaidOn(tape, rows[o].side, o)
      <4>1. PaidOn(tape, rows[o].side, o) \in Nat
        BY PaidTyped
      <4> QED
        BY <2>1, <2>2, <4>1
    <3> HIDE DEF next
    <3> QED
      BY <1>3, <3>1 DEF HeldIn
  <2>3. hold[a] = held[a] - row.quoteAmount
    <3>1. PaidOn(next, rows[a].side, a) = PaidOn(tape, rows[a].side, a) + row.quoteAmount
      BY <2>1
    <3>2. PaidOn(tape, rows[a].side, a) \in Int /\ rows[a].locked \in Int
      BY PaidTyped DEF Terms
    <3>3. /\ held[a] = rows[a].locked - PaidOn(tape, rows[a].side, a)
          /\ hold[a] = rows[a].locked - PaidOn(next, rows[a].side, a)
      <4> HIDE DEF next
      <4> QED
        BY <1>3 DEF HeldIn
    <3> HIDE DEF next, held, hold
    <3> QED
      BY <1>3, <3>1, <3>2, <3>3
  <2>4. hold[b] = held[b] - row.quantity
    <3>1. PaidOn(next, rows[b].side, b) = PaidOn(tape, rows[b].side, b) + row.quantity
      BY <2>1
    <3>2. PaidOn(tape, rows[b].side, b) \in Int /\ rows[b].locked \in Int
      BY PaidTyped DEF Terms
    <3>3. /\ held[b] = rows[b].locked - PaidOn(tape, rows[b].side, b)
          /\ hold[b] = rows[b].locked - PaidOn(next, rows[b].side, b)
      <4> HIDE DEF next
      <4> QED
        BY <1>3 DEF HeldIn
    <3> HIDE DEF next, held, hold
    <3> QED
      BY <1>3, <3>1, <3>2, <3>3
  <2> QED
    BY <2>2, <2>3, <2>4
<1> HIDE DEF next, held, hold, gain, gained
<1>7. Fits(new, Quote, rows, hold, gained(Quote))
  <2> DEFINE f == gain(Quote)
             g == gained(Quote)
             c == row.quoteAmount
  <2>1. /\ g[a] = f[a] - c /\ g[b] = f[b] + (c - FeeOf(row, b))
        /\ \A o \in (1..n) \ {a, b} : g[o] = f[o]
        /\ \A o \in 1..n : f[o] \in Int
    <3>1. GainIn(row, a, rows[a].side, Quote) = -c /\ GainIn(row, b, rows[b].side, Quote) = c - FeeOf(row, b)
      BY <1>3 DEF GainIn, AssetOf
    <3> QED
      BY <1>2, <1>3, <1>5, <3>1
  <2>2. GrewAt(held, hold, HoldersOf(rows, Quote), a, -c)
    <3>1. \A o \in HoldersOf(rows, Quote) : o \in 1..n /\ o # b
      BY <1>3 DEF HoldersOf, AssetOf
    <3> QED
      BY <1>2, <1>3, <1>6, <3>1 DEF GrewAt
  <2>3. Fits(bal, Quote, rows, held, f)
    BY DEF Explained, held, gain
  <2>4. AssetOf(rows[a].side) = Quote
    BY DEF AssetOf
  <2> HIDE DEF f, g
  <2>5. /\ \A v \in Users : bal[Available(v, Quote)] \in Int
        /\ bal[System("FEE_REVENUE", Quote)] \in Int
        /\ \A v \in Users : Funds[<<v, Quote>>] \in Int
    BY <1>4, Zenon
  <2>6. /\ c \in Int /\ FeeOf(row, b) \in Int /\ a # b
        /\ rows[a].user # rows[b].user
    BY <1>3
  <2> HIDE DEF c
  <2>7. Fits(new, Quote, rows, hold, g)
    <3>1. PaysFor(rows, n, Quote, a, b, c, FeeOf(row, b), bal, new, held, hold, f, g)
      BY <1>3, <2>1, <2>2, <2>3, <2>4, <2>5, <2>6, Zenon DEF c, PaysFor
    <3> QED
      BY <3>1, PaidFits, Zenon
  <2> QED
    BY <2>7 DEF g
<1>8. Fits(new, Base, rows, hold, gained(Base))
  <2> DEFINE f == gain(Base)
             g == gained(Base)
             c == row.quantity
  <2>1. /\ g[b] = f[b] - c /\ g[a] = f[a] + (c - FeeOf(row, a))
        /\ \A o \in (1..n) \ {b, a} : g[o] = f[o]
        /\ \A o \in 1..n : f[o] \in Int
    <3>1. GainIn(row, b, rows[b].side, Base) = -c /\ GainIn(row, a, rows[a].side, Base) = c - FeeOf(row, a)
      BY <1>3 DEF GainIn, AssetOf
    <3> QED
      BY <1>2, <1>3, <1>5, <3>1
  <2>2. GrewAt(held, hold, HoldersOf(rows, Base), b, -c)
    <3>1. \A o \in HoldersOf(rows, Base) : o \in 1..n /\ o # a
      BY <1>3 DEF HoldersOf, AssetOf
    <3> QED
      BY <1>2, <1>3, <1>6, <3>1 DEF GrewAt
  <2>3. Fits(bal, Base, rows, held, f)
    BY DEF Explained, held, gain
  <2>4. AssetOf(rows[b].side) = Base
    BY DEF AssetOf
  <2> HIDE DEF f, g
  <2>5. /\ \A v \in Users : bal[Available(v, Base)] \in Int
        /\ bal[System("FEE_REVENUE", Base)] \in Int
        /\ \A v \in Users : Funds[<<v, Base>>] \in Int
    BY <1>4, Zenon
  <2>6. /\ c \in Int /\ FeeOf(row, a) \in Int /\ b # a
        /\ rows[b].user # rows[a].user
    BY <1>3
  <2> HIDE DEF c
  <2>7. Fits(new, Base, rows, hold, g)
    <3>1. PaysFor(rows, n, Base, b, a, c, FeeOf(row, a), bal, new, held, hold, f, g)
      BY <1>3, <2>1, <2>2, <2>3, <2>4, <2>5, <2>6, Zenon DEF c, PaysFor
    <3> QED
      BY <3>1, PaidFits, Zenon
  <2> QED
    BY <2>7 DEF g
<1> QED
  BY <1>7, <1>8 DEF Explained, hold, gained, next

(* A new order, of which the tape and the ledger know nothing.             *)
Joins(rows, n, e, next, tape, refs, bal) ==
    /\ n \in Nat /\ Terms(rows, n) /\ e = n + 1 /\ DOMAIN next = (1..n) \cup {e}
    /\ \A o \in 1..n : /\ next[o].user = rows[o].user
                       /\ next[o].side = rows[o].side
                       /\ next[o].locked = rows[o].locked
    /\ tape \in Seq(TapeRows) /\ On(tape, e) = {} /\ LockRef(e) \notin refs
    /\ Explained(bal, tape, rows, refs)
LEMMA GrownExplained ==
    ASSUME NEW rows, NEW n, NEW e, NEW next, NEW tape, NEW refs, NEW bal,
           Joins(rows, n, e, next, tape, refs, bal)
    PROVE  Explained(bal, tape, next, refs)
<1> USE DEF Joins
<1> SUFFICES ASSUME NEW x \in {Base, Quote}
             PROVE  Fits(bal, x, next, HeldIn(tape, next, refs), GainsIn(tape, next, x))
  BY DEF Explained
<1> DEFINE held == HeldIn(tape, rows, refs)
           hold == HeldIn(tape, next, refs)
           gain == GainsIn(tape, rows, x)
           gained == GainsIn(tape, next, x)
<1>1. /\ \A o \in 1..n : held[o] \in Int /\ hold[o] = held[o]
      /\ hold[e] = 0
  <2>1. \A o \in 1..n : held[o] \in Int
    BY HeldTyped
  <2>2. DOMAIN rows = 1..n
    BY DEF Terms
  <2> QED
    BY <2>1, <2>2 DEF HeldIn
<1>2. /\ \A o \in 1..n : gain[o] \in Int /\ gained[o] = gain[o]
      /\ gained[e] = 0
  <2>1. \A o \in 1..n : gain[o] \in Int
    BY HeldTyped
  <2>2. DOMAIN rows = 1..n
    BY DEF Terms
  <2>3. GainOn(tape, next[e].side, e, x) = 0
    BY NotOnTape
  <2> QED
    BY <2>1, <2>2, <2>3 DEF GainsIn
<1>3. e \notin 1..n /\ DOMAIN rows = 1..n
  BY DEF Terms
<1>4. Fits(bal, x, rows, held, gain)
  BY DEF Explained
<1> HIDE DEF held, hold, gain, gained
<1>5. ASSUME NEW u
      PROVE  /\ SumOf(hold, LockedFor(next, u, x)) = SumOf(held, LockedFor(rows, u, x))
             /\ SumOf(gained, OrdersOf(next, u)) = SumOf(gain, OrdersOf(rows, u))
  <2> DEFINE S == LockedFor(rows, u, x)
             T == OrdersOf(rows, u)
             S1 == LockedFor(next, u, x)
             T1 == OrdersOf(next, u)
  <2>1. /\ S \subseteq 1..n /\ T \subseteq 1..n
        /\ S1 = S \/ S1 = S \cup {e}
        /\ T1 = T \/ T1 = T \cup {e}
    BY <1>3 DEF LockedFor, OrdersOf
  <2>2. IsFiniteSet(S) /\ IsFiniteSet(T)
    BY <2>1, FiniteUpTo
  <2>3. /\ e \notin S /\ e \notin T
        /\ \A o \in S : held[o] \in Int /\ hold[o] = held[o]
        /\ \A o \in T : gain[o] \in Int /\ gained[o] = gain[o]
        /\ hold[e] = 0 /\ gained[e] = 0
    BY <1>1, <1>2, <1>3, <2>1
  <2> HIDE DEF S, T, S1, T1
  <2>4. SumOf(hold, S1) = SumOf(held, S)
    <3>1. Extends(S, e, S1, held, hold)
      BY <2>1, <2>2, <2>3 DEF Extends
    <3> QED
      BY <3>1, SumGrows
  <2>5. SumOf(gained, T1) = SumOf(gain, T)
    <3>1. Extends(T, e, T1, gain, gained)
      BY <2>1, <2>2, <2>3 DEF Extends
    <3> QED
      BY <3>1, SumGrows
  <2> QED
    BY <2>4, <2>5 DEF S, T, S1, T1
<1>6. GainsOf(next, gained) = GainsOf(rows, gain)
  BY <1>5 DEF GainsOf
<1>7. Fits(bal, x, next, hold, gained)
  BY <1>4, <1>5, <1>6, Zenon DEF Fits
<1> QED
  BY <1>7 DEF hold, gained

(* What is locked covers what each order holds of it.                      *)
LEMMA HeldCovers ==
    ASSUME NEW rows, NEW n \in Nat, Terms(rows, n), NEW tape, NEW refs, NEW bal,
           Explained(bal, tape, rows, refs),
           \A o \in 1..n : HeldIn(tape, rows, refs)[o] \in Nat, NEW a \in 1..n
    PROVE  HeldIn(tape, rows, refs)[a] <= bal[Locked(rows[a].user, AssetOf(rows[a].side))]
<1> DEFINE held == HeldIn(tape, rows, refs)
           y == AssetOf(rows[a].side)
           S == LockedFor(rows, rows[a].user, y)
<1>1. /\ a \in S /\ S \subseteq 1..n /\ rows[a].user \in Users /\ y \in {Base, Quote}
  BY DEF LockedFor, OrdersOf, Terms, AssetOf
<1>2. IsFiniteSet(S) /\ \A o \in S : held[o] \in Nat
  BY <1>1, FiniteUpTo
<1>3. bal[Locked(rows[a].user, y)] = SumOf(held, S)
  BY <1>1 DEF Explained, Fits
<1> HIDE DEF held, y, S
<1>4. held[a] <= SumOf(held, S)
  BY <1>1, <1>2, SumNat
<1> QED
  BY <1>3, <1>4 DEF held, y

-----------------------------------------------------------------------------
(* What the matching loop adds up.                                         *)

QuantitiesOf(fs) == [k \in DOMAIN fs |-> fs[k].quantity]
QuotesOf(fs) == [k \in DOMAIN fs |-> fs[k].quoteAmount]

QuantityUpTo(fs, k) == SumOf(QuantitiesOf(fs), 1..k)
QuoteUpTo(fs, k) == SumOf(QuotesOf(fs), 1..k)

LEMMA FillsNumbers ==
    ASSUME NEW fs \in Seq(BookFills)
    PROVE  /\ Len(fs) \in Nat /\ DOMAIN fs = 1..Len(fs)
           /\ \A k \in 1..Len(fs) :
                 /\ fs[k] \in BookFills
                 /\ fs[k].quantity \in Nat /\ fs[k].quoteAmount \in Nat
                 /\ QuantitiesOf(fs)[k] = fs[k].quantity
                 /\ QuotesOf(fs)[k] = fs[k].quoteAmount
<1>1. /\ Len(fs) \in Nat /\ DOMAIN fs = 1..Len(fs)
      /\ \A k \in 1..Len(fs) : fs[k] \in BookFills
  OBVIOUS
<1> QED
  BY <1>1 DEF BookFills, QuantitiesOf, QuotesOf

LEMMA UpToNext ==
    ASSUME NEW fs \in Seq(BookFills), NEW e \in 1..Len(fs), NEW k \in Nat, e = k + 1
    PROVE  /\ QuantityUpTo(fs, e) = QuantityUpTo(fs, k) + fs[e].quantity
           /\ QuoteUpTo(fs, e) = QuoteUpTo(fs, k) + fs[e].quoteAmount
<1> DEFINE f == QuantitiesOf(fs)
           g == QuotesOf(fs)
<1>1. \A j \in 1..(k + 1) : f[j] \in Int /\ g[j] \in Int
  BY FillsNumbers
<1>2. f[k + 1] = fs[e].quantity /\ g[k + 1] = fs[e].quoteAmount
  BY FillsNumbers
<1> HIDE DEF f, g
<1>3. SumOf(f, 1..(k + 1)) = SumOf(f, 1..k) + f[k + 1]
  BY <1>1, SumNext
<1>4. SumOf(g, 1..(k + 1)) = SumOf(g, 1..k) + g[k + 1]
  BY <1>1, SumNext
<1> QED
  BY <1>2, <1>3, <1>4 DEF f, g, QuantityUpTo, QuoteUpTo

LEMMA UpToNone == \A fs : QuantityUpTo(fs, 0) = 0 /\ QuoteUpTo(fs, 0) = 0
<1>1. \A f : SumOf(f, {}) = 0
  BY FS_EmptySet, SumUnfolds
<1>2. 1..0 = {}
  OBVIOUS
<1> QED
  BY <1>1, <1>2 DEF QuantityUpTo, QuoteUpTo

LEMMA UpToBounds ==
    ASSUME NEW fs \in Seq(BookFills), NEW n, n = Len(fs), NEW k \in 0..n
    PROVE  /\ QuantityUpTo(fs, k) \in Nat /\ QuantityUpTo(fs, k) <= QuantityUpTo(fs, n)
           /\ QuoteUpTo(fs, k) \in Nat /\ QuoteUpTo(fs, k) <= QuoteUpTo(fs, n)
<1> DEFINE f == QuantitiesOf(fs)
           g == QuotesOf(fs)
<1>1. n \in Nat /\ \A j \in 1..n : f[j] \in Nat /\ g[j] \in Nat
  BY FillsNumbers
<1> HIDE DEF f, g
<1>2. SumOf(f, 1..k) \in Nat /\ SumOf(f, 1..k) <= SumOf(f, 1..n)
  BY <1>1, SumPrefix
<1>3. SumOf(g, 1..k) \in Nat /\ SumOf(g, 1..k) <= SumOf(g, 1..n)
  BY <1>1, SumPrefix
<1> QED
  BY <1>2, <1>3 DEF f, g, QuantityUpTo, QuoteUpTo

(* A longer list with the same first entries has the same first totals.    *)
LEMMA UpToSame ==
    ASSUME NEW fs \in Seq(BookFills), NEW gs \in Seq(BookFills),
           NEW n \in Nat, n <= Len(fs), n <= Len(gs), \A j \in 1..n : gs[j] = fs[j]
    PROVE  /\ QuantityUpTo(gs, n) = QuantityUpTo(fs, n)
           /\ QuoteUpTo(gs, n) = QuoteUpTo(fs, n)
<1>1. /\ \A j \in 1..n : /\ QuantitiesOf(fs)[j] = fs[j].quantity
                         /\ QuotesOf(fs)[j] = fs[j].quoteAmount
      /\ \A j \in 1..n : /\ QuantitiesOf(gs)[j] = gs[j].quantity
                         /\ QuotesOf(gs)[j] = gs[j].quoteAmount
      /\ \A j \in 1..n : fs[j].quantity \in Int /\ fs[j].quoteAmount \in Int
  BY FillsNumbers
<1>2. IsFiniteSet(1..n)
  BY FS_Interval
<1> DEFINE S == 1..n
           f == QuantitiesOf(fs)
           g == QuotesOf(fs)
           v == QuantitiesOf(gs)
           w == QuotesOf(gs)
<1>3. \A j \in S : f[j] \in Int /\ g[j] \in Int /\ v[j] = f[j] /\ w[j] = g[j]
  BY <1>1
<1>4. IsFiniteSet(S)
  BY <1>2
<1> HIDE DEF S, f, g, v, w
<1>5. SumOf(v, S) = SumOf(f, S) /\ SumOf(w, S) = SumOf(g, S)
  BY <1>3, <1>4, SumSame
<1> QED
  BY <1>5 DEF S, f, g, v, w, QuantityUpTo, QuoteUpTo

(* A fill takes something of a resting order and is worth something.       *)
Filling(m, f) ==
    /\ f.maker = m.id /\ f.price = m.price
    /\ f.quantity > 0 /\ f.quantity <= m.remaining
    /\ f.quoteAmount > 0 /\ f.quoteAmount = quoteFloor(f.price, f.quantity)

Consumed(t, f) == IF BudgetDriven(t) THEN f.quoteAmount ELSE f.quantity

FillAdded(t, m, l, n, f) ==
    /\ n.fills = Append(l.fills, f) /\ Filling(m, f)
    /\ n.filled = l.filled + f.quantity /\ n.quote = l.quote + f.quoteAmount
    /\ n.remaining = l.remaining - Consumed(t, f) /\ n.remaining >= 0

LEMMA TurnAdds ==
    ASSUME NEW t, NEW l \in Loops, NEW m \in Resters, NEW n, n = LoopBody(t, l, m)
    PROVE  \/ /\ n.fills = l.fills /\ n.filled = l.filled /\ n.quote = l.quote
              /\ n.remaining = l.remaining
           \/ \E f \in BookFills : FillAdded(t, m, l, n, f)
<1>1. CASE n = l
  BY <1>1
<1>2. CASE n = [l EXCEPT !.stop = TRUE]
  BY <1>2 DEF Loops
<1>3. CASE /\ ~Breaks(t, l, m) /\ ~(m.remaining <= 0)
           /\ n = Fill(t, l, m)
  <2> DEFINE q == FillQuantity(t, l, m)
             a == quoteFloor(m.price, q)
             f == [maker |-> m.id, price |-> m.price, quantity |-> q, quoteAmount |-> a]
             x == l.filled + q
             y == l.quote + a
             z == l.remaining - (IF BudgetDriven(t) THEN a ELSE q)
             fs == Append(l.fills, f)
             aff == (l.remaining * QScale) \div m.price
  <2>1. /\ l.remaining \in Int /\ m.price \in Nat /\ m.remaining \in Nat /\ m.id \in Nat
        /\ QScale \in Nat \ {0}
    BY QScaleAssumption DEF Loops, Resters
  <2>2. l.remaining \in Nat /\ ~(q <= 0) /\ ~(a <= 0)
    BY <1>3, <2>1 DEF Breaks
  <2>3. l.remaining * QScale \in Nat
    BY <2>1, <2>2
  <2>4. m.price # 0 => aff \in Nat /\ aff * m.price <= l.remaining * QScale
    BY <2>1, <2>3, Floored
  <2>5. /\ ~BudgetDriven(t) => q = LeastOf(m.remaining, l.remaining)
        /\ BudgetDriven(t) /\ m.price # 0 => q = LeastOf(m.remaining, aff)
        /\ BudgetDriven(t) /\ m.price = 0 => q = LeastOf(m.remaining, m.remaining)
    BY DEF FillQuantity, Affordable, NoPrice
  <2> HIDE DEF q, aff
  <2>6. q \in Nat /\ q <= m.remaining
    BY <2>1, <2>2, <2>4, <2>5 DEF LeastOf
  <2>7. a \in Nat /\ (m.price = 0 => a = 0)
    BY <2>1, <2>6, FloorOfNothing
  <2>8. a * QScale <= m.price * q
    <3>1. m.price * q \in Nat
      BY <2>1, <2>6
    <3>2. ((m.price * q) \div QScale) * QScale <= m.price * q
      BY <2>1, <3>1, Floored
    <3> QED
      BY <3>2 DEF quoteFloor
  <2>9. a = quoteFloor(m.price, q)
    OBVIOUS
  <2> HIDE DEF a
  <2>10. m.price # 0
    BY <2>2, <2>7
  <2>11. z \in Int /\ z >= 0
    <3>1. CASE ~BudgetDriven(t)
      BY <2>1, <2>2, <2>5, <2>6, <3>1 DEF LeastOf
    <3>2. CASE BudgetDriven(t)
      <4>1. aff \in Nat /\ aff * m.price <= l.remaining * QScale
        BY <2>4, <2>10
      <4>2. q <= aff
        BY <2>1, <2>5, <2>10, <3>2, <4>1 DEF LeastOf
      <4>3. m.price * q <= aff * m.price
        BY <2>1, <2>6, <4>1, <4>2
      <4>4. a * QScale <= l.remaining * QScale
        <5> DEFINE A == a * QScale
                   B == m.price * q
                   C == aff * m.price
                   D == l.remaining * QScale
        <5>1. A \in Int /\ B \in Int /\ C \in Int /\ D \in Int /\ A <= B /\ B <= C /\ C <= D
          BY <2>1, <2>3, <2>6, <2>7, <2>8, <4>1, <4>3
        <5> HIDE DEF A, B, C, D
        <5>2. A <= D
          BY <5>1
        <5> QED
          BY <5>2 DEF A, D
      <4>5. a <= l.remaining
        BY <2>1, <2>2, <2>7, <4>4
      <4> QED
        BY <2>1, <2>7, <3>2, <4>5
    <3> QED
      BY <3>1, <3>2
  <2>12. n = [l EXCEPT !.fills = fs, !.filled = x, !.quote = y, !.remaining = z]
    BY <1>3 DEF Fill, q, a
  <2>13. f \in BookFills /\ Filling(m, f) /\ f.quantity = q /\ f.quoteAmount = a
    BY <2>1, <2>2, <2>6, <2>7, <2>9 DEF BookFills, Filling
  <2>14. fs = Append(l.fills, f) /\ x = l.filled + f.quantity /\ y = l.quote + f.quoteAmount
         /\ z = l.remaining - Consumed(t, f)
    BY <2>13 DEF Consumed
  <2> HIDE DEF f, fs, x, y, z
  <2>15. n.fills = fs /\ n.filled = x /\ n.quote = y /\ n.remaining = z
    BY <2>12 DEF Loops
  <2> QED
    BY <2>11, <2>13, <2>14, <2>15 DEF FillAdded
<1> QED
  BY <1>1, <1>2, <1>3 DEF LoopBody

(* What the loop has spent of what the taker came with.                    *)
LeftOf(t, l) == IF BudgetDriven(t) THEN t.budget - l.quote ELSE t.quantity - l.filled

FillsTotal(l) ==
    /\ l.filled = QuantityUpTo(l.fills, Len(l.fills))
    /\ l.quote = QuoteUpTo(l.fills, Len(l.fills))

LEMMA TurnTotals ==
    ASSUME NEW t, t.quantity \in Nat, t.budget \in Nat,
           NEW l \in Loops, FillsTotal(l), l.remaining = LeftOf(t, l),
           NEW m, NEW n \in Loops, NEW f \in BookFills, FillAdded(t, m, l, n, f)
    PROVE  FillsTotal(n) /\ n.remaining = LeftOf(t, n)
<1> DEFINE c == Len(l.fills)
           e == c + 1
<1>1. /\ l.fills \in Seq(BookFills) /\ l.filled \in Nat /\ l.quote \in Nat
      /\ f.quantity \in Nat /\ f.quoteAmount \in Nat
  BY DEF Loops, BookFills
<1>2. /\ c \in Nat /\ e \in 1..Len(n.fills) /\ e = Len(n.fills)
      /\ n.fills \in Seq(BookFills) /\ n.fills[e] = f
      /\ \A j \in 1..c : n.fills[j] = l.fills[j]
  <2>1. n.fills = Append(l.fills, f)
    BY DEF FillAdded
  <2> QED
    BY <1>1, <2>1
<1>3. /\ QuantityUpTo(n.fills, e) = QuantityUpTo(n.fills, c) + f.quantity
      /\ QuoteUpTo(n.fills, e) = QuoteUpTo(n.fills, c) + f.quoteAmount
  BY <1>2, UpToNext
<1>4. /\ QuantityUpTo(n.fills, c) = l.filled /\ QuoteUpTo(n.fills, c) = l.quote
  <2>1. c <= Len(l.fills) /\ c <= Len(n.fills)
    BY <1>2
  <2>2. /\ QuantityUpTo(n.fills, c) = QuantityUpTo(l.fills, c)
        /\ QuoteUpTo(n.fills, c) = QuoteUpTo(l.fills, c)
    BY <1>1, <1>2, <2>1, UpToSame
  <2> QED
    BY <2>2 DEF FillsTotal
<1>5. FillsTotal(n)
  BY <1>2, <1>3, <1>4 DEF FillsTotal, FillAdded
<1>6. n.remaining = LeftOf(t, n)
  BY <1>1 DEF FillAdded, LeftOf, Consumed
<1> QED
  BY <1>5, <1>6

LEMMA MatchAdds ==
    ASSUME NEW t, t.quantity \in Nat, t.budget \in Nat,
           NEW n \in Nat, NEW b \in [1..n -> Resters],
           NEW r, r = matchOrder(t, b)
    PROVE  /\ r.filledQuantity = QuantityUpTo(r.fills, Len(r.fills))
           /\ r.quoteTotal = QuoteUpTo(r.fills, Len(r.fills))
           /\ IF BudgetDriven(t) THEN r.quoteTotal <= t.budget
                                 ELSE r.filledQuantity <= t.quantity
           /\ \A j \in DOMAIN r.fills : \E k \in 1..n : Filling(b[k], r.fills[j])
<1> DEFINE L(k) == Loop(t, b)[1..k]
           Sound(l) == /\ l \in Loops /\ FillsTotal(l)
                       /\ l.remaining = LeftOf(t, l) /\ l.remaining >= 0
                       /\ \A j \in DOMAIN l.fills :
                             \E h \in 1..n : Filling(b[h], l.fills[j])
           S == {k \in Nat : k <= n => Sound(L(k))}
<1>1. DOMAIN b = 1..n
  OBVIOUS
<1>2. /\ L(0) = LoopStart(t)
      /\ \A k \in 1..n : L(k) = LoopBody(t, L(k - 1), b[k])
  <2>1. 1..0 = {}
    OBVIOUS
  <2> QED
    BY <1>1, <2>1, LoopUnfolds
<1> HIDE DEF L
<1>3. 0 \in S
  <2>1. PICK z \in Nat : z = IF BudgetDriven(t) THEN t.budget ELSE t.quantity
    OBVIOUS
  <2>2. L(0) = [remaining |-> z, fills |-> << >>, filled |-> 0, quote |-> 0,
                stop |-> FALSE]
    BY <1>2, <2>1 DEF LoopStart
  <2>3. << >> \in Seq(BookFills)
    OBVIOUS
  <2>4. [remaining |-> z, fills |-> << >>, filled |-> 0, quote |-> 0,
          stop |-> FALSE] \in Loops
    BY <2>3 DEF Loops
  <2>5. /\ L(0) \in Loops /\ L(0).fills = << >> /\ L(0).filled = 0 /\ L(0).quote = 0
        /\ L(0).remaining = z
    <3> DEFINE s == [remaining |-> z, fills |-> << >>, filled |-> 0, quote |-> 0,
                     stop |-> FALSE]
    <3>1. /\ s \in Loops /\ s.fills = << >> /\ s.filled = 0 /\ s.quote = 0
          /\ s.remaining = z
      BY <2>4
    <3>2. L(0) = s
      BY <2>2
    <3> HIDE DEF s
    <3> QED
      BY <3>1, <3>2
  <2>6. DOMAIN L(0).fills = {} /\ Len(L(0).fills) = 0
    BY <2>5
  <2>7. FillsTotal(L(0))
    BY <2>5, <2>6, UpToNone DEF FillsTotal
  <2>8. L(0).remaining = LeftOf(t, L(0)) /\ L(0).remaining >= 0
    BY <2>1, <2>5 DEF LeftOf
  <2> QED
    BY <2>5, <2>6, <2>7, <2>8
<1>4. ASSUME NEW k \in 0..(n - 1), k \in S PROVE k + 1 \in S
  <2> DEFINE l == L(k)
             x == L(k + 1)
             m == b[k + 1]
  <2>1. Sound(l)
    BY <1>4
  <2>2. k + 1 \in 1..n /\ m \in Resters
    BY <1>4
  <2>3. x = LoopBody(t, l, m)
    BY <1>2, <2>2
  <2> HIDE DEF l, x, m
  <2>4. x \in Loops
    BY <2>1, <2>2, <2>3, TurnFills
  <2>5. CASE /\ x.fills = l.fills /\ x.filled = l.filled /\ x.quote = l.quote
             /\ x.remaining = l.remaining
    <3>1. FillsTotal(x) /\ x.remaining = LeftOf(t, x)
      BY <2>1, <2>5 DEF FillsTotal, LeftOf
    <3> QED
      BY <2>1, <2>4, <2>5, <3>1 DEF x
  <2>6. CASE \E f \in BookFills : FillAdded(t, m, l, x, f)
    <3>1. PICK f \in BookFills : FillAdded(t, m, l, x, f)
      BY <2>6
    <3>2. l.fills \in Seq(BookFills) /\ x.fills = Append(l.fills, f) /\ Filling(m, f)
          /\ x.remaining >= 0
      BY <2>1, <3>1 DEF Loops, FillAdded
    <3>3. /\ x.fills[Len(l.fills) + 1] = f
          /\ \A j \in DOMAIN x.fills : j = Len(l.fills) + 1 \/ j \in DOMAIN l.fills
          /\ \A j \in DOMAIN l.fills : x.fills[j] = l.fills[j]
      BY <3>2
    <3>4. \A j \in DOMAIN x.fills : \E h \in 1..n : Filling(b[h], x.fills[j])
      BY <2>1, <2>2, <3>2, <3>3 DEF m
    <3>5. FillsTotal(x) /\ x.remaining = LeftOf(t, x)
      BY <2>1, <2>4, <3>1, TurnTotals
    <3> QED
      BY <2>4, <3>2, <3>4, <3>5 DEF x
  <2> QED
    BY <2>1, <2>2, <2>3, <2>5, <2>6, TurnAdds
<1> HIDE DEF S
<1>5. \A k \in 0..n : k \in S
  BY <1>3, <1>4, InductionUpTo
<1>6. Sound(L(n))
  <2>1. n \in S
    BY <1>5
  <2> QED
    BY <2>1 DEF S
<1>7. r = [fills |-> L(n).fills, filledQuantity |-> L(n).filled,
           quoteTotal |-> L(n).quote]
  BY <1>1, MatchIsLoop DEF L
<1>8. /\ L(n).filled \in Nat /\ L(n).quote \in Nat
      /\ LeftOf(t, L(n)) >= 0 /\ FillsTotal(L(n))
      /\ \A j \in DOMAIN L(n).fills : \E h \in 1..n : Filling(b[h], L(n).fills[j])
  BY <1>6 DEF Loops
<1>9. /\ r.fills = L(n).fills /\ r.filledQuantity = L(n).filled
      /\ r.quoteTotal = L(n).quote
  BY <1>7
<1>10. IF BudgetDriven(t) THEN r.quoteTotal <= t.budget ELSE r.filledQuantity <= t.quantity
  BY <1>8, <1>9 DEF LeftOf
<1> QED
  BY <1>8, <1>9, <1>10 DEF FillsTotal

-----------------------------------------------------------------------------
(* What an order may spend, and what it locked.                            *)

InBounds(row, quantity, quote) ==
    /\ IF BudgetDriven(row) THEN quote <= row.budget ELSE quantity <= row.quantity
    /\ row.type = "LIMIT" /\ row.side = "BUY" => quote * QScale <= row.price * quantity

LEMMA LockSuffices ==
    ASSUME NEW row \in OrderRows, row.locked = computeLockRequirement(row),
           NEW q \in Nat, NEW a \in Nat, InBounds(row, q, a)
    PROVE  (IF row.side = "BUY" THEN a ELSE q) <= row.locked
<1>1. /\ row.side \in {"BUY", "SELL"} /\ row.type \in {"LIMIT", "MARKET"}
      /\ row.price \in Nat /\ row.quantity \in Nat /\ row.budget \in Nat
      /\ QScale \in Nat \ {0}
  BY QScaleAssumption DEF OrderRows
<1>2. CASE row.side = "SELL"
  BY <1>1, <1>2 DEF InBounds, BudgetDriven, computeLockRequirement
<1>3. CASE row.side = "BUY" /\ row.type = "MARKET"
  BY <1>1, <1>3 DEF InBounds, BudgetDriven, computeLockRequirement
<1>4. CASE row.side = "BUY" /\ row.type = "LIMIT"
  <2> DEFINE p == row.price
             N == p * row.quantity
             c == (N + QScale - 1) \div QScale
  <2>1. row.locked = c
    BY <1>1, <1>4 DEF computeLockRequirement, quoteCeil
  <2>2. q <= row.quantity /\ a * QScale <= p * q
    BY <1>1, <1>4 DEF InBounds, BudgetDriven
  <2>3. N \in Nat /\ p * q <= N
    BY <1>1, <2>2
  <2>4. N + QScale - 1 \in Nat
    BY <1>1, <2>3
  <2>5. c \in Nat /\ N + QScale - 1 < c * QScale + QScale
    BY <1>1, <2>4, Floored
  <2> HIDE DEF c, N
  <2>6. p * q \in Nat /\ a * QScale \in Nat /\ c * QScale \in Nat
    BY <1>1, <2>5
  <2>7. N < c * QScale + 1
    BY <1>1, <2>3, <2>5, <2>6
  <2>8. a * QScale <= c * QScale
    <3> DEFINE A == a * QScale
               B == p * q
               C == c * QScale
    <3>1. A \in Int /\ B \in Int /\ C \in Int /\ N \in Int /\ A <= B /\ B <= N /\ N < C + 1
      BY <2>2, <2>3, <2>6, <2>7
    <3> HIDE DEF A, B, C
    <3>2. A <= C
      BY <3>1
    <3> QED
      BY <3>2 DEF A, C
  <2>9. a <= c
    BY <1>1, <2>5, <2>8
  <2> QED
    BY <1>4, <2>1, <2>9
<1> QED
  BY <1>1, <1>2, <1>3, <1>4

(* The notional of a price in whole quote units is exact.                  *)
LEMMA ExactFloor ==
    ASSUME NEW k \in Nat, NEW q \in Nat, NEW p, p = k * QScale
    PROVE  quoteFloor(p, q) * QScale = p * q
<1>1. QScale \in Nat \ {0} /\ p \in Nat /\ p * q \in Nat /\ k * q \in Nat
  BY QScaleAssumption
<1> DEFINE c == quoteFloor(p, q)
           x == k * q
           N == p * q
<1>2. c \in Nat /\ c * QScale <= N /\ N < c * QScale + QScale
  BY <1>1, Floored DEF quoteFloor
<1>3. N = x * QScale
  BY <1>1
<1> HIDE DEF c, x, N
<1>4. x \in Nat
  BY <1>1 DEF x
<1>5. c * QScale <= x * QScale /\ x * QScale < (c + 1) * QScale
  BY <1>1, <1>2, <1>3, <1>4
<1>6. c <= x /\ x < c + 1
  BY <1>1, <1>2, <1>4, <1>5
<1>7. c = x
  BY <1>2, <1>4, <1>6
<1> QED
  BY <1>3, <1>7 DEF c, N

(* A fee is less than what it is charged on.                               *)
LEMMA FeeBelow ==
    ASSUME NEW n \in Nat \ {0}, NEW bps \in Nat, bps < 10000
    PROVE  computeFee(n, bps) \in Nat /\ computeFee(n, bps) < n
<1> DEFINE c == (n * bps) \div 10000
<1>1. n * bps \in Nat /\ n * bps < n * 10000
  OBVIOUS
<1>2. c \in Nat /\ c * 10000 <= n * bps
  BY <1>1, Floored
<1> HIDE DEF c
<1>3. c * 10000 < n * 10000
  BY <1>1, <1>2
<1>4. c < n
  BY <1>2, <1>3
<1> QED
  BY <1>2, <1>4 DEF c, computeFee

(* A fill within the limit of an order keeps its price bound.              *)
LEMMA BoundGrows ==
    ASSUME NEW P \in Nat, NEW p \in Nat, p <= P, NEW Q \in Nat, NEW A \in Nat,
           NEW q \in Nat, NEW a \in Nat, A * QScale <= P * Q, a * QScale = p * q
    PROVE  (A + a) * QScale <= P * (Q + q)
<1>1. QScale \in Nat
  BY QScaleAssumption
<1>2. p * q <= P * q
  OBVIOUS
<1>3. (A + a) * QScale = A * QScale + a * QScale /\ P * (Q + q) = P * Q + P * q
  BY <1>1
<1> DEFINE u == A * QScale
           v == a * QScale
           w == P * Q
           x == P * q
<1>4. u \in Int /\ v \in Int /\ w \in Int /\ x \in Int /\ u <= w /\ v <= x
  BY <1>1, <1>2
<1> HIDE DEF u, v, w, x
<1>5. u + v <= w + x
  BY <1>4
<1> QED
  BY <1>3, <1>5 DEF u, v, w, x

-----------------------------------------------------------------------------
(* The invariant behind the money, when requests come one at a time and    *)
(* nothing fails.                                                          *)

(* A pass that has its fills.                                              *)
Matching == Settling \cup {"finalize"}

(* The number of its fills that the ledger has.                            *)
DoneWith(pc) == IF pc \in {"trade", "maker", "makerRelease"} THEN pass.next ELSE pass.next - 1

(* The row of maker m lags behind by the current fill.                     *)
Awaits(m) == \E o \in Orders : place[o] \in {"trade", "maker"} /\ CurrentFill.maker = m

(* What an order traded as the rows and the pass have it ...               *)
KnownQuantity(m) ==
    IF place[m] \in Matching THEN QuantityUpTo(pass.fills, DoneWith(place[m]))
    ELSE orders[m].filled + (IF Awaits(m) THEN CurrentFill.quantity ELSE 0)

KnownQuote(m) ==
    IF place[m] \in Matching THEN QuoteUpTo(pass.fills, DoneWith(place[m]))
    ELSE orders[m].spent + (IF Awaits(m) THEN CurrentFill.quoteAmount ELSE 0)

(* ... is what it traded.                                                  *)
Booked ==
    \A m \in Orders : /\ QuantityOn(Moved, m) = KnownQuantity(m)
                      /\ QuoteOn(Moved, m) = KnownQuote(m)

(* A fill that the trades table will take.                                 *)
Whole(f) == f.quantity > 0 /\ f.quoteAmount > 0 /\ TradeRowAllowed(f)

(* The totals of a pass are those of its fills, within what the taker came *)
(* with, and its makers have what it will take of them.                    *)
FillsDue(k) ==
    \A j \in DOMAIN pass.fills :
        j >= k => pass.fills[j].quantity <= Remaining(pass.fills[j].maker)

PassAdds ==
    \A o \in Orders : place[o] \in Matching =>
        /\ \A j \in DOMAIN pass.fills : Whole(pass.fills[j])
        /\ pass.filled = QuantityUpTo(pass.fills, Len(pass.fills))
        /\ pass.quote = QuoteUpTo(pass.fills, Len(pass.fills))
        /\ IF BudgetDriven(orders[o]) THEN pass.quote <= orders[o].budget
                                      ELSE pass.filled <= orders[o].quantity
        /\ place[o] = "finalize" => pass.next = Len(pass.fills) + 1
        /\ FillsDue(Due(place[o]))

(* What an order traded never exceeds what it locked.                      *)
Covered ==
    \A o \in Orders :
        /\ InBounds(orders[o], QuantityOn(Moved, o), QuoteOn(Moved, o))
        /\ orders[o].locked = computeLockRequirement(orders[o])
        /\ \E k \in Nat : orders[o].price = k * QScale

(* An order that has not met the book traded nothing.                      *)
Fresh ==
    \A o \in Orders : place[o] \in {"lock", "open", "enqueue", "waiting"} =>
        orders[o].filled = 0 /\ orders[o].spent = 0

(* A close that still has to give back the surplus.                        *)
Releasing(o) ==
    \/ place[o] = "takerRelease"
    \/ cancel[o] = "release"
    \/ \E x \in Orders : place[x] = "makerRelease" /\ CurrentFill.maker = o

(* What the references of the ledger say of the orders.                    *)
Referenced ==
    /\ \A o \in Orders :
          /\ LockRef(o) \in posted => place[o] \notin {"lock", "reject"}
          /\ UnlockRef(o) \in posted => orders[o].status \in Terminal
          /\ orders[o].status = "PENDING" => place[o] \in {"lock", "reject", "open"}
          /\ Releasing(o) => /\ orders[o].status \in Terminal
                             /\ LockRef(o) \in posted /\ UnlockRef(o) \notin posted
    /\ \A t, m \in Orders : TradeRef(t, m) \in posted =>
          \E k \in DOMAIN Moved : Moved[k].taker = t /\ Moved[k].maker = m

(* A closed order gave back what it did not spend, or is about to.         *)
GivenBack ==
    \A o \in Orders : orders[o].status \in Terminal =>
        \/ Releasing(o)
        \/ LockRef(o) \notin posted
        \/ UnlockRef(o) \in posted
        \/ Surplus(o) <= 0

Ledgered == Booked /\ PassAdds /\ Covered /\ Fresh /\ Referenced /\ GivenBack

(* The instances in which all that matters to money is the requests.       *)
Sequential ==
    /\ MaxInFlight = 1 /\ MaxErrors = 0 /\ MaxCrashes = 0
    /\ IsFiniteSet(Users) /\ FeeKind
    /\ TakerBps < 10000 /\ MakerBps < 10000
    /\ \A input \in OrderInputs : \E k \in Nat : input.price = k * QScale

-----------------------------------------------------------------------------
(* Types, and what a step leaves alone.                                    *)

LEMMA TapeTyped ==
    ASSUME TypeOK
    PROVE  trades \in Seq(TapeRows)
<1>1. trades \in Seq(TradeRows) /\ Orders \subseteq Nat
  BY TypeParts, RowsTyped
<1>2. TradeRows \subseteq TapeRows
  BY <1>1 DEF TradeRows, TapeRows
<1> QED
  BY <1>1, <1>2, SeqSubset

LEMMA PassTyped ==
    ASSUME TypeOK
    PROVE  /\ pass.fills \in Seq(BookFills) /\ pass.next \in Nat \ {0}
           /\ Len(pass.fills) \in Nat /\ DOMAIN pass.fills = 1..Len(pass.fills)
<1>1. /\ pass.fills \in Seq(FillRecords) /\ pass.next \in Nat \ {0} /\ Orders \subseteq Nat
      /\ Len(pass.fills) \in Nat /\ DOMAIN pass.fills = 1..Len(pass.fills)
  BY TypeParts, RowsTyped, PassFacts
<1>2. FillRecords \subseteq BookFills
  BY <1>1 DEF FillRecords, BookFills
<1> QED
  BY <1>1, <1>2, SeqSubset

LEMMA TermsTyped ==
    ASSUME TypeOK, NEW n, n = Len(orders)
    PROVE  n \in Nat /\ Orders = 1..n /\ Terms(orders, n)
<1>1. orders \in Seq(OrderRows)
  BY TypeParts
<1> QED
  BY <1>1, RowsTyped DEF Terms

(* The row of the current fill, and whose it is.                           *)
LEMMA RowTyped ==
    ASSUME IInv, NEW o \in Orders, place[o] \in {"settle", "trade", "maker", "makerRelease"},
           NEW row, row = TradeRow(o, CurrentFill), NEW m, m = CurrentFill.maker
    PROVE  /\ row \in TapeRows /\ row.taker = o /\ row.maker = m
           /\ row.quantity = CurrentFill.quantity /\ row.quoteAmount = CurrentFill.quoteAmount
           /\ m \in Orders /\ o # m /\ \A x : Party(row, x) <=> x \in {o, m}
           /\ FeeOf(row, Buyer(o, m)) = buyerFee(o, CurrentFill)
           /\ FeeOf(row, Seller(o, m)) = sellerFee(o, CurrentFill)
<1> DEFINE f == CurrentFill
<1>1. /\ f.maker \in Orders /\ f.price \in Nat /\ f.quantity \in Nat /\ f.quoteAmount \in Nat
      /\ FillSound(o, f)
  BY CurrentFacts
<1>2. buyerFee(o, f) \in Nat /\ sellerFee(o, f) \in Nat
  BY <1>1, FeesNat
<1>3. Orders \subseteq Nat /\ orders[o].side \in {"BUY", "SELL"} /\ orders[m].side \in {"BUY", "SELL"}
  BY <1>1, RowsTyped, TypeParts DEF IInv
<1>4. orders[o].side # orders[m].side /\ o # m
  BY <1>1 DEF FillSound
<1> HIDE DEF f
<1>5. /\ row.taker = o /\ row.maker = m /\ row.price = f.price
      /\ row.quantity = f.quantity /\ row.quoteAmount = f.quoteAmount
      /\ row.makerFee = IF orders[m].side = "BUY" THEN buyerFee(o, f) ELSE sellerFee(o, f)
      /\ row.takerFee = IF orders[m].side = "BUY" THEN sellerFee(o, f) ELSE buyerFee(o, f)
  BY DEF TradeRow, f
<1>6. row \in TapeRows
  <2>1. row.makerFee \in Nat /\ row.takerFee \in Nat
    BY <1>2, <1>5
  <2>2. row = [taker |-> row.taker, maker |-> row.maker, price |-> row.price,
               quantity |-> row.quantity, quoteAmount |-> row.quoteAmount,
               makerFee |-> row.makerFee, takerFee |-> row.takerFee]
    BY DEF TradeRow
  <2>3. row.taker \in Nat /\ row.maker \in Nat /\ row.price \in Nat /\ row.quantity \in Nat
        /\ row.quoteAmount \in Nat
    BY <1>1, <1>3, <1>5 DEF f
  <2> QED
    BY <2>1, <2>2, <2>3 DEF TapeRows
<1>7. /\ FeeOf(row, Buyer(o, m)) = buyerFee(o, f)
      /\ FeeOf(row, Seller(o, m)) = sellerFee(o, f)
  BY <1>3, <1>4, <1>5 DEF FeeOf, Buyer, Seller
<1> QED
  BY <1>1, <1>4, <1>5, <1>6, <1>7 DEF Party, f

LEMMA MovedAt ==
    ASSUME IInv, NEW o \in Orders, place[o] = "trade"
    PROVE  Moved = Append(trades, TradeRow(o, CurrentFill))
<1>1. Holds("place", o)
  BY DEF IInv, Chain, MarketLockExclusive, InPass
<1>2. Head(queue).order = o
  BY <1>1 DEF Holds, Task
<1> QED
  BY <1>2 DEF Moved

LEMMA MovedElse ==
    /\ (\A x \in Orders : place[x] # "trade") => Moved = trades
    /\ (\A x \in Orders' : place'[x] # "trade") => Moved' = trades'
BY DEF Moved

LEMMA MovedTyped ==
    ASSUME IInv
    PROVE  Moved \in Seq(TapeRows)
<1>1. trades \in Seq(TapeRows)
  BY TapeTyped DEF IInv
<1>2. CASE \E o \in Orders : place[o] = "trade"
  <2>1. PICK o \in Orders : place[o] = "trade"
    BY <1>2
  <2>2. Moved = Append(trades, TradeRow(o, CurrentFill))
    BY <2>1, MovedAt
  <2>3. TradeRow(o, CurrentFill) \in TapeRows
    BY <2>1, RowTyped
  <2> QED
    BY <1>1, <2>2, <2>3
<1>3. CASE ~ \E o \in Orders : place[o] = "trade"
  BY <1>1, <1>3, MovedElse
<1> QED
  BY <1>2, <1>3

(* Under way alone.                                                        *)
LEMMA OthersEnded ==
    ASSUME OneRequest, NEW o \in Orders, place[o] \notin Ended
    PROVE  /\ \A x \in Orders : x # o => place[x] \in Ended
           /\ \A x \in Orders : cancel[x] \in Ended
BY DEF OneRequest

(* The terms of an order, the amounts it reserved from and by included.    *)
TermsKept ==
    /\ RowsKept
    /\ \A m \in Orders : /\ orders'[m].locked = orders[m].locked
                         /\ orders'[m].budget = orders[m].budget

LEMMA TermsUntouched ==
    ASSUME TypeOK, orders' = orders
    PROVE  TermsKept
BY RowsUntouched DEF TermsKept

LEMMA BackedStays ==
    ASSUME Backed, TermsKept, balance' = balance, posted' = posted, Moved' = Moved
    PROVE  Backed'
<1>1. Explained(balance, Moved, orders, posted)
  BY DEF Backed
<1>2. DOMAIN orders' = DOMAIN orders
  BY DEF TermsKept, RowsKept, Orders
<1>3. \A o \in DOMAIN orders : /\ orders'[o].user = orders[o].user
                               /\ orders'[o].side = orders[o].side
                               /\ orders'[o].locked = orders[o].locked
  BY DEF TermsKept, RowsKept, SameTerms, Orders
<1>4. Explained(balance, Moved, orders', posted)
  BY <1>1, <1>2, <1>3, SameExplained
<1> QED
  BY <1>4, BackedNext

LEMMA CoveredStays ==
    ASSUME Covered, TermsKept, Moved' = Moved
    PROVE  Covered'
<1>1. Orders' = Orders
  BY DEF TermsKept, RowsKept
<1> SUFFICES ASSUME NEW o \in Orders
             PROVE  /\ InBounds(orders'[o], QuantityOn(Moved', o), QuoteOn(Moved', o))
                    /\ orders'[o].locked = computeLockRequirement(orders'[o])
                    /\ \E k \in Nat : orders'[o].price = k * QScale
  BY <1>1 DEF Covered
<1>2. /\ InBounds(orders[o], QuantityOn(Moved, o), QuoteOn(Moved, o))
      /\ orders[o].locked = computeLockRequirement(orders[o])
      /\ \E k \in Nat : orders[o].price = k * QScale
  BY DEF Covered
<1>3. /\ orders'[o].side = orders[o].side /\ orders'[o].type = orders[o].type
      /\ orders'[o].price = orders[o].price /\ orders'[o].quantity = orders[o].quantity
      /\ orders'[o].locked = orders[o].locked /\ orders'[o].budget = orders[o].budget
  BY DEF TermsKept, RowsKept, SameTerms
<1>4. InBounds(orders'[o], QuantityOn(Moved', o), QuoteOn(Moved', o))
  BY <1>2, <1>3 DEF InBounds, BudgetDriven
<1>5. computeLockRequirement(orders'[o]) = computeLockRequirement(orders[o])
  BY <1>3 DEF computeLockRequirement
<1> QED
  BY <1>2, <1>3, <1>4, <1>5

(* When no pass has fills, the rows say all there is to know.              *)
LEMMA OutsideNow ==
    ASSUME TypeOK, \A x \in Orders : place[x] \notin Matching
    PROVE  /\ Moved = trades
           /\ \A m \in Orders : /\ KnownQuantity(m) = orders[m].filled
                                /\ KnownQuote(m) = orders[m].spent
<1>1. Moved = trades /\ \A m : ~Awaits(m)
  BY MovedElse DEF Matching, Settling, Awaits
<1>2. \A m \in Orders : orders[m].filled \in Nat /\ orders[m].spent \in Nat
  BY TypeParts, RowsTyped
<1> QED
  BY <1>1, <1>2 DEF KnownQuantity, KnownQuote

LEMMA OutsideNext ==
    ASSUME orders' \in Seq(OrderRows), \A x \in Orders' : place'[x] \notin Matching
    PROVE  /\ Moved' = trades' /\ PassAdds'
           /\ \A m \in Orders' : /\ KnownQuantity(m)' = orders'[m].filled
                                 /\ KnownQuote(m)' = orders'[m].spent
<1>1. \A x \in Orders' : place'[x] \notin Settling /\ place'[x] # "trade" /\ place'[x] # "maker"
  BY DEF Matching, Settling
<1>2. Moved' = trades' /\ \A m : ~Awaits(m)'
  BY <1>1, MovedElse DEF Awaits
<1>3. \A m \in Orders' : orders'[m].filled \in Nat /\ orders'[m].spent \in Nat
  <2>1. \A m \in Orders' : orders'[m] \in OrderRows
    BY DEF Orders
  <2> QED
    BY <2>1 DEF OrderRows
<1>4. PassAdds'
  BY DEF PassAdds, Matching, Settling
<1> QED
  BY <1>2, <1>3, <1>4 DEF KnownQuantity, KnownQuote, Matching, Settling

(* A step outside a pass that leaves what the orders traded alone.         *)
LEMMA OutsideKeeps ==
    ASSUME TypeOK, Booked, Covered, TermsKept, trades' = trades,
           \A x \in Orders : /\ place[x] \notin Matching /\ place'[x] \notin Matching
                             /\ orders'[x].filled = orders[x].filled
                             /\ orders'[x].spent = orders[x].spent
    PROVE  Moved' = Moved /\ Booked' /\ PassAdds' /\ Covered'
<1>1. Orders' = Orders /\ orders' \in Seq(OrderRows)
  BY DEF TermsKept, RowsKept
<1>2. /\ Moved' = Moved /\ PassAdds'
      /\ \A m \in Orders : /\ KnownQuantity(m)' = KnownQuantity(m)
                           /\ KnownQuote(m)' = KnownQuote(m)
  BY <1>1, OutsideNow, OutsideNext
<1>3. Booked'
  BY <1>1, <1>2 DEF Booked
<1>4. Covered'
  BY <1>2, CoveredStays
<1> QED
  BY <1>2, <1>3, <1>4

(* A step that posts nothing.                                              *)
LEMMA NothingPosted ==
    ASSUME Referenced, GivenBack, ClosedStay, posted' = posted, Orders' = Orders,
           Moved' = Moved,
           \A x \in Orders :
              /\ place'[x] \in {"lock", "reject"} =>
                    place[x] \in {"lock", "reject"} \/ LockRef(x) \notin posted
              /\ orders'[x].status = "PENDING" => place'[x] \in {"lock", "reject", "open"}
              /\ Releasing(x)' => \/ Releasing(x)
                                  \/ /\ orders'[x].status \in Terminal
                                     /\ LockRef(x) \in posted /\ UnlockRef(x) \notin posted
              /\ orders'[x].status \in Terminal /\ ~Releasing(x)' =>
                    \/ LockRef(x) \notin posted
                    \/ orders[x].status \in Terminal /\ (~Releasing(x) \/ Surplus(x) <= 0)
    PROVE  Referenced' /\ GivenBack'
<1>1. \A x \in Orders : orders[x].status \in Terminal =>
         orders'[x] = orders[x] /\ Surplus(x)' = Surplus(x)
  BY DEF ClosedStay, Surplus
<1>2. Referenced'
  BY <1>1 DEF Referenced
<1>3. GivenBack'
  <2> SUFFICES ASSUME NEW x \in Orders, orders'[x].status \in Terminal
               PROVE  \/ Releasing(x)'
                      \/ LockRef(x) \notin posted
                      \/ UnlockRef(x) \in posted
                      \/ Surplus(x)' <= 0
    BY DEF GivenBack
  <2>1. CASE Releasing(x)' \/ LockRef(x) \notin posted
    BY <2>1
  <2>2. CASE orders[x].status \in Terminal /\ (~Releasing(x) \/ Surplus(x) <= 0)
    BY <1>1, <2>2 DEF GivenBack
  <2> QED
    BY <2>1, <2>2
<1> QED
  BY <1>2, <1>3

(* The books of a closed order that gives back its surplus.                *)
LEMMA HeldOf ==
    ASSUME TypeOK, Booked, NEW o \in Orders, place[o] \notin Matching, ~Awaits(o),
           LockRef(o) \in posted, UnlockRef(o) \notin posted
    PROVE  HeldIn(Moved, orders, posted)[o] = Surplus(o)
<1>1. orders[o].filled \in Nat /\ orders[o].spent \in Nat
  BY TypeParts, RowsTyped
<1>2. QuantityOn(Moved, o) = KnownQuantity(o) /\ QuoteOn(Moved, o) = KnownQuote(o)
  BY DEF Booked
<1>3. KnownQuantity(o) = orders[o].filled + 0 /\ KnownQuote(o) = orders[o].spent + 0
  BY DEF KnownQuantity, KnownQuote
<1>4. QuantityOn(Moved, o) = orders[o].filled /\ QuoteOn(Moved, o) = orders[o].spent
  BY <1>1, <1>2, <1>3
<1> QED
  BY <1>4 DEF HeldIn, PaidOn, Surplus, Orders

LEMMA HeldNat ==
    ASSUME IInv, Covered, NEW o \in Orders
    PROVE  /\ HeldIn(Moved, orders, posted)[o] \in Nat
           /\ PaidOn(Moved, orders[o].side, o) <= orders[o].locked
<1>1. Moved \in Seq(TapeRows)
  BY MovedTyped
<1>2. QuantityOn(Moved, o) \in Nat /\ QuoteOn(Moved, o) \in Nat
  BY <1>1, TotalsTyped
<1>3. orders[o] \in OrderRows /\ orders[o].locked \in Nat
  BY TypeParts, RowsTyped DEF IInv
<1>4. (IF orders[o].side = "BUY" THEN QuoteOn(Moved, o) ELSE QuantityOn(Moved, o)) <= orders[o].locked
  BY <1>2, <1>3, LockSuffices DEF Covered
<1>5. PaidOn(Moved, orders[o].side, o) <= orders[o].locked /\ PaidOn(Moved, orders[o].side, o) \in Nat
  <2>1. CASE orders[o].side = "BUY"
    BY <1>2, <1>4, <2>1 DEF PaidOn
  <2>2. CASE orders[o].side # "BUY"
    BY <1>2, <1>4, <2>2 DEF PaidOn
  <2> QED
    BY <2>1, <2>2
<1> QED
  BY <1>3, <1>5 DEF HeldIn, Orders

LEMMA LockedCovers ==
    ASSUME IInv, Covered, Backed, NEW o \in Orders
    PROVE  HeldIn(Moved, orders, posted)[o] <= balance[Locked(orders[o].user, lockedAsset(o))]
<1>1. PICK n : n = Len(orders)
  OBVIOUS
<1>2. n \in Nat /\ Orders = 1..n /\ Terms(orders, n)
  BY <1>1, TermsTyped DEF IInv
<1>3. \A x \in 1..n : HeldIn(Moved, orders, posted)[x] \in Nat
  BY <1>2, HeldNat
<1>4. Explained(balance, Moved, orders, posted) /\ o \in 1..n
  BY <1>2 DEF Backed
<1>5. HeldIn(Moved, orders, posted)[o]
         <= balance[Locked(orders[o].user, AssetOf(orders[o].side))]
  BY <1>2, <1>3, <1>4, HeldCovers
<1> QED
  BY <1>5 DEF AssetOf, lockedAsset

(* The references of two orders differ.                                    *)
LEMMA RefsApart ==
    /\ \A o, x : /\ LockRef(o) # UnlockRef(x)
                 /\ LockRef(o) = LockRef(x) => o = x
                 /\ UnlockRef(o) = UnlockRef(x) => o = x
    /\ \A o, t, m : LockRef(o) # TradeRef(t, m) /\ UnlockRef(o) # TradeRef(t, m)
    /\ \A t, m, p, n : TradeRef(t, m) = TradeRef(p, n) => t = p /\ m = n
BY DEF LockRef, UnlockRef, TradeRef

(* What is left of a lock goes back to the balance it came from.           *)
LEMMA GivesBack ==
    ASSUME IInv, Sequential, Booked, Covered, Backed, NEW o \in Orders,
           place[o] \notin Matching, ~Awaits(o),
           LockRef(o) \in posted, UnlockRef(o) \notin posted
    PROVE  /\ ~ReleaseRefused(o)
           /\ releaseSurplus(o) /\ orders' = orders /\ Moved' = Moved => Backed'
<1> DEFINE s == Surplus(o)
           x == lockedAsset(o)
           from == Locked(orders[o].user, x)
           to == Available(orders[o].user, x)
           lines == SurplusLines(o)
<1>1. HeldIn(Moved, orders, posted)[o] = s /\ s \in Nat /\ s <= balance[from]
  <2>1. HeldIn(Moved, orders, posted)[o] = s
    BY HeldOf DEF IInv
  <2> QED
    BY <2>1, HeldNat, LockedCovers
<1>2. /\ from \in Accounts /\ to \in Accounts /\ from # to
      /\ from.asset = x /\ to.asset = x
  <2>1. orders[o].user \in Users /\ x \in {Base, Quote}
    BY TypeParts, RowsTyped DEF IInv, lockedAsset
  <2> QED
    BY <2>1, NamedAccounts, AccountsApart DEF Sequential
<1>3. lines = <<Debit(from, s), Credit(to, s)>>
  BY DEF SurplusLines
<1>4. balance \in [Accounts -> Int] /\ FeeKind /\ IsFiniteSet(Users)
  BY TypeParts DEF IInv, Sequential
<1> HIDE DEF s, from, to, lines, x
<1>5. /\ Applied(balance, lines)[from] = balance[from] + (-s)
      /\ Applied(balance, lines)[to] = balance[to] + s
      /\ \A name \in Accounts \ {from, to} : Applied(balance, lines)[name] = balance[name]
      /\ s > 0 => assertPostingBalanced(lines)
      /\ CanPost(balance, lines) <=> (isUserAccount(from) => balance[from] >= s)
  BY <1>1, <1>2, <1>3, <1>4, PairPosts
<1>6. ~ReleaseRefused(o)
  <2>1. CanPost(balance, lines)
    <3>1. balance[from] >= s
      BY <1>1, <1>2, <1>4
    <3> QED
      BY <1>5, <3>1
  <2>2. s > 0 => ~Refused(UnlockRef(o), lines)
    BY <1>5, <2>1 DEF Refused
  <2> QED
    BY <2>2 DEF ReleaseRefused, s, lines
<1>7. ASSUME releaseSurplus(o), orders' = orders, Moved' = Moved
      PROVE  Backed'
  <2>1. CASE s <= 0
    <3>1. balance' = balance /\ posted' = posted
      BY <1>7, <2>1 DEF releaseSurplus, s, ledger
    <3> QED
      BY <1>7, <3>1 DEF Backed
  <2>2. CASE ~(s <= 0)
    <3> DEFINE more == posted \cup {UnlockRef(o)}
               new == Applied(balance, lines)
               held == HeldIn(Moved, orders, posted)
               hold == HeldIn(Moved, orders, more)
    <3>1. balance' = new /\ posted' = more
      BY <1>7, <2>2 DEF releaseSurplus, s, lines, Post
    <3>2. /\ hold[o] = 0
          /\ \A a \in Orders \ {o} : hold[a] = held[a]
      <4>1. UnlockRef(o) \in more
        OBVIOUS
      <4>2. \A a \in Orders : LockRef(a) \in more <=> LockRef(a) \in posted
        BY RefsApart
      <4>3. \A a \in Orders \ {o} : UnlockRef(a) \in more <=> UnlockRef(a) \in posted
        BY RefsApart
      <4> HIDE DEF more
      <4> QED
        BY <4>1, <4>2, <4>3 DEF HeldIn, Orders
    <3>3. hold[o] = held[o] + (-s)
      BY <1>1, <3>2
    <3>4. PICK n : n = Len(orders)
      OBVIOUS
    <3>5. n \in Nat /\ Orders = 1..n /\ Terms(orders, n)
      BY <3>4, TermsTyped DEF IInv
    <3>6. Moved \in Seq(TapeRows) /\ Explained(balance, Moved, orders, posted)
      BY MovedTyped DEF Backed
    <3>7. x = AssetOf(orders[o].side)
      BY DEF x, lockedAsset, AssetOf
    <3>8. o \in 1..n /\ -s \in Int /\ -(-s) = s
      BY <1>1, <3>5
    <3>9. Relocks(balance, new, orders[o].user, x, -s)
      <4>1. /\ new[from] = balance[from] + (-s) /\ new[to] = balance[to] + (-(-s))
            /\ \A name \in Accounts \ {from, to} : new[name] = balance[name]
        BY <1>5, <3>8
      <4> HIDE DEF new
      <4> QED
        BY <4>1, Zenon DEF Relocks, from, to
    <3>10. \A a \in (1..n) \ {o} : hold[a] = held[a]
      BY <3>2, <3>5
    <3> HIDE DEF new, more
    <3>11. MovesWithin(orders, n, Moved, posted, more, o, -s, balance, new)
      BY <1>4, <3>3, <3>5, <3>6, <3>7, <3>8, <3>9, <3>10, Zenon DEF MovesWithin, held, hold
    <3>12. Explained(new, Moved, orders, more)
      BY <1>4, <3>11, MovedWithin, Zenon
    <3> QED
      BY <1>7, <3>1, <3>12, BackedNext
  <2> QED
    BY <2>1, <2>2
<1> QED
  BY <1>6, <1>7

(* What a release does to the references.                                  *)
LEMMA ReleasePosts ==
    ASSUME NEW o, releaseSurplus(o)
    PROVE  /\ posted \subseteq posted' /\ posted' \subseteq posted \cup {UnlockRef(o)}
           /\ Surplus(o) <= 0 \/ UnlockRef(o) \in posted'
BY DEF releaseSurplus, Post, ledger

-----------------------------------------------------------------------------
(* The steps outside a pass.                                               *)

Accounted == Ledgered /\ Backed

(* Before the book.                                                        *)
Early == {"lock", "open", "enqueue", "waiting"}

(* What such a step may do to order x when it moves no money.              *)
MovesNothing(x) ==
    /\ place[x] \notin Matching /\ place'[x] \notin Matching
    /\ orders'[x].filled = orders[x].filled /\ orders'[x].spent = orders[x].spent
    /\ place'[x] \in Early => place[x] \in Early
    /\ place'[x] \in {"lock", "reject"} =>
          place[x] \in {"lock", "reject"} \/ LockRef(x) \notin posted
    /\ orders'[x].status = "PENDING" => place'[x] \in {"lock", "reject", "open"}
    /\ Releasing(x)' => \/ Releasing(x)
                        \/ /\ orders'[x].status \in Terminal
                           /\ LockRef(x) \in posted /\ UnlockRef(x) \notin posted
    /\ orders'[x].status \in Terminal /\ ~Releasing(x)' =>
          \/ LockRef(x) \notin posted
          \/ orders[x].status \in Terminal /\ ~Releasing(x)

LEMMA OutsideAccounted ==
    ASSUME IInv, Accounted, ClosedStay, TermsKept,
           balance' = balance, posted' = posted, trades' = trades,
           \A x \in Orders : MovesNothing(x)
    PROVE  Accounted'
<1>1. Orders' = Orders /\ TypeOK /\ Booked /\ Covered /\ Fresh /\ Referenced /\ GivenBack /\ Backed
  BY DEF TermsKept, RowsKept, IInv, Accounted, Ledgered
<1>2. Moved' = Moved /\ Booked' /\ PassAdds' /\ Covered'
  <2>1. \A x \in Orders : /\ place[x] \notin Matching /\ place'[x] \notin Matching
                          /\ orders'[x].filled = orders[x].filled
                          /\ orders'[x].spent = orders[x].spent
    BY DEF MovesNothing
  <2> QED
    BY <1>1, <2>1, OutsideKeeps
<1>3. Backed'
  BY <1>1, <1>2, BackedStays
<1>4. Fresh'
  BY <1>1 DEF Fresh, MovesNothing, Early
<1>5. Referenced' /\ GivenBack'
  <2>1. \A x \in Orders :
           /\ place'[x] \in {"lock", "reject"} =>
                 place[x] \in {"lock", "reject"} \/ LockRef(x) \notin posted
           /\ orders'[x].status = "PENDING" => place'[x] \in {"lock", "reject", "open"}
           /\ Releasing(x)' => \/ Releasing(x)
                               \/ /\ orders'[x].status \in Terminal
                                  /\ LockRef(x) \in posted /\ UnlockRef(x) \notin posted
           /\ orders'[x].status \in Terminal /\ ~Releasing(x)' =>
                 \/ LockRef(x) \notin posted
                 \/ orders[x].status \in Terminal /\ (~Releasing(x) \/ Surplus(x) <= 0)
    BY DEF MovesNothing
  <2> QED
    BY <1>1, <1>2, <2>1, NothingPosted
<1> QED
  BY <1>2, <1>3, <1>4, <1>5 DEF Accounted, Ledgered

(* A write of the status alone.                                            *)
LEMMA StatusTerms ==
    ASSUME TypeOK, NEW o \in Orders, NEW status \in Statuses, SetStatus(o, status)
    PROVE  /\ TermsKept /\ orders'[o].status = status
           /\ \A x \in Orders : x # o => orders'[x] = orders[x]
           /\ \A x \in Orders : /\ orders'[x].filled = orders[x].filled
                                /\ orders'[x].spent = orders[x].spent
<1>1. /\ RowsKept /\ orders'[o].status = status
      /\ \A x \in Orders : x # o => orders'[x] = orders[x]
  BY StatusChange
<1>2. orders' = [orders EXCEPT ![o] = [orders[o] EXCEPT !.status = status]]
  BY DEF SetStatus
<1>3. orders[o] \in OrderRows /\ o \in DOMAIN orders
  BY TypeParts, RowsTyped DEF Orders
<1>4. orders'[o] = [orders[o] EXCEPT !.status = status]
  BY <1>2, <1>3
<1>5. /\ orders'[o].locked = orders[o].locked /\ orders'[o].budget = orders[o].budget
      /\ orders'[o].filled = orders[o].filled /\ orders'[o].spent = orders[o].spent
  BY <1>3, <1>4 DEF OrderRows
<1> QED
  BY <1>1, <1>5 DEF TermsKept

(* The request under way is a placement that has not got its fills.        *)
LEMMA AloneOutside ==
    ASSUME OneRequest, NEW o \in Orders, place[o] \notin Ended, place[o] \notin Matching
    PROVE  /\ \A x \in Orders : place[x] \notin Matching
           /\ \A x \in Orders : x # o => place[x] \in Ended
           /\ \A x \in Orders : cancel[x] \in Ended
           /\ \A x \in Orders : Releasing(x) => x = o /\ place[o] = "takerRelease"
<1>1. /\ \A x \in Orders : x # o => place[x] \in Ended
      /\ \A x \in Orders : cancel[x] \in Ended
  BY OthersEnded
<1>2. \A x \in Orders : place[x] \notin Matching
  BY <1>1 DEF Matching, Settling, Ended
<1> QED
  BY <1>1, <1>2 DEF Releasing, Ended, Matching, Settling

LEMMA RejectOrderAccounted ==
    ASSUME IInv, Alone, ClosedStay, Accounted, NEW o \in Orders, RejectOrder(o)
    PROVE  Accounted'
<1>1. /\ place[o] = "reject" /\ SetStatus(o, "REJECTED") /\ GoPlace(o, "failed")
      /\ cancel' = cancel /\ balance' = balance /\ posted' = posted /\ trades' = trades
  BY DEF RejectOrder
<1>2. /\ \A x \in Orders : place[x] \notin Matching
      /\ \A x \in Orders : x # o => place[x] \in Ended
      /\ \A x \in Orders : cancel[x] \in Ended
      /\ \A x \in Orders : ~Releasing(x)
  <2>1. place[o] \notin Ended /\ place[o] \notin Matching /\ place[o] # "takerRelease"
    BY <1>1 DEF Ended, Matching, Settling
  <2> QED
    BY <2>1, AloneOutside DEF Alone
<1>3. /\ TermsKept /\ orders'[o].status = "REJECTED"
      /\ \A x \in Orders : x # o => orders'[x] = orders[x]
      /\ \A x \in Orders : /\ orders'[x].filled = orders[x].filled
                           /\ orders'[x].spent = orders[x].spent
  BY <1>1, StatusTerms DEF Statuses, Terminal, IInv
<1>4. place'[o] = "failed" /\ \A x \in Orders : x # o => place'[x] = place[x]
  BY <1>1, PlaceTyped DEF GoPlace, PlaceStates, IInv
<1>5. Orders' = Orders /\ Referenced
  BY <1>3 DEF TermsKept, RowsKept, Accounted, Ledgered
<1>6. LockRef(o) \notin posted
  BY <1>1, <1>5 DEF Referenced
<1>7. \A x \in Orders : ~Releasing(x)' /\ place'[x] \notin Matching
  BY <1>1, <1>2, <1>4, <1>5 DEF Releasing, Ended, Matching, Settling
<1>8. \A x \in Orders : MovesNothing(x)
  <2> SUFFICES ASSUME NEW x \in Orders PROVE MovesNothing(x)
    OBVIOUS
  <2>1. CASE x = o
    BY <1>1, <1>2, <1>3, <1>4, <1>6, <1>7, <2>1 DEF MovesNothing, Early
  <2>2. CASE x # o
    <3>1. orders'[x] = orders[x] /\ place'[x] = place[x]
      BY <1>3, <1>4, <2>2
    <3> QED
      BY <1>2, <1>5, <1>7, <3>1 DEF MovesNothing, Referenced
  <2> QED
    BY <2>1, <2>2
<1> QED
  BY <1>1, <1>3, <1>8, OutsideAccounted

LEMMA OpenOrderAccounted ==
    ASSUME IInv, Alone, ClosedStay, Accounted, NEW o \in Orders, OpenOrder(o)
    PROVE  Accounted'
<1>1. /\ place[o] = "open" /\ SetStatus(o, "OPEN") /\ GoPlace(o, "enqueue")
      /\ cancel' = cancel /\ balance' = balance /\ posted' = posted /\ trades' = trades
  BY DEF OpenOrder
<1>2. /\ \A x \in Orders : place[x] \notin Matching
      /\ \A x \in Orders : x # o => place[x] \in Ended
      /\ \A x \in Orders : cancel[x] \in Ended
      /\ \A x \in Orders : ~Releasing(x)
  <2>1. place[o] \notin Ended /\ place[o] \notin Matching /\ place[o] # "takerRelease"
    BY <1>1 DEF Ended, Matching, Settling
  <2> QED
    BY <2>1, AloneOutside DEF Alone
<1>3. /\ TermsKept /\ orders'[o].status = "OPEN"
      /\ \A x \in Orders : x # o => orders'[x] = orders[x]
      /\ \A x \in Orders : /\ orders'[x].filled = orders[x].filled
                           /\ orders'[x].spent = orders[x].spent
  BY <1>1, StatusTerms DEF Statuses, Open, IInv
<1>4. place'[o] = "enqueue" /\ \A x \in Orders : x # o => place'[x] = place[x]
  BY <1>1, PlaceTyped DEF GoPlace, PlaceStates, IInv
<1>5. Orders' = Orders /\ Referenced
  BY <1>3 DEF TermsKept, RowsKept, Accounted, Ledgered
<1>6. \A x \in Orders : ~Releasing(x)' /\ place'[x] \notin Matching
  BY <1>1, <1>2, <1>4, <1>5 DEF Releasing, Ended, Matching, Settling
<1>7. \A x \in Orders : MovesNothing(x)
  <2> SUFFICES ASSUME NEW x \in Orders PROVE MovesNothing(x)
    OBVIOUS
  <2>1. CASE x = o
    BY <1>1, <1>2, <1>3, <1>4, <1>6, <2>1 DEF MovesNothing, Early, Terminal
  <2>2. CASE x # o
    <3>1. orders'[x] = orders[x] /\ place'[x] = place[x]
      BY <1>3, <1>4, <2>2
    <3> QED
      BY <1>2, <1>5, <1>6, <3>1 DEF MovesNothing, Referenced
  <2> QED
    BY <2>1, <2>2
<1> QED
  BY <1>1, <1>3, <1>7, OutsideAccounted

LEMMA EnqueuePlaceAccounted ==
    ASSUME IInv, Alone, ClosedStay, Accounted, NEW o \in Orders, EnqueuePlace(o)
    PROVE  Accounted'
<1>1. /\ place[o] = "enqueue" /\ GoPlace(o, "waiting") /\ orders' = orders
      /\ cancel' = cancel /\ balance' = balance /\ posted' = posted /\ trades' = trades
  BY DEF EnqueuePlace
<1>2. /\ \A x \in Orders : place[x] \notin Matching
      /\ \A x \in Orders : x # o => place[x] \in Ended
      /\ \A x \in Orders : cancel[x] \in Ended
      /\ \A x \in Orders : ~Releasing(x)
  <2>1. place[o] \notin Ended /\ place[o] \notin Matching /\ place[o] # "takerRelease"
    BY <1>1 DEF Ended, Matching, Settling
  <2> QED
    BY <2>1, AloneOutside DEF Alone
<1>3. TermsKept
  BY <1>1, TermsUntouched DEF IInv
<1>4. place'[o] = "waiting" /\ \A x \in Orders : x # o => place'[x] = place[x]
  BY <1>1, PlaceTyped DEF GoPlace, PlaceStates, IInv
<1>5. Orders' = Orders /\ Referenced
  BY <1>3 DEF TermsKept, RowsKept, Accounted, Ledgered
<1>6. \A x \in Orders : ~Releasing(x)' /\ place'[x] \notin Matching
  BY <1>1, <1>2, <1>4, <1>5 DEF Releasing, Ended, Matching, Settling
<1>7. \A x \in Orders : MovesNothing(x)
  <2> SUFFICES ASSUME NEW x \in Orders PROVE MovesNothing(x)
    OBVIOUS
  <2>1. CASE x = o
    <3>1. orders[o].status # "PENDING"
      BY <1>1, <1>5 DEF Referenced
    <3> QED
      BY <1>1, <1>2, <1>4, <1>6, <2>1, <3>1 DEF MovesNothing, Early
  <2>2. CASE x # o
    <3>1. orders'[x] = orders[x] /\ place'[x] = place[x]
      BY <1>1, <1>4, <2>2
    <3> QED
      BY <1>2, <1>5, <1>6, <3>1 DEF MovesNothing, Referenced
  <2> QED
    BY <2>1, <2>2
<1> QED
  BY <1>1, <1>3, <1>7, OutsideAccounted

(* No placement is under way: there is no pass either.                     *)
LEMMA NoPlacement ==
    ASSUME \A x \in Orders : place[x] \in Ended
    PROVE  \A x \in Orders : /\ place[x] \notin Matching /\ place[x] \notin Early
                             /\ place[x] \notin {"lock", "reject", "open", "trade",
                                                 "maker", "makerRelease", "takerRelease"}
                             /\ Releasing(x) <=> cancel[x] = "release"
BY DEF Ended, Matching, Settling, Early, Releasing

LEMMA RequestCancelAccounted ==
    ASSUME IInv, Sequential, ClosedStay, Accounted, NEW o \in Orders, RequestCancel(o)
    PROVE  Accounted'
<1>1. /\ InFlight < MaxInFlight /\ GoCancel(o, "waiting") /\ orders' = orders
      /\ place' = place /\ balance' = balance /\ posted' = posted /\ trades' = trades
  BY DEF RequestCancel
<1>2. \A x \in Orders : place[x] \in Ended /\ cancel[x] \in Ended
  BY <1>1, NoneUnderWay DEF IInv, Sequential
<1>3. TermsKept
  BY <1>1, TermsUntouched DEF IInv
<1>4. Orders' = Orders /\ Referenced
  BY <1>3 DEF TermsKept, RowsKept, Accounted, Ledgered
<1>5. \A x \in Orders : cancel'[x] # "release" /\ cancel[x] # "release"
  <2>1. cancel'[o] = "waiting" /\ \A x \in Orders : x # o => cancel'[x] = cancel[x]
    BY <1>1, CancelTyped DEF GoCancel, CancelStates, IInv
  <2> QED
    BY <1>2, <2>1 DEF Ended
<1>6. \A x \in Orders : ~Releasing(x)' /\ ~Releasing(x)
  BY <1>1, <1>2, <1>4, <1>5 DEF Releasing, Ended
<1>7. \A x \in Orders : MovesNothing(x)
  <2>1. \A x \in Orders : place[x] \notin Matching
    BY <1>2, NoPlacement
  <2> QED
    BY <1>1, <1>4, <1>6, <2>1 DEF MovesNothing, Referenced
<1> QED
  BY <1>1, <1>3, <1>7, OutsideAccounted

(* A cancellation runs alone.                                              *)
LEMMA CancelRunsAlone ==
    ASSUME IInv, OneRequest, NEW o \in Orders, Holds("cancel", o)
    PROVE  /\ \A x \in Orders : place[x] \in Ended
           /\ \A x \in Orders : Releasing(x) <=> cancel[x] = "release"
           /\ \A x \in Orders : cancel[x] = "release" => x = o
<1>1. cancel[o] \notin Ended
  BY HolderUnderWay
<1>2. \A x \in Orders : place[x] \in Ended
  BY <1>1 DEF OneRequest
<1>3. \A x \in Orders : cancel[x] = "release" => x = o
  BY OneHolder DEF IInv, Chain, MarketLockExclusive, InCancel
<1> QED
  BY <1>2, <1>3, NoPlacement

(* Before a cancellation releases, nothing does and no order is pending.   *)
LEMMA CancelQuiet ==
    ASSUME IInv, Alone, Accounted, NEW o \in Orders, Holds("cancel", o),
           cancel[o] # "release"
    PROVE  /\ \A x \in Orders : /\ cancel[x] # "release" /\ ~Releasing(x)
                                /\ place[x] \in Ended /\ place[x] \notin Matching
                                /\ place[x] \notin Early \cup {"lock", "reject", "open"}
                                /\ orders[x].status # "PENDING"
           /\ Referenced
<1>1. /\ \A x \in Orders : place[x] \in Ended
      /\ \A x \in Orders : cancel[x] # "release" /\ ~Releasing(x)
  BY CancelRunsAlone DEF Alone
<1>2. \A x \in Orders : /\ place[x] \notin Matching
                        /\ place[x] \notin Early \cup {"lock", "reject", "open"}
  BY <1>1, NoPlacement
<1>3. Referenced /\ \A x \in Orders : orders[x].status # "PENDING"
  BY <1>2 DEF Referenced, Accounted, Ledgered
<1> QED
  BY <1>1, <1>2, <1>3

LEMMA CheckCancelAccounted ==
    ASSUME IInv, Alone, ClosedStay, Accounted, NEW o \in Orders, CheckCancel(o)
    PROVE  Accounted'
<1>1. /\ Holds("cancel", o) /\ cancel[o] = "waiting" /\ orders' = orders
      /\ place' = place /\ balance' = balance /\ posted' = posted /\ trades' = trades
  BY DEF CheckCancel
<1>2. PICK pc \in {"update", "done"} : GoCancel(o, pc)
  BY DEF CheckCancel
<1>3. cancel'[o] = pc /\ \A x \in Orders : x # o => cancel'[x] = cancel[x]
  BY <1>2, CancelTyped DEF GoCancel, CancelStates, InCancel, IInv
<1>4. TermsKept /\ Orders' = Orders
  BY <1>1, TermsUntouched DEF IInv, TermsKept, RowsKept
<1>5. /\ Referenced
      /\ \A x \in Orders : /\ place[x] \in Ended /\ place[x] \notin Matching
                           /\ ~Releasing(x) /\ cancel[x] # "release"
  BY <1>1, CancelQuiet
<1>6. \A x \in Orders : ~Releasing(x)'
  BY <1>1, <1>3, <1>4, <1>5 DEF Releasing, Ended
<1>7. \A x \in Orders : MovesNothing(x)
  BY <1>1, <1>5, <1>6 DEF MovesNothing, Referenced
<1> QED
  BY <1>1, <1>4, <1>7, OutsideAccounted

LEMMA CancelOrderAccounted ==
    ASSUME IInv, Alone, ClosedStay, Accounted, NEW o \in Orders, CancelOrder(o)
    PROVE  Accounted'
<1>1. /\ Holds("cancel", o) /\ cancel[o] = "update"
      /\ place' = place /\ balance' = balance /\ posted' = posted /\ trades' = trades
      /\ SetStatus(o, "CANCELLED") /\ GoCancel(o, "release")
  BY DEF CancelOrder
<1>2. /\ Referenced
      /\ \A x \in Orders : /\ cancel[x] # "release" /\ ~Releasing(x)
                           /\ place[x] \in Ended /\ place[x] \notin Matching
                           /\ place[x] \notin Early \cup {"lock", "reject", "open"}
                           /\ orders[x].status # "PENDING"
  BY <1>1, CancelQuiet
<1>3. /\ TermsKept /\ orders'[o].status = "CANCELLED"
      /\ \A x \in Orders : x # o => orders'[x] = orders[x]
      /\ \A x \in Orders : /\ orders'[x].filled = orders[x].filled
                           /\ orders'[x].spent = orders[x].spent
  BY <1>1, StatusTerms DEF Statuses, Terminal, IInv
<1>4. cancel'[o] = "release" /\ \A x \in Orders : x # o => cancel'[x] = cancel[x]
  BY <1>1, CancelTyped DEF GoCancel, CancelStates, InCancel, IInv
<1>5. Orders' = Orders
  BY <1>3 DEF TermsKept, RowsKept
<1>6. \A x \in Orders : Releasing(x)' <=> x = o
  BY <1>1, <1>2, <1>4, <1>5 DEF Releasing, Ended
<1>7. orders[o].status \in Open /\ LockRef(o) \in posted /\ UnlockRef(o) \notin posted
  <2>1. orders[o].status \in Open
    BY <1>1, <1>2 DEF Alone, CancelLive, Cancellable, Open
  <2>2. orders[o].status \notin Terminal
    BY <2>1 DEF Open, Terminal
  <2> QED
    BY <1>2, <2>1, <2>2 DEF IInv, Reserved, Referenced
<1>8. \A x \in Orders : MovesNothing(x)
  <2> SUFFICES ASSUME NEW x \in Orders PROVE MovesNothing(x)
    OBVIOUS
  <2>1. CASE x = o
    BY <1>1, <1>2, <1>3, <1>6, <1>7, <2>1 DEF MovesNothing, Terminal
  <2>2. CASE x # o
    <3>1. orders'[x] = orders[x] /\ place'[x] = place[x] /\ ~Releasing(x)'
      BY <1>1, <1>3, <1>6, <2>2
    <3> QED
      BY <1>2, <3>1 DEF MovesNothing
  <2> QED
    BY <2>1, <2>2
<1> QED
  BY <1>1, <1>3, <1>8, OutsideAccounted

(* An order pays its lock, which the ledger then holds in full.            *)
LEMMA LockBacked ==
    ASSUME IInv, Sequential, Booked, Backed, Moved' = Moved, orders' = orders,
           NEW o \in Orders, place[o] = "lock", orders[o].filled = 0, orders[o].spent = 0,
           LockRef(o) \notin posted, UnlockRef(o) \notin posted,
           \A y \in Orders : place[y] \notin Matching,
           Post(LockRef(o), LockLines(o))
    PROVE  Backed'
<1> DEFINE s == orders[o].locked
           x == lockedAsset(o)
           from == Available(orders[o].user, x)
           to == Locked(orders[o].user, x)
           lines == LockLines(o)
           more == posted \cup {LockRef(o)}
           new == Applied(balance, lines)
           held == HeldIn(Moved, orders, posted)
           hold == HeldIn(Moved, orders, more)
<1>1. /\ from \in Accounts /\ to \in Accounts /\ from # to
      /\ from.asset = x /\ to.asset = x /\ s \in Int
  <2>1. orders[o].user \in Users /\ x \in {Base, Quote} /\ s \in Int
    BY TypeParts, RowsTyped DEF IInv, lockedAsset
  <2> QED
    BY <2>1, NamedAccounts, AccountsApart DEF Sequential
<1>2. lines = <<Debit(from, s), Credit(to, s)>>
  BY DEF LockLines
<1>3. balance' = new /\ posted' = more
  BY DEF Post
<1>4. balance \in [Accounts -> Int] /\ FeeKind /\ IsFiniteSet(Users)
  BY TypeParts DEF IInv, Sequential
<1>5. held[o] = 0 /\ hold[o] = s
  <2>1. held[o] = 0
    BY DEF HeldIn, Orders
  <2>2. QuantityOn(Moved, o) = 0 /\ QuoteOn(Moved, o) = 0
    BY OutsideNow DEF Booked, IInv
  <2>3. LockRef(o) \in more /\ UnlockRef(o) \notin more
    BY RefsApart
  <2>4. PaidOn(Moved, orders[o].side, o) = 0
    BY <2>2 DEF PaidOn
  <2>5. hold[o] = s - 0
    <3> HIDE DEF more
    <3> QED
      BY <2>3, <2>4 DEF HeldIn, Orders
  <2> QED
    BY <1>1, <2>1, <2>5
<1>6. \A a \in Orders \ {o} : hold[a] = held[a]
  <2>1. \A a \in Orders : UnlockRef(a) \in more <=> UnlockRef(a) \in posted
    BY RefsApart
  <2>2. \A a \in Orders \ {o} : LockRef(a) \in more <=> LockRef(a) \in posted
    BY RefsApart
  <2> HIDE DEF more
  <2> QED
    BY <2>1, <2>2 DEF HeldIn, Orders
<1>7. x = AssetOf(orders[o].side)
  BY DEF lockedAsset, AssetOf
<1> HIDE DEF s, x, from, to, lines, more
<1>8. /\ Applied(balance, lines)[from] = balance[from] + (-s)
      /\ Applied(balance, lines)[to] = balance[to] + s
      /\ \A name \in Accounts \ {from, to} : Applied(balance, lines)[name] = balance[name]
  BY <1>1, <1>2, <1>4, PairPosts
<1>9. Relocks(balance, new, orders[o].user, x, s)
  <2>1. /\ new[from] = balance[from] + (-s) /\ new[to] = balance[to] + s
        /\ \A name \in Accounts \ {to, from} : new[name] = balance[name]
    BY <1>8
  <2> HIDE DEF new
  <2> QED
    BY <2>1, Zenon DEF Relocks, from, to
<1>10. PICK n : n = Len(orders)
  OBVIOUS
<1>11. n \in Nat /\ Orders = 1..n /\ Terms(orders, n)
  BY <1>10, TermsTyped DEF IInv
<1>12. Moved \in Seq(TapeRows) /\ Explained(balance, Moved, orders, posted)
  BY MovedTyped DEF Backed
<1>13. hold[o] = held[o] + s /\ s \in Int
  BY <1>1, <1>5
<1>14. o \in 1..n /\ \A a \in (1..n) \ {o} : hold[a] = held[a]
  BY <1>6, <1>11
<1> HIDE DEF new
<1>15. MovesWithin(orders, n, Moved, posted, more, o, s, balance, new)
  BY <1>4, <1>7, <1>9, <1>11, <1>12, <1>13, <1>14, Zenon DEF MovesWithin, held, hold
<1>16. Explained(new, Moved, orders, more)
  BY <1>4, <1>15, MovedWithin, Zenon
<1> QED
  BY <1>3, <1>16, BackedNext

LEMMA LockFundsAccounted ==
    ASSUME IInv, Sequential, Alone, ClosedStay, Accounted, NEW o \in Orders, LockFunds(o)
    PROVE  Accounted'
<1>1. /\ place[o] = "lock" /\ orders' = orders /\ cancel' = cancel /\ trades' = trades
  BY DEF LockFunds
<1>2. /\ \A x \in Orders : place[x] \notin Matching
      /\ \A x \in Orders : x # o => place[x] \in Ended
      /\ \A x \in Orders : cancel[x] \in Ended
      /\ \A x \in Orders : ~Releasing(x)
  <2>1. place[o] \notin Ended /\ place[o] \notin Matching /\ place[o] # "takerRelease"
    BY <1>1 DEF Ended, Matching, Settling
  <2> QED
    BY <2>1, AloneOutside DEF Alone
<1>3. TermsKept
  BY <1>1, TermsUntouched DEF IInv
<1>4. Orders' = Orders /\ Referenced /\ Fresh /\ GivenBack /\ Booked /\ Covered /\ Backed
  BY <1>3 DEF TermsKept, RowsKept, Accounted, Ledgered
<1>5. LockRef(o) \notin posted
  BY <1>1, <1>4 DEF Referenced
<1>6. CASE /\ Post(LockRef(o), LockLines(o)) /\ GoPlace(o, "open")
  <2>1. place'[o] = "open" /\ \A x \in Orders : x # o => place'[x] = place[x]
    BY <1>6, PlaceTyped DEF GoPlace, PlaceStates, IInv
  <2>2. \A x \in Orders : ~Releasing(x)' /\ place'[x] \notin Matching
    BY <1>1, <1>2, <1>4, <2>1 DEF Releasing, Ended, Matching, Settling
  <2>3. Moved' = Moved /\ Booked' /\ PassAdds' /\ Covered'
    <3>1. \A x \in Orders : /\ place[x] \notin Matching /\ place'[x] \notin Matching
                            /\ orders'[x].filled = orders[x].filled
                            /\ orders'[x].spent = orders[x].spent
      BY <1>1, <1>2, <2>2
    <3>2. TypeOK /\ Booked /\ Covered /\ TermsKept /\ trades' = trades
      BY <1>1, <1>3, <1>4 DEF IInv
    <3> QED
      BY <3>1, <3>2, OutsideKeeps
  <2>4. posted' = posted \cup {LockRef(o)}
    BY <1>5, <1>6 DEF Post
  <2>5. orders[o].filled = 0 /\ orders[o].spent = 0
    BY <1>1, <1>4 DEF Fresh
  <2>6. orders[o].status \notin Terminal /\ UnlockRef(o) \notin posted
    <3>1. orders[o].status \notin Terminal
      BY <1>1 DEF Alone, TakerLive, Ended
    <3> QED
      BY <1>4, <3>1 DEF Referenced
  <2>7. Backed'
    BY <1>1, <1>2, <1>4, <1>5, <1>6, <2>3, <2>5, <2>6, LockBacked
  <2>8. Fresh'
    BY <1>1, <1>4, <2>1, <2>5 DEF Fresh
  <2>9. Referenced'
    <3>1. \A x \in Orders : LockRef(x) \in posted' => place'[x] \notin {"lock", "reject"}
      BY <1>4, <2>1, <2>4, RefsApart DEF Referenced
    <3>2. \A x \in Orders : UnlockRef(x) \in posted' => orders'[x].status \in Terminal
      BY <1>1, <1>4, <2>4, RefsApart DEF Referenced
    <3>3. \A x \in Orders : orders'[x].status = "PENDING" => place'[x] \in {"lock", "reject", "open"}
      BY <1>1, <1>4, <2>1 DEF Referenced
    <3>4. \A t, m \in Orders : TradeRef(t, m) \in posted' =>
             \E k \in DOMAIN Moved' : Moved'[k].taker = t /\ Moved'[k].maker = m
      BY <1>4, <2>3, <2>4, RefsApart DEF Referenced
    <3> QED
      BY <1>4, <2>2, <3>1, <3>2, <3>3, <3>4 DEF Referenced
  <2>10. GivenBack'
    <3> SUFFICES ASSUME NEW x \in Orders, orders[x].status \in Terminal
                 PROVE  LockRef(x) \notin posted' \/ UnlockRef(x) \in posted' \/ Surplus(x)' <= 0
      BY <1>1, <1>4 DEF GivenBack
    <3>1. x # o /\ Surplus(x)' = Surplus(x)
      BY <1>1, <2>6 DEF Surplus
    <3>2. LockRef(x) \notin posted \/ UnlockRef(x) \in posted \/ Surplus(x) <= 0
      BY <1>2, <1>4 DEF GivenBack
    <3> QED
      BY <2>4, <3>1, <3>2, RefsApart
  <2> QED
    BY <2>3, <2>7, <2>8, <2>9, <2>10 DEF Accounted, Ledgered
<1>7. CASE /\ GoPlace(o, "reject") /\ UNCHANGED ledger
  <2>1. place'[o] = "reject" /\ \A x \in Orders : x # o => place'[x] = place[x]
    BY <1>7, PlaceTyped DEF GoPlace, PlaceStates, IInv
  <2>2. \A x \in Orders : ~Releasing(x)' /\ place'[x] \notin Matching
    BY <1>1, <1>2, <1>4, <2>1 DEF Releasing, Ended, Matching, Settling
  <2>3. balance' = balance /\ posted' = posted
    BY <1>7 DEF ledger
  <2>4. \A x \in Orders : MovesNothing(x)
    <3> SUFFICES ASSUME NEW x \in Orders PROVE MovesNothing(x)
      OBVIOUS
    <3>1. CASE x = o
      BY <1>1, <1>2, <1>5, <2>1, <2>2, <3>1 DEF MovesNothing, Early
    <3>2. CASE x # o
      BY <1>1, <1>2, <1>4, <2>1, <2>2, <3>2 DEF MovesNothing, Referenced
    <3> QED
      BY <3>1, <3>2
  <2> QED
    BY <1>1, <1>3, <2>3, <2>4, OutsideAccounted
<1> QED
  BY <1>6, <1>7 DEF LockFunds

(* A close gives back what it owes: nothing is left to release.            *)
LEMMA ReleaseRefs ==
    ASSUME Referenced, GivenBack, orders' = orders, Moved' = Moved,
           NEW o \in Orders, Releasing(o), releaseSurplus(o),
           \A x \in Orders :
              /\ ~Releasing(x)' /\ (Releasing(x) => x = o)
              /\ place'[x] \in {"lock", "reject"} => place[x] \in {"lock", "reject"}
              /\ orders[x].status = "PENDING" => place'[x] \in {"lock", "reject", "open"}
    PROVE  Referenced' /\ GivenBack'
<1>1. Orders' = Orders
  BY DEF Orders
<1>2. /\ posted \subseteq posted' /\ posted' \subseteq posted \cup {UnlockRef(o)}
      /\ Surplus(o) <= 0 \/ UnlockRef(o) \in posted'
  BY ReleasePosts
<1>3. orders[o].status \in Terminal
  BY DEF Referenced
<1>4. Referenced'
  <2>1. \A x \in Orders : LockRef(x) \in posted' => LockRef(x) \in posted
    BY <1>2, RefsApart
  <2>2. \A x \in Orders : UnlockRef(x) \in posted' => UnlockRef(x) \in posted \/ x = o
    BY <1>2, RefsApart
  <2>3. \A t, m \in Orders : TradeRef(t, m) \in posted' => TradeRef(t, m) \in posted
    BY <1>2, RefsApart
  <2> QED
    BY <1>1, <1>3, <2>1, <2>2, <2>3 DEF Referenced
<1>5. GivenBack'
  <2> SUFFICES ASSUME NEW x \in Orders, orders[x].status \in Terminal
               PROVE  LockRef(x) \notin posted' \/ UnlockRef(x) \in posted' \/ Surplus(x)' <= 0
    BY <1>1 DEF GivenBack
  <2>1. Surplus(x)' = Surplus(x)
    BY DEF Surplus
  <2>2. CASE x = o
    BY <1>2, <2>1, <2>2
  <2>3. CASE x # o
    <3>1. LockRef(x) \notin posted \/ UnlockRef(x) \in posted \/ Surplus(x) <= 0
      BY <2>3 DEF GivenBack
    <3> QED
      BY <1>2, <2>1, <3>1, RefsApart
  <2> QED
    BY <2>2, <2>3
<1> QED
  BY <1>4, <1>5

(* ... in a step outside a pass.                                           *)
LEMMA ReleaseOutside ==
    ASSUME IInv, Sequential, Accounted, orders' = orders, trades' = trades,
           NEW o \in Orders, Releasing(o),
           \A x \in Orders :
              /\ ~Releasing(x)' /\ (Releasing(x) => x = o)
              /\ place[x] \notin Matching /\ place'[x] \notin Matching
              /\ place[x] \notin Early \cup {"reject"}
              /\ place'[x] \notin Early \cup {"reject"}
    PROVE  /\ ~ReleaseRefused(o)
           /\ releaseSurplus(o) => Accounted'
<1>1. TermsKept
  BY TermsUntouched DEF IInv
<1>2. Orders' = Orders /\ Referenced /\ GivenBack /\ Booked /\ Covered /\ Backed
  BY DEF Accounted, Ledgered, Orders
<1>3. Moved' = Moved /\ Booked' /\ PassAdds' /\ Covered'
  <2>1. \A x \in Orders : /\ place[x] \notin Matching /\ place'[x] \notin Matching
                          /\ orders'[x].filled = orders[x].filled
                          /\ orders'[x].spent = orders[x].spent
    OBVIOUS
  <2>2. TypeOK /\ Booked /\ Covered
    BY <1>2 DEF IInv
  <2> QED
    BY <1>1, <2>1, <2>2, OutsideKeeps
<1>4. ~ReleaseRefused(o) /\ (releaseSurplus(o) => Backed')
  <2>1. ~Awaits(o)
    BY DEF Awaits, Matching, Settling
  <2>2. LockRef(o) \in posted /\ UnlockRef(o) \notin posted
    BY <1>2 DEF Referenced
  <2> QED
    BY <1>2, <1>3, <2>1, <2>2, GivesBack
<1>5. Fresh'
  BY <1>2 DEF Fresh, Early
<1>6. ASSUME releaseSurplus(o) PROVE Referenced' /\ GivenBack'
  <2>1. \A x \in Orders :
           /\ ~Releasing(x)' /\ (Releasing(x) => x = o)
           /\ place'[x] \in {"lock", "reject"} => place[x] \in {"lock", "reject"}
           /\ orders[x].status = "PENDING" => place'[x] \in {"lock", "reject", "open"}
    BY <1>2 DEF Early, Referenced
  <2> QED
    BY <1>2, <1>3, <1>6, <2>1, ReleaseRefs
<1> QED
  BY <1>3, <1>4, <1>5, <1>6 DEF Accounted, Ledgered

LEMMA ReleaseCancelledAccounted ==
    ASSUME IInv, Sequential, Alone, Accounted, NEW o \in Orders, ReleaseCancelled(o)
    PROVE  Accounted'
<1>1. /\ Holds("cancel", o) /\ cancel[o] = "release" /\ GoCancel(o, "done")
      /\ place' = place /\ orders' = orders /\ trades' = trades /\ releaseSurplus(o)
  BY DEF ReleaseCancelled
<1>2. /\ \A x \in Orders : place[x] \in Ended
      /\ \A x \in Orders : (Releasing(x) <=> cancel[x] = "release")
                           /\ (cancel[x] = "release" => x = o)
  BY <1>1, CancelRunsAlone DEF Alone
<1>3. cancel'[o] = "done" /\ \A x \in Orders : x # o => cancel'[x] = cancel[x]
  BY <1>1, CancelTyped DEF GoCancel, CancelStates, IInv
<1>4. \A x \in Orders :
         /\ ~Releasing(x)' /\ (Releasing(x) => x = o)
         /\ place[x] \notin Matching /\ place'[x] \notin Matching
         /\ place[x] \notin Early \cup {"reject"}
         /\ place'[x] \notin Early \cup {"reject"}
  <2>1. \A x \in Orders : ~Releasing(x)'
    BY <1>1, <1>2, <1>3 DEF Releasing, Ended, Orders
  <2> QED
    BY <1>1, <1>2, <2>1 DEF Ended, Matching, Settling, Early
<1>5. Releasing(o)
  BY <1>1, <1>2
<1> QED
  BY <1>1, <1>4, <1>5, ReleaseOutside

LEMMA CancelNotRefused ==
    ASSUME IInv, Sequential, Alone, Accounted, NEW o \in Orders
    PROVE  ~CancelRefused(o)
<1> SUFFICES ASSUME CancelRefused(o) PROVE FALSE
  OBVIOUS
<1>1. Holds("cancel", o) /\ cancel[o] = "release" /\ ReleaseRefused(o)
  BY DEF CancelRefused
<1>2. /\ \A x \in Orders : place[x] \in Ended
      /\ Releasing(o)
  BY <1>1, CancelRunsAlone DEF Alone
<1>3. place[o] \notin Matching /\ ~Awaits(o)
  BY <1>2 DEF Ended, Matching, Settling, Awaits
<1>4. /\ LockRef(o) \in posted /\ UnlockRef(o) \notin posted
      /\ Booked /\ Covered /\ Backed
  BY <1>2 DEF Accounted, Ledgered, Referenced
<1> QED
  BY <1>1, <1>3, <1>4, GivesBack

LEMMA ReleaseTakerAccounted ==
    ASSUME IInv, Sequential, Alone, Accounted, NEW o \in Orders, ReleaseTaker(o)
    PROVE  Accounted'
<1>1. /\ place[o] = "takerRelease" /\ GoPlace(o, "done") /\ cancel' = cancel
      /\ orders' = orders /\ trades' = trades /\ releaseSurplus(o)
  BY DEF ReleaseTaker
<1>2. /\ \A x \in Orders : place[x] \notin Matching
      /\ \A x \in Orders : x # o => place[x] \in Ended
      /\ \A x \in Orders : cancel[x] \in Ended
      /\ \A x \in Orders : Releasing(x) => x = o
  <2>1. place[o] \notin Ended /\ place[o] \notin Matching
    BY <1>1 DEF Ended, Matching, Settling
  <2> QED
    BY <2>1, AloneOutside DEF Alone
<1>3. place'[o] = "done" /\ \A x \in Orders : x # o => place'[x] = place[x]
  BY <1>1, PlaceTyped DEF GoPlace, PlaceStates, IInv
<1>4. \A x \in Orders :
         /\ ~Releasing(x)' /\ (Releasing(x) => x = o)
         /\ place[x] \notin Matching /\ place'[x] \notin Matching
         /\ place[x] \notin Early \cup {"reject"}
         /\ place'[x] \notin Early \cup {"reject"}
  <2>1. \A x \in Orders : place'[x] \in Ended /\ cancel'[x] # "release"
    BY <1>1, <1>2, <1>3 DEF Ended
  <2>2. \A x \in Orders : ~Releasing(x)'
    BY <1>1, <2>1 DEF Releasing, Ended, Orders
  <2>3. \A x \in Orders : place[x] \notin Early \cup {"reject"}
    BY <1>1, <1>2 DEF Ended, Early
  <2> QED
    BY <1>2, <2>1, <2>2, <2>3 DEF Ended, Matching, Settling, Early
<1>5. Releasing(o)
  BY <1>1 DEF Releasing
<1> QED
  BY <1>1, <1>4, <1>5, ReleaseOutside

-----------------------------------------------------------------------------
(* The steps of a pass.                                                    *)

(* What is known of an order besides the taker of the pass: the row of the *)
(* maker lags behind by the current fill until it is written.              *)
Behind(o, x) == place[o] \in {"trade", "maker"} /\ CurrentFill.maker = x

LEMMA KnownNow ==
    ASSUME TypeOK, OneRequest, NEW o \in Orders, place[o] \in Matching
    PROVE  /\ KnownQuantity(o) = QuantityUpTo(pass.fills, DoneWith(place[o]))
           /\ KnownQuote(o) = QuoteUpTo(pass.fills, DoneWith(place[o]))
           /\ \A x \in Orders : x # o /\ Behind(o, x) =>
                 /\ KnownQuantity(x) = orders[x].filled + CurrentFill.quantity
                 /\ KnownQuote(x) = orders[x].spent + CurrentFill.quoteAmount
           /\ \A x \in Orders : x # o /\ ~Behind(o, x) =>
                 /\ KnownQuantity(x) = orders[x].filled
                 /\ KnownQuote(x) = orders[x].spent
<1>1. place[o] \notin Ended
  BY DEF Matching, Settling, Ended
<1>2. \A x \in Orders : x # o => place[x] \in Ended
  BY <1>1, OthersEnded
<1>3. \A x \in Orders : x # o => place[x] \notin Matching
  BY <1>2 DEF Matching, Settling, Ended
<1>4. \A x : Awaits(x) <=> Behind(o, x)
  BY <1>2 DEF Awaits, Behind, Ended
<1>5. \A x \in Orders : orders[x].filled \in Nat /\ orders[x].spent \in Nat
  BY TypeParts, RowsTyped
<1> QED
  BY <1>3, <1>4, <1>5 DEF KnownQuantity, KnownQuote

LEMMA KnownNext ==
    ASSUME orders' \in Seq(OrderRows), NEW o \in Orders', place'[o] \in Matching,
           \A x \in Orders' : x # o => place'[x] \in Ended
    PROVE  /\ KnownQuantity(o)' = QuantityUpTo(pass'.fills, DoneWith(place[o])')
           /\ KnownQuote(o)' = QuoteUpTo(pass'.fills, DoneWith(place[o])')
           /\ \A x \in Orders' : x # o /\ Behind(o, x)' =>
                 /\ KnownQuantity(x)' = orders'[x].filled + CurrentFill'.quantity
                 /\ KnownQuote(x)' = orders'[x].spent + CurrentFill'.quoteAmount
           /\ \A x \in Orders' : x # o /\ ~Behind(o, x)' =>
                 /\ KnownQuantity(x)' = orders'[x].filled
                 /\ KnownQuote(x)' = orders'[x].spent
<1>1. \A x \in Orders' : x # o => place'[x] \notin Matching
  BY DEF Matching, Settling, Ended
<1>2. \A x : Awaits(x)' <=> Behind(o, x)'
  BY DEF Awaits, Behind, Ended
<1>3. \A x \in Orders' : orders'[x].filled \in Nat /\ orders'[x].spent \in Nat
  <2>1. \A x \in Orders' : orders'[x] \in OrderRows
    BY DEF Orders
  <2> QED
    BY <2>1 DEF OrderRows
<1> QED
  BY <1>1, <1>2, <1>3 DEF KnownQuantity, KnownQuote, Matching, Settling

(* A step of a pass that posts nothing.                                    *)
LEMMA PostsNothing ==
    ASSUME IInv, Accounted, ClosedStay, TermsKept,
           balance' = balance, posted' = posted, Moved' = Moved, Booked', PassAdds',
           \A x \in Orders :
              /\ place'[x] \notin Early \cup {"reject"} /\ ~Releasing(x)
              /\ orders'[x].status = "PENDING" => orders[x].status = "PENDING"
              /\ orders[x].status # "PENDING"
              /\ Releasing(x)' => /\ orders'[x].status \in Terminal
                                  /\ LockRef(x) \in posted /\ UnlockRef(x) \notin posted
              /\ orders'[x].status \in Terminal /\ ~Releasing(x)' =>
                    orders[x].status \in Terminal
    PROVE  Accounted'
<1>1. Orders' = Orders /\ Covered /\ Referenced /\ GivenBack /\ Backed
  BY DEF TermsKept, RowsKept, Accounted, Ledgered
<1>2. Covered' /\ Backed'
  BY <1>1, CoveredStays, BackedStays
<1>3. Fresh'
  BY <1>1 DEF Fresh, Early
<1>4. Referenced' /\ GivenBack'
  <2>1. \A x \in Orders :
           /\ place'[x] \in {"lock", "reject"} =>
                 place[x] \in {"lock", "reject"} \/ LockRef(x) \notin posted
           /\ orders'[x].status = "PENDING" => place'[x] \in {"lock", "reject", "open"}
           /\ Releasing(x)' => \/ Releasing(x)
                               \/ /\ orders'[x].status \in Terminal
                                  /\ LockRef(x) \in posted /\ UnlockRef(x) \notin posted
           /\ orders'[x].status \in Terminal /\ ~Releasing(x)' =>
                 \/ LockRef(x) \notin posted
                 \/ orders[x].status \in Terminal /\ (~Releasing(x) \/ Surplus(x) <= 0)
    BY DEF Early
  <2> QED
    BY <1>1, <2>1, NothingPosted
<1> QED
  BY <1>2, <1>3, <1>4 DEF Accounted, Ledgered

(* The fills of a pass, when it starts.                                    *)
LEMMA FillsWhole ==
    ASSUME IInv, Covered, NoQuantity, NEW o \in Orders,
           NEW r, r = matchOrder(orders[o], BookOf(o))
    PROVE  /\ r.filledQuantity = QuantityUpTo(r.fills, Len(r.fills))
           /\ r.quoteTotal = QuoteUpTo(r.fills, Len(r.fills))
           /\ IF BudgetDriven(orders[o]) THEN r.quoteTotal <= orders[o].budget
                                         ELSE r.filledQuantity <= orders[o].quantity
           /\ \A j \in DOMAIN r.fills : /\ Whole(r.fills[j])
                                        /\ r.fills[j].quantity <= Remaining(r.fills[j].maker)
<1>1. /\ orders \in Seq(OrderRows) /\ PricesKept
      /\ \A m \in Orders : FilledRowAllowed(m, orders[m].filled)
  BY DEF IInv, TypeOK
<1>2. PICK n \in Nat :
         /\ BookOf(o) \in [1..n -> Resters]
         /\ \A k \in 1..n : \E m \in Orders : RowOf(BookOf(o)[k], m)
  BY <1>1, BookInOrder
<1>3. PICK t, b : t = orders[o] /\ b = BookOf(o)
  OBVIOUS
<1>4. t.quantity \in Nat /\ t.budget \in Nat
  BY <1>1, <1>3, RowsTyped
<1>5. b \in [1..n -> Resters] /\ r = matchOrder(t, b)
  BY <1>2, <1>3
<1>6. /\ r.filledQuantity = QuantityUpTo(r.fills, Len(r.fills))
      /\ r.quoteTotal = QuoteUpTo(r.fills, Len(r.fills))
      /\ IF BudgetDriven(t) THEN r.quoteTotal <= t.budget ELSE r.filledQuantity <= t.quantity
      /\ \A j \in DOMAIN r.fills : \E k \in 1..n : Filling(b[k], r.fills[j])
  BY <1>4, <1>5, MatchAdds
<1>7. /\ r.fills \in Seq(FillRecords)
      /\ \A j \in DOMAIN r.fills : FillSound(o, r.fills[j])
  BY FillsOfBook
<1>8. ASSUME NEW j \in DOMAIN r.fills
      PROVE  Whole(r.fills[j]) /\ r.fills[j].quantity <= Remaining(r.fills[j].maker)
  <2> DEFINE f == r.fills[j]
  <2>1. f \in FillRecords /\ FillSound(o, f)
    BY <1>7, <1>8
  <2>2. /\ f.maker \in Orders /\ f.price \in Nat /\ f.quantity \in Nat /\ f.quoteAmount \in Nat
    BY <2>1 DEF FillRecords
  <2>3. PICK k \in 1..n : Filling(b[k], f)
    BY <1>6, <1>8
  <2>4. PICK m \in Orders : RowOf(b[k], m)
    BY <1>2, <1>3
  <2> HIDE DEF f
  <2>5. /\ f.maker = b[k].id /\ f.quantity > 0 /\ f.quantity <= b[k].remaining
        /\ f.quoteAmount > 0 /\ f.quoteAmount = quoteFloor(f.price, f.quantity)
    BY <2>3 DEF Filling
  <2>6. f.maker = m /\ b[k].remaining \in Nat
        /\ (~(b[k].remaining <= 0) => Remaining(m) = b[k].remaining)
    BY <2>4, <2>5 DEF RowOf
  <2>7. f.quantity <= Remaining(f.maker)
    BY <2>2, <2>5, <2>6
  <2>8. f.price > 0
    BY <1>1, <2>1, <2>2 DEF FillSound, PricesKept, NoPrice
  <2>9. PICK c \in Nat : f.price = c * QScale
    BY <2>1, <2>2 DEF FillSound, Covered
  <2>10. f.quoteAmount * QScale = f.price * f.quantity
    BY <2>2, <2>5, <2>9, ExactFloor
  <2> QED
    BY <2>5, <2>7, <2>8, <2>10 DEF f, Whole, TradeRowAllowed
<1> QED
  BY <1>3, <1>6, <1>8

(* While one placement is under way no other order waits for anything.     *)
LEMMA OthersQuiet ==
    ASSUME Referenced, OneRequest, NEW o \in Orders, place[o] \notin Ended,
           place[o] \notin {"lock", "reject", "open"}
    PROVE  /\ \A x \in Orders : x # o => place[x] \in Ended
           /\ \A x \in Orders : cancel[x] \in Ended
           /\ \A x \in Orders : orders[x].status # "PENDING"
<1>1. /\ \A x \in Orders : x # o => place[x] \in Ended
      /\ \A x \in Orders : cancel[x] \in Ended
  BY OthersEnded
<1>2. \A x \in Orders : place[x] \notin {"lock", "reject", "open"}
  BY <1>1 DEF Ended
<1> QED
  BY <1>1, <1>2 DEF Referenced

LEMMA MatchOrderAccounted ==
    ASSUME IInv, Alone, ClosedStay, NoQuantity, Accounted, NEW o \in Orders, MatchOrder(o)
    PROVE  Accounted'
<1>1. /\ place[o] = "waiting" /\ orders' = orders /\ cancel' = cancel /\ trades' = trades
      /\ balance' = balance /\ posted' = posted
  BY DEF MatchOrder
<1>2. PICK r : /\ r = matchOrder(orders[o], BookOf(o))
               /\ pass' = [fills |-> r.fills, next |-> 1,
                           filled |-> r.filledQuantity, quote |-> r.quoteTotal]
               /\ GoPlace(o, IF r.fills = << >> THEN "finalize" ELSE "settle")
  BY DEF MatchOrder
<1>3. PICK pc \in {"finalize", "settle"} :
         /\ place' = [place EXCEPT ![o] = pc]
         /\ pc = "finalize" => r.fills = << >>
  BY <1>2 DEF GoPlace
<1>4. place'[o] = pc /\ \A x \in Orders : x # o => place'[x] = place[x]
  BY <1>3, PlaceTyped DEF PlaceStates, InPass, IInv
<1>5. /\ pass'.fills = r.fills /\ pass'.next = 1
      /\ pass'.filled = r.filledQuantity /\ pass'.quote = r.quoteTotal
  BY <1>2
<1>6. TermsKept /\ Orders' = Orders
  BY <1>1, TermsUntouched DEF IInv, Orders
<1>7. Booked /\ Covered /\ Fresh /\ Referenced
  BY DEF Accounted, Ledgered
<1>8. /\ \A x \in Orders : x # o => place[x] \in Ended
      /\ \A x \in Orders : cancel[x] \in Ended
      /\ \A x \in Orders : orders[x].status # "PENDING"
      /\ \A x \in Orders : place[x] \notin Matching
      /\ \A x \in Orders : ~Releasing(x)
  <2>1. /\ place[o] \notin Ended /\ place[o] \notin {"lock", "reject", "open"}
        /\ place[o] \notin Matching /\ place[o] # "takerRelease"
    BY <1>1 DEF Ended, Matching, Settling
  <2> QED
    BY <1>7, <2>1, OthersQuiet, AloneOutside DEF Alone
<1>9. Moved' = Moved
  <2>1. Moved = trades
    BY <1>8, OutsideNow DEF IInv
  <2>2. \A x \in Orders' : place'[x] # "trade"
    BY <1>4, <1>6, <1>8 DEF Ended
  <2> QED
    BY <1>1, <2>1, <2>2, MovedElse
<1>10. /\ r.filledQuantity = QuantityUpTo(r.fills, Len(r.fills))
       /\ r.quoteTotal = QuoteUpTo(r.fills, Len(r.fills))
       /\ IF BudgetDriven(orders[o]) THEN r.quoteTotal <= orders[o].budget
                                     ELSE r.filledQuantity <= orders[o].quantity
       /\ \A j \in DOMAIN r.fills : /\ Whole(r.fills[j])
                                    /\ r.fills[j].quantity <= Remaining(r.fills[j].maker)
  BY <1>2, <1>7, FillsWhole
<1>11. PassAdds'
  <2>1. \A x \in Orders' : place'[x] \in Matching => x = o
    BY <1>4, <1>6, <1>8
  <2>2. pc = "finalize" => Len(r.fills) = 0
    BY <1>3
  <2>3. \A j \in DOMAIN pass'.fills : Whole(pass'.fills[j])
    BY <1>5, <1>10
  <2>4. FillsDue(Due(place[o]))'
    BY <1>1, <1>5, <1>10 DEF FillsDue, Remaining
  <2>5. place'[o] = "finalize" => pass'.next = Len(pass'.fills) + 1
    BY <1>4, <1>5, <2>2
  <2> QED
    BY <1>1, <1>5, <1>10, <2>1, <2>3, <2>4, <2>5 DEF PassAdds, Whole, TradeRowAllowed
<1>12. Booked'
  <2>1. orders' \in Seq(OrderRows)
    BY <1>6 DEF TermsKept, RowsKept
  <2>2. o \in Orders' /\ place'[o] \in Matching /\ \A x \in Orders' : x # o => place'[x] \in Ended
    BY <1>4, <1>6, <1>8 DEF Matching, Settling
  <2>3. \A x : ~Behind(o, x)'
    BY <1>4 DEF Behind
  <2>4. DoneWith(place[o])' = 0
    BY <1>4, <1>5 DEF DoneWith
  <2>5. /\ KnownQuantity(o)' = 0 /\ KnownQuote(o)' = 0
        /\ \A x \in Orders' : x # o => /\ KnownQuantity(x)' = orders'[x].filled
                                       /\ KnownQuote(x)' = orders'[x].spent
    BY <2>1, <2>2, <2>3, <2>4, KnownNext, UpToNone
  <2>6. \A x \in Orders : QuantityOn(Moved, x) = orders[x].filled /\ QuoteOn(Moved, x) = orders[x].spent
    BY <1>7, <1>8, OutsideNow DEF IInv, Booked
  <2>7. orders[o].filled = 0 /\ orders[o].spent = 0
    BY <1>1, <1>7 DEF Fresh
  <2>8. ASSUME NEW x \in Orders'
        PROVE  QuantityOn(Moved', x) = KnownQuantity(x)' /\ QuoteOn(Moved', x) = KnownQuote(x)'
    BY <1>1, <1>6, <1>9, <2>5, <2>6, <2>7
  <2> QED
    BY <2>8 DEF Booked
<1>13. \A x \in Orders :
          /\ place'[x] \notin Early \cup {"reject"} /\ ~Releasing(x)
          /\ orders'[x].status = "PENDING" => orders[x].status = "PENDING"
          /\ orders[x].status # "PENDING"
          /\ Releasing(x)' => /\ orders'[x].status \in Terminal
                              /\ LockRef(x) \in posted /\ UnlockRef(x) \notin posted
          /\ orders'[x].status \in Terminal /\ ~Releasing(x)' =>
                orders[x].status \in Terminal
  <2>1. \A x \in Orders : place'[x] \in Ended \cup {"finalize", "settle"}
    BY <1>4, <1>8
  <2>2. \A x \in Orders : ~Releasing(x)'
    BY <1>1, <1>6, <1>8, <2>1 DEF Releasing, Ended
  <2> QED
    BY <1>1, <1>8, <2>1, <2>2 DEF Early, Ended
<1> QED
  BY <1>1, <1>6, <1>9, <1>11, <1>12, <1>13, PostsNothing

(* The fill at hand has no row on the tape yet.                            *)
LEMMA NotYetTraded ==
    ASSUME IInv, OneRequest, MakersLive, InOrder, NEW o \in Orders,
           place[o] \in {"settle", "trade"}
    PROVE  ~TradeExists(o, CurrentFill.maker)
<1>1. TypeOK /\ place[o] \in Settling
  BY DEF IInv, Settling
<1>2. PICK n \in Nat \ {0} : n = pass.next
  BY <1>1, PassFacts
<1>3. n \in DOMAIN pass.fills /\ DOMAIN pass.fills = 1..Len(pass.fills) /\ Len(pass.fills) \in Nat
      /\ CurrentFill = pass.fills[n]
  BY <1>1, <1>2, CurrentFacts, PassFacts DEF CurrentFill
<1>4. PassOnTape(o, n - 1) /\ MakersOnce
  BY <1>1, <1>2, Unfinished DEF Written, MakersLive
<1> SUFFICES ASSUME NEW k \in DOMAIN trades, trades[k].taker = o,
                    trades[k].maker = CurrentFill.maker
             PROVE  FALSE
  BY DEF TradeExists
<1>5. PICK j \in 1..(n - 1) : pass.fills[j].maker = CurrentFill.maker
  BY <1>4 DEF PassOnTape
<1>6. j \in DOMAIN pass.fills /\ j # n
  BY <1>3
<1> QED
  BY <1>3, <1>4, <1>5, <1>6 DEF MakersOnce

(* What a step of a pass that has its fills may rely on.                   *)
LEMMA InsidePass ==
    ASSUME IInv, OneRequest, Accounted, NEW o \in Orders, place[o] \in Settling \cup {"finalize"}
    PROVE  /\ \A x \in Orders : x # o => place[x] \in Ended
           /\ \A x \in Orders : cancel[x] \in Ended
           /\ \A x \in Orders : orders[x].status # "PENDING"
           /\ place[o] # "makerRelease" => \A x \in Orders : ~Releasing(x)
           /\ \A j \in DOMAIN pass.fills : Whole(pass.fills[j])
           /\ pass.filled = QuantityUpTo(pass.fills, Len(pass.fills))
           /\ pass.quote = QuoteUpTo(pass.fills, Len(pass.fills))
           /\ IF BudgetDriven(orders[o]) THEN pass.quote <= orders[o].budget
                                         ELSE pass.filled <= orders[o].quantity
           /\ place[o] = "finalize" => pass.next = Len(pass.fills) + 1
           /\ FillsDue(Due(place[o]))
<1>1. PassAdds /\ Referenced
  BY DEF Accounted, Ledgered
<1>2. place[o] \notin Ended /\ place[o] \notin {"lock", "reject", "open"} /\ place[o] \in Matching
      /\ place[o] # "takerRelease"
  BY DEF Settling, Ended, Matching
<1>3. /\ \A x \in Orders : x # o => place[x] \in Ended
      /\ \A x \in Orders : cancel[x] \in Ended
      /\ \A x \in Orders : orders[x].status # "PENDING"
  BY <1>1, <1>2, OthersQuiet
<1>4. place[o] # "makerRelease" => \A x \in Orders : ~Releasing(x)
  BY <1>2, <1>3 DEF Releasing, Ended
<1> QED
  BY <1>1, <1>2, <1>3, <1>4 DEF PassAdds

LEMMA CreateTradeAccounted ==
    ASSUME IInv, Alone, InOrder, ClosedStay, Accounted, NEW o \in Orders, CreateTrade(o)
    PROVE  Accounted'
<1>1. /\ place[o] = "trade" /\ orders' = orders /\ cancel' = cancel /\ pass' = pass
      /\ balance' = balance /\ posted' = posted /\ GoPlace(o, "maker")
  BY DEF CreateTrade
<1>2. place'[o] = "maker" /\ \A x \in Orders : x # o => place'[x] = place[x]
  BY <1>1, PlaceTyped DEF GoPlace, PlaceStates, InPass, IInv
<1>3. TermsKept /\ Orders' = Orders
  BY <1>1, TermsUntouched DEF IInv, Orders
<1>4. /\ \A x \in Orders : x # o => place[x] \in Ended
      /\ \A x \in Orders : cancel[x] \in Ended
      /\ \A x \in Orders : orders[x].status # "PENDING"
      /\ \A x \in Orders : ~Releasing(x)
      /\ Booked
  BY <1>1, InsidePass DEF Settling, Alone, Accounted, Ledgered
<1>5. Moved' = Moved
  <2>1. ~TradeExists(o, CurrentFill.maker)
    BY <1>1, NotYetTraded DEF Alone
  <2>2. trades' = Append(trades, TradeRow(o, CurrentFill))
    BY <2>1 DEF CreateTrade
  <2>3. Moved = Append(trades, TradeRow(o, CurrentFill))
    BY <1>1, MovedAt
  <2>4. \A x \in Orders' : place'[x] # "trade"
    BY <1>2, <1>3, <1>4 DEF Ended
  <2> QED
    BY <2>2, <2>3, <2>4, MovedElse
<1>6. PassAdds'
  <2>1. \A x \in Orders' : place'[x] \in Matching => x = o
    BY <1>2, <1>3, <1>4 DEF Ended, Matching, Settling
  <2>2. /\ \A j \in DOMAIN pass.fills : Whole(pass.fills[j])
        /\ pass.filled = QuantityUpTo(pass.fills, Len(pass.fills))
        /\ pass.quote = QuoteUpTo(pass.fills, Len(pass.fills))
        /\ IF BudgetDriven(orders[o]) THEN pass.quote <= orders[o].budget
                                      ELSE pass.filled <= orders[o].quantity
        /\ FillsDue(pass.next)
    <3>1. place[o] \in Settling \cup {"finalize"} /\ Due(place[o]) = pass.next
      BY <1>1 DEF Settling, Due
    <3> QED
      BY <3>1, InsidePass DEF Alone
  <2>3. FillsDue(Due(place[o]))'
    BY <1>1, <1>2, <2>2 DEF FillsDue, Remaining, Due
  <2> QED
    BY <1>1, <1>2, <2>1, <2>2, <2>3 DEF PassAdds, Whole, TradeRowAllowed
<1>7. Booked'
  <2>1. orders' \in Seq(OrderRows)
    BY <1>3 DEF TermsKept, RowsKept
  <2>2. /\ o \in Orders' /\ place'[o] \in Matching /\ place[o] \in Matching
        /\ \A x \in Orders' : x # o => place'[x] \in Ended
    BY <1>1, <1>2, <1>3, <1>4 DEF Matching, Settling
  <2>3. /\ CurrentFill' = CurrentFill /\ \A x : Behind(o, x)' <=> Behind(o, x)
        /\ DoneWith(place[o])' = DoneWith(place[o])
    BY <1>1, <1>2 DEF Behind, DoneWith, CurrentFill
  <2>4. ASSUME NEW x \in Orders
        PROVE  KnownQuantity(x)' = KnownQuantity(x) /\ KnownQuote(x)' = KnownQuote(x)
    <3>1. CASE x = o
      BY <1>1, <2>1, <2>2, <2>3, <3>1, KnownNow, KnownNext DEF IInv, Alone
    <3>2. CASE x # o /\ Behind(o, x)
      <4>1. /\ KnownQuantity(x) = orders[x].filled + CurrentFill.quantity
            /\ KnownQuote(x) = orders[x].spent + CurrentFill.quoteAmount
        BY <2>2, <3>2, KnownNow DEF IInv, Alone
      <4>2. /\ KnownQuantity(x)' = orders'[x].filled + CurrentFill'.quantity
            /\ KnownQuote(x)' = orders'[x].spent + CurrentFill'.quoteAmount
        BY <1>3, <2>1, <2>2, <2>3, <3>2, KnownNext
      <4> QED
        BY <1>1, <2>3, <4>1, <4>2
    <3>3. CASE x # o /\ ~Behind(o, x)
      <4>1. KnownQuantity(x) = orders[x].filled /\ KnownQuote(x) = orders[x].spent
        BY <2>2, <3>3, KnownNow DEF IInv, Alone
      <4>2. KnownQuantity(x)' = orders'[x].filled /\ KnownQuote(x)' = orders'[x].spent
        BY <1>3, <2>1, <2>2, <2>3, <3>3, KnownNext
      <4> QED
        BY <1>1, <4>1, <4>2
    <3> QED
      BY <3>1, <3>2, <3>3
  <2> QED
    BY <1>3, <1>4, <1>5, <2>4 DEF Booked
<1>8. \A x \in Orders :
         /\ place'[x] \notin Early \cup {"reject"} /\ ~Releasing(x)
         /\ orders'[x].status = "PENDING" => orders[x].status = "PENDING"
         /\ orders[x].status # "PENDING"
         /\ Releasing(x)' => /\ orders'[x].status \in Terminal
                             /\ LockRef(x) \in posted /\ UnlockRef(x) \notin posted
         /\ orders'[x].status \in Terminal /\ ~Releasing(x)' =>
               orders[x].status \in Terminal
  <2>1. \A x \in Orders : place'[x] \in Ended \cup {"maker"}
    BY <1>2, <1>4
  <2>2. \A x \in Orders : ~Releasing(x)'
    BY <1>1, <1>3, <1>4, <2>1 DEF Releasing, Ended
  <2> QED
    BY <1>1, <1>4, <2>1, <2>2 DEF Early, Ended
<1> QED
  BY <1>1, <1>3, <1>5, <1>6, <1>7, <1>8, PostsNothing

(* What the row of a maker becomes, and where the pass goes from there.    *)
MakerMoves(o, m, pc) ==
    /\ place' = [place EXCEPT ![o] = pc] /\ pass'.fills = pass.fills
    /\ pass'.filled = pass.filled /\ pass'.quote = pass.quote
    /\ pc = "makerRelease" =>
          orders'[m].status = "FILLED" /\ pass'.next = pass.next
    /\ pc # "makerRelease" => pass'.next = pass.next + 1
    /\ pc = "finalize" => pass'.next > Len(pass.fills)

LEMMA UpdateMakerMoves ==
    ASSUME IInv, NEW o \in Orders, UpdateMaker(o), NEW m, m = CurrentFill.maker
    PROVE  /\ m \in Orders /\ m # o /\ LockRef(m) \in posted /\ TermsKept
           /\ \A x \in Orders : x # m => orders'[x] = orders[x]
           /\ orders'[m].filled = orders[m].filled + CurrentFill.quantity
           /\ orders'[m].spent = orders[m].spent + CurrentFill.quoteAmount
           /\ \E pc \in {"settle", "finalize", "makerRelease"} :
                 /\ MakerMoves(o, m, pc)
                 /\ pc # "makerRelease" => orders'[m].status = "PARTIALLY_FILLED"
<1>1. /\ m \in Orders /\ m # o /\ LockRef(m) \in posted /\ RowsKept
      /\ \A x \in Orders : x # m => orders'[x] = orders[x]
      /\ orders'[m].filled = orders[m].filled + CurrentFill.quantity
      /\ orders'[m].spent = orders[m].spent + CurrentFill.quoteAmount
      /\ orders'[m].locked = orders[m].locked /\ orders'[m].budget = orders[m].budget
      /\ orders'[m].status = IF orders[m].quantity
                                   - (orders[m].filled + CurrentFill.quantity) <= 0
                             THEN "FILLED" ELSE "PARTIALLY_FILLED"
  BY UpdateMakerRows
<1>2. TermsKept
  BY <1>1 DEF TermsKept
<1>3. CASE orders[m].quantity - (orders[m].filled + CurrentFill.quantity) <= 0
  <2>1. GoPlace(o, "makerRelease") /\ pass' = pass
    BY <1>3 DEF UpdateMaker
  <2>2. MakerMoves(o, m, "makerRelease")
    BY <1>1, <1>3, <2>1 DEF MakerMoves, GoPlace
  <2> QED
    BY <1>1, <1>2, <2>2
<1>4. CASE ~(orders[m].quantity - (orders[m].filled + CurrentFill.quantity) <= 0)
  <2>1. AfterFill(o, pass.next + 1) /\ orders'[m].status = "PARTIALLY_FILLED"
    BY <1>1, <1>4 DEF UpdateMaker
  <2>2. PICK pc \in {"settle", "finalize"} :
            /\ place' = [place EXCEPT ![o] = pc]
            /\ pass'.fills = pass.fills /\ pass'.next = pass.next + 1
            /\ pass'.filled = pass.filled /\ pass'.quote = pass.quote
            /\ pc = "finalize" => pass'.next > Len(pass.fills)
    BY <2>1, NextFill DEF IInv
  <2>3. MakerMoves(o, m, pc)
    BY <2>2 DEF MakerMoves
  <2> QED
    BY <1>1, <1>2, <2>1, <2>2, <2>3
<1> QED
  BY <1>3, <1>4

(* A fill done with, the fills still due are due as before.                *)
LEMMA FillsDueNext ==
    ASSUME IInv, MakersOnce, NEW o \in Orders, place[o] \in Settling, NEW n, n = pass.next,
           pass'.fills = pass.fills, FillsDue(n) \/ FillsDue(n + 1), NEW m, m = CurrentFill.maker,
           \A x \in Orders : x # m => orders'[x] = orders[x]
    PROVE  FillsDue(n + 1)'
<1>1. /\ n \in Nat \ {0} /\ n \in DOMAIN pass.fills /\ DOMAIN pass.fills \subseteq Nat
      /\ \A k \in DOMAIN pass.fills : pass.fills[k].maker \in Orders
      /\ m = pass.fills[n].maker
  BY PassFacts, CurrentFacts DEF IInv, Settling, CurrentFill
<1> SUFFICES ASSUME NEW j \in DOMAIN pass.fills, j >= n + 1
             PROVE  pass.fills[j].quantity <= Remaining(pass.fills[j].maker)'
  BY <1>1 DEF FillsDue
<1>2. j # n /\ j >= n
  BY <1>1
<1>3. pass.fills[j].maker # m
  BY <1>1, <1>2 DEF MakersOnce
<1>4. Remaining(pass.fills[j].maker)' = Remaining(pass.fills[j].maker)
  BY <1>1, <1>3 DEF Remaining
<1> QED
  BY <1>2, <1>4 DEF FillsDue

LEMMA UpdateMakerAccounted ==
    ASSUME IInv, Alone, ClosedStay, Accounted, NEW o \in Orders, UpdateMaker(o)
    PROVE  Accounted'
<1>1. /\ place[o] = "maker" /\ cancel' = cancel /\ trades' = trades
      /\ balance' = balance /\ posted' = posted
  BY DEF UpdateMaker
<1>2. PICK m : m = CurrentFill.maker
  OBVIOUS
<1>3. /\ m \in Orders /\ m # o /\ LockRef(m) \in posted /\ TermsKept
      /\ \A x \in Orders : x # m => orders'[x] = orders[x]
      /\ orders'[m].filled = orders[m].filled + CurrentFill.quantity
      /\ orders'[m].spent = orders[m].spent + CurrentFill.quoteAmount
      /\ \E pc \in {"settle", "finalize", "makerRelease"} :
            /\ MakerMoves(o, m, pc)
            /\ pc # "makerRelease" => orders'[m].status = "PARTIALLY_FILLED"
  BY <1>2, UpdateMakerMoves
<1>4. PICK pc \in {"settle", "finalize", "makerRelease"} :
         /\ MakerMoves(o, m, pc)
         /\ pc # "makerRelease" => orders'[m].status = "PARTIALLY_FILLED"
  BY <1>3
<1>5. /\ place'[o] = pc /\ \A x \in Orders : x # o => place'[x] = place[x]
      /\ pass'.fills = pass.fills /\ pass'.filled = pass.filled /\ pass'.quote = pass.quote
      /\ pc = "makerRelease" => orders'[m].status = "FILLED" /\ pass'.next = pass.next
      /\ pc # "makerRelease" => pass'.next = pass.next + 1
      /\ pc = "finalize" => pass'.next > Len(pass.fills)
  BY <1>4, PlaceTyped DEF MakerMoves, PlaceStates, InPass, IInv
<1>6. Orders' = Orders /\ orders' \in Seq(OrderRows) /\ orders'[o] = orders[o]
  BY <1>3 DEF TermsKept, RowsKept
<1>7. /\ \A x \in Orders : x # o => place[x] \in Ended
      /\ \A x \in Orders : cancel[x] \in Ended
      /\ \A x \in Orders : orders[x].status # "PENDING"
      /\ \A x \in Orders : ~Releasing(x)
      /\ \A j \in DOMAIN pass.fills : Whole(pass.fills[j])
      /\ pass.filled = QuantityUpTo(pass.fills, Len(pass.fills))
      /\ pass.quote = QuoteUpTo(pass.fills, Len(pass.fills))
      /\ IF BudgetDriven(orders[o]) THEN pass.quote <= orders[o].budget
                                    ELSE pass.filled <= orders[o].quantity
      /\ FillsDue(pass.next)
  <2>1. place[o] \in Settling \cup {"finalize"} /\ Due(place[o]) = pass.next
        /\ place[o] # "makerRelease"
    BY <1>1 DEF Settling, Due
  <2> QED
    BY <2>1, InsidePass DEF Alone
<1>8. Moved' = Moved
  <2>1. \A x \in Orders : place[x] # "trade" /\ place'[x] # "trade"
    BY <1>1, <1>5, <1>7 DEF Ended
  <2> QED
    BY <1>1, <1>6, <2>1, MovedElse
<1>9. PICK n \in Nat \ {0} : n = pass.next /\ n <= Len(pass.fills) /\ Len(pass.fills) \in Nat
  BY <1>1, PassFacts, CurrentFacts DEF IInv
<1>10. PassAdds'
  <2>1. \A x \in Orders' : place'[x] \in Matching => x = o
    BY <1>5, <1>6, <1>7 DEF Ended, Matching, Settling
  <2>2. FillsDue(Due(place[o]))'
    <3>1. MakersOnce /\ place[o] \in Settling
      BY <1>1 DEF Alone, MakersLive, Settling
    <3>2. FillsDue(n + 1)'
      BY <1>2, <1>3, <1>5, <1>7, <1>9, <3>1, FillsDueNext
    <3>3. Due(place[o])' = n + 1
      BY <1>5, <1>9 DEF Due
    <3> QED
      BY <3>2, <3>3 DEF FillsDue, Due
  <2>3. place'[o] = "finalize" => pass'.next = Len(pass.fills) + 1
    BY <1>5, <1>9
  <2>4. \A j \in DOMAIN pass'.fills : Whole(pass'.fills[j])
    BY <1>5, <1>7
  <2> QED
    BY <1>5, <1>6, <1>7, <2>1, <2>2, <2>3, <2>4 DEF PassAdds, Whole, TradeRowAllowed
<1>11. Booked'
  <2>1. /\ o \in Orders' /\ place'[o] \in Matching /\ place[o] \in Matching
        /\ \A x \in Orders' : x # o => place'[x] \in Ended
    BY <1>1, <1>5, <1>6, <1>7 DEF Matching, Settling
  <2>2. DoneWith(place[o])' = DoneWith(place[o])
    BY <1>1, <1>5, <1>9 DEF DoneWith
  <2>3. (\A x : ~Behind(o, x)') /\ \A x : Behind(o, x) <=> x = m
    BY <1>1, <1>2, <1>5 DEF Behind
  <2>4. ASSUME NEW x \in Orders
        PROVE  KnownQuantity(x)' = KnownQuantity(x) /\ KnownQuote(x)' = KnownQuote(x)
    <3>1. CASE x = o
      BY <1>5, <1>6, <2>1, <2>2, <3>1, KnownNow, KnownNext DEF IInv, Alone
    <3>2. CASE x # o
      <4>1. KnownQuantity(x)' = orders'[x].filled /\ KnownQuote(x)' = orders'[x].spent
        BY <1>6, <2>1, <2>3, <3>2, KnownNext
      <4>2. x = m => /\ KnownQuantity(x) = orders[x].filled + CurrentFill.quantity
                     /\ KnownQuote(x) = orders[x].spent + CurrentFill.quoteAmount
        BY <2>1, <2>3, <3>2, KnownNow DEF IInv, Alone
      <4>3. x # m => KnownQuantity(x) = orders[x].filled /\ KnownQuote(x) = orders[x].spent
        BY <2>1, <2>3, <3>2, KnownNow DEF IInv, Alone
      <4> QED
        BY <1>3, <4>1, <4>2, <4>3
    <3> QED
      BY <3>1, <3>2
  <2> QED
    BY <1>6, <1>8, <2>4 DEF Booked, Accounted, Ledgered
<1>12. /\ orders[m].status \in Open /\ orders[m].status \notin Terminal
       /\ UnlockRef(m) \notin posted
  <2>1. MakersDue(pass.next) /\ m = pass.fills[pass.next].maker /\ pass.next \in DOMAIN pass.fills
    <3>1. place[o] \in Settling /\ Due(place[o]) = pass.next
      BY <1>1 DEF Settling, Due
    <3> QED
      BY <1>1, <1>2, <3>1, CurrentFacts DEF Alone, MakersLive, CurrentFill
  <2>2. orders[m].status \in Open
    BY <1>9, <2>1 DEF MakersDue
  <2>3. orders[m].status \notin Terminal
    BY <2>2 DEF Open, Terminal
  <2> QED
    BY <1>3, <2>2, <2>3 DEF Accounted, Ledgered, Referenced
<1>13. \A x \in Orders : Releasing(x)' <=> x = m /\ pc = "makerRelease"
  <2>1. \A x \in Orders' : cancel'[x] # "release" /\ place'[x] # "takerRelease"
                           /\ (place'[x] = "makerRelease" <=> x = o /\ pc = "makerRelease")
    BY <1>1, <1>5, <1>6, <1>7 DEF Ended
  <2>2. pc = "makerRelease" => CurrentFill'.maker = m
    BY <1>2, <1>5 DEF CurrentFill
  <2> QED
    BY <1>6, <2>1, <2>2 DEF Releasing
<1>14. \A x \in Orders :
         /\ place'[x] \notin Early \cup {"reject"} /\ ~Releasing(x)
         /\ orders'[x].status = "PENDING" => orders[x].status = "PENDING"
         /\ orders[x].status # "PENDING"
         /\ Releasing(x)' => /\ orders'[x].status \in Terminal
                             /\ LockRef(x) \in posted /\ UnlockRef(x) \notin posted
         /\ orders'[x].status \in Terminal /\ ~Releasing(x)' =>
               orders[x].status \in Terminal
  <2> SUFFICES ASSUME NEW x \in Orders
               PROVE  /\ place'[x] \notin Early \cup {"reject"} /\ ~Releasing(x)
                      /\ orders'[x].status = "PENDING" => orders[x].status = "PENDING"
                      /\ orders[x].status # "PENDING"
                      /\ Releasing(x)' => /\ orders'[x].status \in Terminal
                                          /\ LockRef(x) \in posted /\ UnlockRef(x) \notin posted
                      /\ orders'[x].status \in Terminal /\ ~Releasing(x)' =>
                            orders[x].status \in Terminal
    OBVIOUS
  <2>1. place'[x] \notin Early \cup {"reject"}
    BY <1>5, <1>7 DEF Early, Ended
  <2>2. CASE x # m
    BY <1>3, <1>7, <1>13, <2>1, <2>2
  <2>3. CASE x = m /\ pc = "makerRelease"
    BY <1>3, <1>5, <1>7, <1>12, <1>13, <2>1, <2>3 DEF Terminal
  <2>4. CASE x = m /\ pc # "makerRelease"
    BY <1>4, <1>7, <1>13, <2>1, <2>4 DEF Terminal
  <2> QED
    BY <2>2, <2>3, <2>4
<1> QED
  BY <1>1, <1>3, <1>8, <1>10, <1>11, <1>14, PostsNothing

(* The taker's row takes the totals of its pass, which are what it traded. *)
LEMMA FinalizeTakerAccounted ==
    ASSUME IInv, Alone, ClosedStay, Accounted, NEW o \in Orders, FinalizeTaker(o)
    PROVE  Accounted'
<1>1. /\ place[o] = "finalize" /\ cancel' = cancel /\ trades' = trades
      /\ balance' = balance /\ posted' = posted
  BY DEF FinalizeTaker
<1>2. /\ RowsKept /\ \A x \in Orders : x # o => orders'[x] = orders[x]
      /\ orders'[o].filled = pass.filled /\ orders'[o].spent = pass.quote
      /\ orders'[o].locked = orders[o].locked /\ orders'[o].budget = orders[o].budget
      /\ orders'[o].status = TakerStatus(o) /\ TakerStatus(o) # "PENDING"
  BY FinalizeTakerRows
<1>3. TermsKept /\ Orders' = Orders /\ orders' \in Seq(OrderRows)
  BY <1>2 DEF TermsKept, RowsKept
<1>4. PICK pc \in {"takerRelease", "done"} :
         /\ place' = [place EXCEPT ![o] = pc]
         /\ pc = "takerRelease" <=> TakerStatus(o) \in Terminal
  BY DEF FinalizeTaker, GoPlace
<1>5. place'[o] = pc /\ \A x \in Orders : x # o => place'[x] = place[x]
  BY <1>4, PlaceTyped DEF PlaceStates, InPass, IInv
<1>6. /\ \A x \in Orders : x # o => place[x] \in Ended
      /\ \A x \in Orders : cancel[x] \in Ended
      /\ \A x \in Orders : orders[x].status # "PENDING"
      /\ \A x \in Orders : ~Releasing(x)
      /\ pass.filled = QuantityUpTo(pass.fills, Len(pass.fills))
      /\ pass.quote = QuoteUpTo(pass.fills, Len(pass.fills))
      /\ pass.next = Len(pass.fills) + 1
  <2>1. place[o] \in Settling \cup {"finalize"} /\ place[o] # "makerRelease"
    BY <1>1
  <2> QED
    BY <1>1, <2>1, InsidePass DEF Alone
<1>7. \A x \in Orders : place'[x] \in Ended \cup {"takerRelease"}
  BY <1>5, <1>6 DEF Ended
<1>8. /\ Moved' = Moved /\ PassAdds'
      /\ \A x \in Orders : /\ KnownQuantity(x)' = orders'[x].filled
                           /\ KnownQuote(x)' = orders'[x].spent
  <2>1. \A x \in Orders' : place'[x] \notin Matching
    BY <1>3, <1>7 DEF Ended, Matching, Settling
  <2>2. \A x \in Orders : place[x] # "trade"
    BY <1>1, <1>6 DEF Ended
  <2> QED
    BY <1>1, <1>3, <2>1, <2>2, OutsideNext, MovedElse
<1>9. Booked'
  <2>1. place[o] \in Matching /\ \A x : ~Behind(o, x)
    BY <1>1 DEF Matching, Behind
  <2>2. DoneWith(place[o]) = Len(pass.fills)
    BY <1>1, <1>6, PassFacts DEF DoneWith, IInv
  <2>3. KnownQuantity(o) = pass.filled /\ KnownQuote(o) = pass.quote
    BY <1>6, <2>1, <2>2, KnownNow DEF IInv, Alone
  <2>4. \A x \in Orders : x # o => /\ KnownQuantity(x) = orders[x].filled
                                   /\ KnownQuote(x) = orders[x].spent
    BY <2>1, KnownNow DEF IInv, Alone
  <2>5. \A x \in Orders : KnownQuantity(x)' = KnownQuantity(x) /\ KnownQuote(x)' = KnownQuote(x)
    BY <1>2, <1>8, <2>3, <2>4
  <2> QED
    BY <1>3, <1>8, <2>5 DEF Booked, Accounted, Ledgered
<1>10. /\ orders[o].status \notin Terminal /\ LockRef(o) \in posted
       /\ UnlockRef(o) \notin posted
  <2>1. orders[o].status \notin Terminal
    BY <1>1 DEF Alone, TakerLive, Ended
  <2> QED
    BY <1>1, <2>1 DEF Accounted, Ledgered, Referenced, IInv, Reserved, LockTaken, InPass
<1>11. \A x \in Orders : Releasing(x)' <=> x = o /\ pc = "takerRelease"
  BY <1>1, <1>3, <1>5, <1>6, <1>7 DEF Releasing, Ended
<1>12. \A x \in Orders :
          /\ place'[x] \notin Early \cup {"reject"} /\ ~Releasing(x)
          /\ orders'[x].status = "PENDING" => orders[x].status = "PENDING"
          /\ orders[x].status # "PENDING"
          /\ Releasing(x)' => /\ orders'[x].status \in Terminal
                              /\ LockRef(x) \in posted /\ UnlockRef(x) \notin posted
          /\ orders'[x].status \in Terminal /\ ~Releasing(x)' =>
                orders[x].status \in Terminal
  <2> SUFFICES ASSUME NEW x \in Orders
               PROVE  /\ place'[x] \notin Early \cup {"reject"} /\ ~Releasing(x)
                      /\ orders'[x].status = "PENDING" => orders[x].status = "PENDING"
                      /\ orders[x].status # "PENDING"
                      /\ Releasing(x)' => /\ orders'[x].status \in Terminal
                                          /\ LockRef(x) \in posted /\ UnlockRef(x) \notin posted
                      /\ orders'[x].status \in Terminal /\ ~Releasing(x)' =>
                            orders[x].status \in Terminal
    OBVIOUS
  <2>1. place'[x] \notin Early \cup {"reject"}
    BY <1>7 DEF Early, Ended
  <2>2. CASE x # o
    BY <1>2, <1>6, <1>11, <2>1, <2>2
  <2>3. CASE x = o
    BY <1>2, <1>4, <1>6, <1>10, <1>11, <2>1, <2>3
  <2> QED
    BY <2>2, <2>3
<1> QED
  BY <1>1, <1>3, <1>8, <1>9, <1>12, PostsNothing

(* A maker filled completely gives back what it did not spend.             *)
LEMMA MakerReleases ==
    ASSUME IInv, Alone, Accounted, NEW o \in Orders, place[o] = "makerRelease",
           NEW m, m = CurrentFill.maker
    PROVE  /\ m \in Orders /\ m # o /\ Releasing(m) /\ \A x \in Orders : Releasing(x) => x = m
           /\ place[m] \notin Matching /\ ~Awaits(m)
           /\ LockRef(m) \in posted /\ UnlockRef(m) \notin posted
<1>1. m \in Orders /\ m # o
  BY CurrentFacts DEF FillSound
<1>2. /\ \A x \in Orders : x # o => place[x] \in Ended
      /\ \A x \in Orders : cancel[x] \in Ended
  BY InsidePass DEF Settling, Alone
<1>3. Releasing(m) /\ \A x \in Orders : Releasing(x) => x = m
  BY <1>1, <1>2 DEF Releasing, Ended
<1>4. place[m] \notin Matching /\ ~Awaits(m)
  BY <1>1, <1>2 DEF Ended, Matching, Settling, Awaits
<1> QED
  BY <1>1, <1>3, <1>4 DEF Accounted, Ledgered, Referenced

LEMMA ReleaseMakerAccounted ==
    ASSUME IInv, Sequential, Alone, Accounted, NEW o \in Orders, ReleaseMaker(o)
    PROVE  Accounted'
<1>1. /\ place[o] = "makerRelease" /\ cancel' = cancel /\ trades' = trades /\ orders' = orders
      /\ releaseSurplus(CurrentFill.maker) /\ AfterFill(o, pass.next + 1)
  BY DEF ReleaseMaker
<1>2. PICK m : m = CurrentFill.maker
  OBVIOUS
<1>3. /\ m \in Orders /\ m # o /\ Releasing(m) /\ \A x \in Orders : Releasing(x) => x = m
      /\ place[m] \notin Matching /\ ~Awaits(m)
      /\ LockRef(m) \in posted /\ UnlockRef(m) \notin posted
  BY <1>1, <1>2, MakerReleases
<1>4. PICK pc \in {"settle", "finalize"} :
         /\ place' = [place EXCEPT ![o] = pc]
         /\ pass'.fills = pass.fills /\ pass'.next = pass.next + 1
         /\ pass'.filled = pass.filled /\ pass'.quote = pass.quote
         /\ pc = "finalize" => pass'.next > Len(pass.fills)
  BY <1>1, NextFill DEF IInv
<1>5. place'[o] = pc /\ \A x \in Orders : x # o => place'[x] = place[x]
  BY <1>4, PlaceTyped DEF PlaceStates, InPass, IInv
<1>6. TermsKept /\ Orders' = Orders /\ orders' \in Seq(OrderRows)
  <2>1. TermsKept
    BY <1>1, TermsUntouched DEF IInv
  <2> QED
    BY <2>1 DEF TermsKept, RowsKept
<1>7. /\ \A x \in Orders : x # o => place[x] \in Ended
      /\ \A x \in Orders : cancel[x] \in Ended
      /\ \A x \in Orders : orders[x].status # "PENDING"
      /\ \A j \in DOMAIN pass.fills : Whole(pass.fills[j])
      /\ pass.filled = QuantityUpTo(pass.fills, Len(pass.fills))
      /\ pass.quote = QuoteUpTo(pass.fills, Len(pass.fills))
      /\ IF BudgetDriven(orders[o]) THEN pass.quote <= orders[o].budget
                                    ELSE pass.filled <= orders[o].quantity
      /\ FillsDue(pass.next + 1)
  <2>1. place[o] \in Settling \cup {"finalize"} /\ Due(place[o]) = pass.next + 1
    BY <1>1 DEF Settling, Due
  <2> QED
    BY <2>1, InsidePass DEF Alone
<1>8. Moved' = Moved
  <2>1. \A x \in Orders : place[x] # "trade" /\ place'[x] # "trade"
    BY <1>1, <1>5, <1>7 DEF Ended
  <2> QED
    BY <1>1, <1>6, <2>1, MovedElse
<1>9. PICK n \in Nat \ {0} : n = pass.next /\ n <= Len(pass.fills) /\ Len(pass.fills) \in Nat
  BY <1>1, PassFacts, CurrentFacts DEF IInv
<1>10. PassAdds'
  <2>1. \A x \in Orders' : place'[x] \in Matching => x = o
    BY <1>5, <1>6, <1>7 DEF Ended, Matching, Settling
  <2>2. FillsDue(Due(place[o]))'
    <3>1. MakersOnce /\ place[o] \in Settling
      BY <1>1 DEF Alone, MakersLive, Settling
    <3>2. \A x \in Orders : x # m => orders'[x] = orders[x]
      BY <1>1
    <3>3. FillsDue(n + 1)'
      BY <1>2, <1>4, <1>7, <1>9, <3>1, <3>2, FillsDueNext
    <3>4. Due(place[o])' = n + 1
      BY <1>4, <1>5, <1>9 DEF Due
    <3> QED
      BY <3>3, <3>4 DEF FillsDue, Due
  <2>3. place'[o] = "finalize" => pass'.next = Len(pass.fills) + 1
    BY <1>4, <1>5, <1>9
  <2>4. \A j \in DOMAIN pass'.fills : Whole(pass'.fills[j])
    BY <1>4, <1>7
  <2> QED
    BY <1>1, <1>4, <1>7, <2>1, <2>2, <2>3, <2>4 DEF PassAdds, Whole, TradeRowAllowed
<1>11. Booked'
  <2>1. /\ o \in Orders' /\ place'[o] \in Matching /\ place[o] \in Matching
        /\ \A x \in Orders' : x # o => place'[x] \in Ended
    BY <1>1, <1>5, <1>6, <1>7 DEF Matching, Settling
  <2>2. DoneWith(place[o])' = DoneWith(place[o])
    BY <1>1, <1>4, <1>5, <1>9 DEF DoneWith
  <2>3. \A x : ~Behind(o, x)' /\ ~Behind(o, x)
    BY <1>1, <1>5 DEF Behind
  <2>4. ASSUME NEW x \in Orders
        PROVE  KnownQuantity(x)' = KnownQuantity(x) /\ KnownQuote(x)' = KnownQuote(x)
    <3>1. CASE x = o
      BY <1>4, <1>6, <2>1, <2>2, <3>1, KnownNow, KnownNext DEF IInv, Alone
    <3>2. CASE x # o
      <4>1. KnownQuantity(x)' = orders'[x].filled /\ KnownQuote(x)' = orders'[x].spent
        BY <1>6, <2>1, <2>3, <3>2, KnownNext
      <4>2. KnownQuantity(x) = orders[x].filled /\ KnownQuote(x) = orders[x].spent
        BY <2>1, <2>3, <3>2, KnownNow DEF IInv, Alone
      <4> QED
        BY <1>1, <4>1, <4>2
    <3> QED
      BY <3>1, <3>2
  <2> QED
    BY <1>6, <1>8, <2>4 DEF Booked, Accounted, Ledgered
<1>12. Covered' /\ Backed'
  <2>1. Booked /\ Covered /\ Backed
    BY DEF Accounted, Ledgered
  <2>2. Covered'
    BY <1>6, <1>8, <2>1, CoveredStays
  <2>3. Backed'
    BY <1>1, <1>2, <1>3, <1>8, <2>1, GivesBack
  <2> QED
    BY <2>2, <2>3
<1>13. \A x \in Orders : place'[x] \in Ended \cup {"settle", "finalize"}
  BY <1>5, <1>7
<1>14. Fresh'
  BY <1>6, <1>13 DEF Fresh, Ended
<1>15. Referenced' /\ GivenBack'
  <2>1. \A x \in Orders : ~Releasing(x)'
    BY <1>1, <1>6, <1>7, <1>13 DEF Releasing, Ended
  <2>2. \A x \in Orders :
           /\ ~Releasing(x)' /\ (Releasing(x) => x = m)
           /\ place'[x] \in {"lock", "reject"} => place[x] \in {"lock", "reject"}
           /\ orders[x].status = "PENDING" => place'[x] \in {"lock", "reject", "open"}
    BY <1>3, <1>7, <1>13, <2>1 DEF Ended
  <2>3. Referenced /\ GivenBack
    BY DEF Accounted, Ledgered
  <2> QED
    BY <1>1, <1>2, <1>3, <1>8, <2>2, <2>3, ReleaseRefs
<1> QED
  BY <1>10, <1>11, <1>12, <1>14, <1>15 DEF Accounted, Ledgered

-----------------------------------------------------------------------------
(* The settlement of a fill.                                               *)

(* Where a pass stands that is about to settle fill f with maker m.        *)
Settlement(o, f, m) ==
    /\ o \in Orders /\ place[o] = "settle" /\ f = CurrentFill /\ m = f.maker

LEMMA SettlementFacts ==
    ASSUME IInv, Alone, InOrder, Accounted, NEW o, NEW f, NEW m, Settlement(o, f, m)
    PROVE  /\ m \in Orders /\ m # o /\ f.price \in Nat /\ f.quantity \in Nat
           /\ f.quoteAmount \in Nat /\ FillSound(o, f) /\ Whole(f)
           /\ f.quantity <= Remaining(m) /\ Moved = trades
           /\ TradeRef(o, m) \notin posted
<1> USE DEF Settlement
<1>1. /\ m \in Orders /\ f.price \in Nat /\ f.quantity \in Nat
      /\ f.quoteAmount \in Nat /\ FillSound(o, f)
      /\ pass.next \in DOMAIN pass.fills /\ f = pass.fills[pass.next]
  BY CurrentFacts DEF CurrentFill
<1>2. m # o
  BY <1>1 DEF FillSound
<1>3. /\ \A x \in Orders : x # o => place[x] \in Ended
      /\ \A j \in DOMAIN pass.fills : Whole(pass.fills[j])
      /\ FillsDue(pass.next)
  <2>1. place[o] \in Settling \cup {"finalize"} /\ Due(place[o]) = pass.next
    BY DEF Settling, Due
  <2> QED
    BY <2>1, InsidePass DEF Alone
<1>4. Whole(f) /\ f.quantity <= Remaining(m)
  <2>1. pass.next >= pass.next
    BY PassFacts DEF IInv
  <2> QED
    BY <1>1, <1>3, <2>1 DEF FillsDue
<1>5. Moved = trades
  <2>1. \A x \in Orders : place[x] # "trade"
    BY <1>3 DEF Ended
  <2> QED
    BY <2>1, MovedElse
<1>6. TradeRef(o, m) \notin posted
  <2> SUFFICES ASSUME TradeRef(o, m) \in posted PROVE FALSE
    OBVIOUS
  <2>1. \E k \in DOMAIN Moved : Moved[k].taker = o /\ Moved[k].maker = m
    BY <1>1 DEF Accounted, Ledgered, Referenced
  <2>2. TradeExists(o, CurrentFill.maker)
    BY <1>5, <2>1 DEF TradeExists
  <2>3. ~TradeExists(o, CurrentFill.maker)
    BY NotYetTraded DEF Alone
  <2> QED
    BY <2>2, <2>3
<1> QED
  BY <1>1, <1>2, <1>4, <1>5, <1>6

(* What both parties will have traded is within what they came with.       *)
LEMMA MakerInBounds ==
    ASSUME IInv, Alone, InOrder, Accounted, NEW o, NEW f, NEW m, Settlement(o, f, m)
    PROVE  /\ InBounds(orders[m], QuantityOn(trades, m) + f.quantity,
                       QuoteOn(trades, m) + f.quoteAmount)
           /\ QuantityOn(trades, m) = orders[m].filled /\ QuoteOn(trades, m) = orders[m].spent
<1>1. /\ m \in Orders /\ m # o /\ f.price \in Nat /\ f.quantity \in Nat
      /\ f.quoteAmount \in Nat /\ FillSound(o, f) /\ Whole(f)
      /\ f.quantity <= Remaining(m) /\ Moved = trades /\ o \in Orders /\ m = f.maker
  BY SettlementFacts DEF Settlement
<1>2. /\ orders[m].filled \in Nat /\ orders[m].spent \in Nat /\ orders[m].quantity \in Nat
      /\ orders[m].price \in Nat
  BY <1>1, TypeParts, RowsTyped DEF IInv
<1>3. QuantityOn(trades, m) = orders[m].filled /\ QuoteOn(trades, m) = orders[m].spent
  <2>1. place[o] \in Matching /\ ~Behind(o, m)
    BY DEF Settlement, Matching, Settling, Behind
  <2>2. KnownQuantity(m) = orders[m].filled /\ KnownQuote(m) = orders[m].spent
    BY <1>1, <2>1, KnownNow DEF IInv, Alone
  <2> QED
    BY <1>1, <2>2 DEF Accounted, Ledgered, Booked
<1>4. /\ orders[m].type = "LIMIT" /\ f.price = orders[m].price
      /\ f.quoteAmount * QScale = f.price * f.quantity
  BY <1>1 DEF FillSound, Whole, TradeRowAllowed
<1>5. orders[m].filled + f.quantity <= orders[m].quantity
  BY <1>1, <1>2 DEF Remaining
<1>6. ASSUME orders[m].side = "BUY"
      PROVE  (orders[m].spent + f.quoteAmount) * QScale
                <= orders[m].price * (orders[m].filled + f.quantity)
  <2>1. orders[m].spent * QScale <= orders[m].price * orders[m].filled
    BY <1>1, <1>3, <1>4, <1>6 DEF Accounted, Ledgered, Covered, InBounds
  <2>2. f.price <= orders[m].price
    BY <1>2, <1>4
  <2>3. PICK P \in Nat, p \in Nat, Q \in Nat, A \in Nat, q \in Nat, a \in Nat :
           /\ P = orders[m].price /\ p = f.price /\ Q = orders[m].filled
           /\ A = orders[m].spent /\ q = f.quantity /\ a = f.quoteAmount
    BY <1>1, <1>2
  <2>4. p <= P /\ A * QScale <= P * Q /\ a * QScale = p * q
    BY <1>4, <2>1, <2>2, <2>3
  <2>5. (A + a) * QScale <= P * (Q + q)
    BY <2>4, BoundGrows
  <2> QED
    BY <2>3, <2>5
<1> QED
  BY <1>3, <1>4, <1>5, <1>6 DEF InBounds, BudgetDriven

LEMMA TakerInBounds ==
    ASSUME IInv, Alone, InOrder, Accounted, NEW o, NEW f, NEW m, Settlement(o, f, m)
    PROVE  /\ InBounds(orders[o], QuantityOn(trades, o) + f.quantity,
                       QuoteOn(trades, o) + f.quoteAmount)
           /\ QuantityOn(trades, o) + f.quantity = QuantityUpTo(pass.fills, pass.next)
           /\ QuoteOn(trades, o) + f.quoteAmount = QuoteUpTo(pass.fills, pass.next)
<1>1. /\ m \in Orders /\ m # o /\ f.price \in Nat /\ f.quantity \in Nat
      /\ f.quoteAmount \in Nat /\ FillSound(o, f) /\ Whole(f) /\ Moved = trades
      /\ o \in Orders /\ place[o] = "settle" /\ f = CurrentFill
  BY SettlementFacts DEF Settlement
<1>2. PICK n \in Nat \ {0} : n = pass.next
  BY PassTyped DEF IInv
<1>3. PICK fs \in Seq(BookFills) : fs = pass.fills
  BY PassTyped DEF IInv
<1>4. PICK l \in Nat : l = Len(fs)
  BY <1>3, PassTyped DEF IInv
<1>5. n \in 1..l /\ f = fs[n]
  BY <1>1, <1>2, <1>3, <1>4, CurrentFacts, PassTyped DEF CurrentFill, IInv
<1>6. /\ orders[o].price \in Nat /\ orders[o].quantity \in Nat /\ orders[o].budget \in Nat
  BY <1>1, TypeParts, RowsTyped DEF IInv
<1>7. /\ QuantityOn(trades, o) = QuantityUpTo(fs, n - 1)
      /\ QuoteOn(trades, o) = QuoteUpTo(fs, n - 1)
  <2>1. place[o] \in Matching /\ DoneWith(place[o]) = n - 1
    BY <1>1, <1>2 DEF Matching, Settling, DoneWith
  <2>2. KnownQuantity(o) = QuantityUpTo(fs, n - 1) /\ KnownQuote(o) = QuoteUpTo(fs, n - 1)
    BY <1>1, <1>3, <2>1, KnownNow DEF IInv, Alone
  <2> QED
    BY <1>1, <2>2 DEF Accounted, Ledgered, Booked
<1>8. /\ QuantityUpTo(fs, n) = QuantityUpTo(fs, n - 1) + f.quantity
      /\ QuoteUpTo(fs, n) = QuoteUpTo(fs, n - 1) + f.quoteAmount
  <2>1. PICK k \in Nat : n = k + 1
    BY <1>2
  <2>2. k = n - 1
    BY <2>1
  <2>3. /\ QuantityUpTo(fs, n) = QuantityUpTo(fs, k) + fs[n].quantity
        /\ QuoteUpTo(fs, n) = QuoteUpTo(fs, k) + fs[n].quoteAmount
    BY <1>4, <1>5, <2>1, UpToNext
  <2> QED
    BY <1>5, <2>2, <2>3
<1>9. /\ QuantityUpTo(fs, n) \in Nat /\ QuantityUpTo(fs, n) <= QuantityUpTo(fs, l)
      /\ QuoteUpTo(fs, n) \in Nat /\ QuoteUpTo(fs, n) <= QuoteUpTo(fs, l)
  BY <1>4, <1>5, UpToBounds
<1>10. /\ pass.filled = QuantityUpTo(fs, l) /\ pass.quote = QuoteUpTo(fs, l)
       /\ IF BudgetDriven(orders[o]) THEN pass.quote <= orders[o].budget
                                     ELSE pass.filled <= orders[o].quantity
  <2>1. place[o] \in Settling \cup {"finalize"}
    BY <1>1 DEF Settling
  <2> QED
    BY <1>1, <1>3, <1>4, <2>1, InsidePass DEF Alone
<1>11. pass.filled \in Nat /\ pass.quote \in Nat
  BY PassFacts DEF IInv
<1>12. IF BudgetDriven(orders[o]) THEN QuoteUpTo(fs, n) <= orders[o].budget
                                  ELSE QuantityUpTo(fs, n) <= orders[o].quantity
  BY <1>6, <1>9, <1>10, <1>11
<1>13. ASSUME orders[o].type = "LIMIT", orders[o].side = "BUY"
       PROVE  QuoteUpTo(fs, n) * QScale <= orders[o].price * QuantityUpTo(fs, n)
  <2>1. f.price <= orders[o].price /\ f.quoteAmount * QScale = f.price * f.quantity
    BY <1>1, <1>13 DEF FillSound, Whole, TradeRowAllowed, crosses
  <2>2. QuoteOn(trades, o) * QScale <= orders[o].price * QuantityOn(trades, o)
    BY <1>1, <1>13 DEF Accounted, Ledgered, Covered, InBounds
  <2>3. QuoteOn(trades, o) \in Nat /\ QuantityOn(trades, o) \in Nat
    BY TapeTyped, TotalsTyped DEF IInv
  <2>4. (QuoteOn(trades, o) + f.quoteAmount) * QScale
           <= orders[o].price * (QuantityOn(trades, o) + f.quantity)
    BY <1>1, <1>6, <2>1, <2>2, <2>3, BoundGrows
  <2> QED
    BY <1>7, <1>8, <2>4
<1> QED
  BY <1>2, <1>3, <1>7, <1>8, <1>12, <1>13 DEF InBounds

(* Both parties are reserved for and owe nothing back.                     *)
LEMMA PartiesReserved ==
    ASSUME IInv, Alone, InOrder, Accounted, NEW o, NEW f, NEW m, Settlement(o, f, m),
           NEW x \in {o, m}
    PROVE  /\ x \in Orders /\ LockRef(x) \in posted /\ UnlockRef(x) \notin posted
           /\ InBounds(orders[x], QuantityOn(trades, x) + f.quantity,
                       QuoteOn(trades, x) + f.quoteAmount)
<1>1. /\ m \in Orders /\ FillSound(o, f) /\ o \in Orders /\ m = f.maker /\ place[o] = "settle"
      /\ f = CurrentFill
  BY SettlementFacts DEF Settlement
<1>2. /\ LockRef(m) \in posted /\ LockRef(o) \in posted
  BY <1>1 DEF FillSound, IInv, Reserved, LockTaken, InPass
<1>3. orders[o].status \notin Terminal
  BY <1>1 DEF Alone, TakerLive, Ended
<1>4. orders[m].status \notin Terminal
  <2>1. MakersDue(pass.next) /\ m = pass.fills[pass.next].maker /\ pass.next \in DOMAIN pass.fills
    <3>1. place[o] \in Settling /\ Due(place[o]) = pass.next
      BY <1>1 DEF Settling, Due
    <3> QED
      BY <1>1, <3>1, CurrentFacts DEF Alone, MakersLive, CurrentFill
  <2>2. pass.next >= pass.next
    BY PassFacts DEF IInv
  <2>3. orders[m].status \in Open
    BY <2>1, <2>2 DEF MakersDue
  <2> QED
    BY <2>3 DEF Open, Terminal
<1>5. UnlockRef(o) \notin posted /\ UnlockRef(m) \notin posted
  BY <1>1, <1>3, <1>4 DEF Accounted, Ledgered, Referenced
<1> QED
  BY <1>1, <1>2, <1>5, MakerInBounds, TakerInBounds

(* ... so what is locked for each covers what it pays.                     *)
LEMMA PartiesCovered ==
    ASSUME IInv, Sequential, Alone, InOrder, Accounted, NEW o, NEW f, NEW m, Settlement(o, f, m),
           NEW x \in {o, m}
    PROVE  (IF orders[x].side = "BUY" THEN f.quoteAmount ELSE f.quantity)
               <= balance[Locked(orders[x].user, lockedAsset(x))]
<1>1. /\ x \in Orders /\ LockRef(x) \in posted /\ UnlockRef(x) \notin posted
      /\ InBounds(orders[x], QuantityOn(trades, x) + f.quantity,
                  QuoteOn(trades, x) + f.quoteAmount)
  BY PartiesReserved
<1>2. f.quantity \in Nat /\ f.quoteAmount \in Nat /\ Moved = trades
  BY SettlementFacts
<1>3. QuantityOn(trades, x) \in Nat /\ QuoteOn(trades, x) \in Nat
  BY TapeTyped, TotalsTyped DEF IInv
<1>4. /\ orders[x] \in OrderRows /\ orders[x].locked \in Nat
      /\ orders[x].locked = computeLockRequirement(orders[x])
  BY <1>1, TypeParts, RowsTyped DEF IInv, Accounted, Ledgered, Covered
<1>5. (IF orders[x].side = "BUY" THEN QuoteOn(trades, x) + f.quoteAmount
                                 ELSE QuantityOn(trades, x) + f.quantity) <= orders[x].locked
  <2>1. PICK q \in Nat, a \in Nat : /\ q = QuantityOn(trades, x) + f.quantity
                                    /\ a = QuoteOn(trades, x) + f.quoteAmount
    BY <1>2, <1>3
  <2>2. InBounds(orders[x], q, a)
    BY <1>1, <2>1
  <2>3. (IF orders[x].side = "BUY" THEN a ELSE q) <= orders[x].locked
    BY <1>4, <2>2, LockSuffices
  <2> QED
    BY <2>1, <2>3
<1>6. HeldIn(Moved, orders, posted)[x]
         = orders[x].locked - (IF orders[x].side = "BUY" THEN QuoteOn(trades, x)
                                                         ELSE QuantityOn(trades, x))
  BY <1>1, <1>2 DEF HeldIn, PaidOn, Orders
<1>7. HeldIn(Moved, orders, posted)[x] <= balance[Locked(orders[x].user, lockedAsset(x))]
  BY <1>1, LockedCovers DEF Accounted, Ledgered
<1>8. balance[Locked(orders[x].user, lockedAsset(x))] \in Int
  <2>1. orders[x].user \in Users /\ lockedAsset(x) \in {Base, Quote}
    BY <1>1, TypeParts, RowsTyped DEF IInv, lockedAsset
  <2>2. balance \in [Accounts -> Int]
    BY TypeParts DEF IInv
  <2> QED
    BY <2>1, <2>2, NamedAccounts DEF Sequential
<1> HIDE DEF lockedAsset
<1> QED
  BY <1>2, <1>3, <1>4, <1>5, <1>6, <1>7, <1>8

(* The ledger takes the settlement, and the row of the fill explains it.   *)
LEMMA SettlementAccepted ==
    ASSUME IInv, Sequential, Alone, InOrder, Accounted, NEW o, NEW f, NEW m, Settlement(o, f, m)
    PROVE  /\ ~Refused(TradeRef(o, m), SettleLines(o, f))
           /\ Explained(Applied(balance, SettleLines(o, f)), Append(trades, TradeRow(o, f)),
                        orders, posted \cup {TradeRef(o, m)})
<1>1. /\ m \in Orders /\ m # o /\ f.quantity \in Nat /\ f.quoteAmount \in Nat
      /\ FillSound(o, f) /\ Whole(f) /\ Moved = trades /\ o \in Orders
      /\ m = f.maker /\ f = CurrentFill /\ place[o] = "settle"
  BY SettlementFacts DEF Settlement
<1>2. PICK a, b : a = Buyer(o, m) /\ b = Seller(o, m)
  OBVIOUS
<1>3. /\ a \in {o, m} /\ b \in {o, m} /\ {a, b} = {o, m}
      /\ orders[a].side = "BUY" /\ orders[b].side = "SELL"
      /\ orders[a].user # orders[b].user
      /\ orders[a].user \in Users /\ orders[b].user \in Users
  <2>1. /\ orders[o].side \in {"BUY", "SELL"} /\ orders[m].side \in {"BUY", "SELL"}
        /\ orders[o].user \in Users /\ orders[m].user \in Users
    BY <1>1, TypeParts, RowsTyped DEF IInv
  <2>2. orders[o].side # orders[m].side /\ orders[o].user # orders[m].user
    BY <1>1 DEF FillSound
  <2> QED
    BY <1>2, <2>1, <2>2 DEF Buyer, Seller
<1>4. PICK p \in Users, r \in Users : p = orders[a].user /\ r = orders[b].user
  BY <1>3
<1>5. PICK sf, bf : sf = sellerFee(o, f) /\ bf = buyerFee(o, f)
  OBVIOUS
<1>6. sf \in Nat /\ bf \in Nat /\ sf < f.quoteAmount /\ bf < f.quantity
  <2>1. f.quantity \in Nat \ {0} /\ f.quoteAmount \in Nat \ {0}
    BY <1>1 DEF Whole
  <2>2. TakerBps \in Nat /\ MakerBps \in Nat /\ TakerBps < 10000 /\ MakerBps < 10000
    BY NumbersAssumption DEF Sequential
  <2>3. \A bps \in {TakerBps, MakerBps} :
           /\ computeFee(f.quantity, bps) \in Nat /\ computeFee(f.quantity, bps) < f.quantity
           /\ computeFee(f.quoteAmount, bps) \in Nat
           /\ computeFee(f.quoteAmount, bps) < f.quoteAmount
    BY <2>1, <2>2, FeeBelow
  <2> QED
    BY <1>5, <2>3 DEF sellerFee, buyerFee
<1>7. PICK L : L = Payments(p, r, f.quoteAmount, f.quantity, sf, bf)
  OBVIOUS
<1>8. SettleLines(o, f) = L
  BY <1>1, <1>2, <1>4, <1>5, <1>7 DEF SettleLines, Payments
<1>9. PICK new : new = Applied(balance, L)
  OBVIOUS
<1>10. /\ balance[Locked(p, Quote)] >= f.quoteAmount
       /\ balance[Locked(r, Base)] >= f.quantity
  <2>1. lockedAsset(a) = Quote /\ lockedAsset(b) = Base
    BY <1>3 DEF lockedAsset
  <2>2. f.quoteAmount <= balance[Locked(orders[a].user, lockedAsset(a))]
    BY <1>3, PartiesCovered
  <2>3. f.quantity <= balance[Locked(orders[b].user, lockedAsset(b))]
    BY <1>3, PartiesCovered
  <2>4. balance[Locked(p, Quote)] \in Int /\ balance[Locked(r, Base)] \in Int
    <3>1. balance \in [Accounts -> Int] /\ FeeKind
      BY TypeParts DEF IInv, Sequential
    <3> QED
      BY <3>1, NamedAccounts
  <2>5. /\ f.quoteAmount <= balance[Locked(p, Quote)]
        /\ f.quantity <= balance[Locked(r, Base)]
    BY <1>4, <2>1, <2>2, <2>3, Zenon
  <2> QED
    BY <1>1, <2>4, <2>5
<1>11. /\ Paid(balance, new, Quote, p, r, f.quoteAmount, sf)
       /\ Paid(balance, new, Base, r, p, f.quantity, bf)
       /\ assertPostingBalanced(L) /\ CanPost(balance, L)
  <2>1. PICK quote \in Nat, quantity \in Nat : quote = f.quoteAmount /\ quantity = f.quantity
    BY <1>1
  <2>2. /\ L = Payments(p, r, quote, quantity, sf, bf)
        /\ balance \in [Accounts -> Int] /\ FeeKind /\ p # r
    BY <1>3, <1>4, <1>7, <2>1, TypeParts DEF IInv, Sequential
  <2>3. /\ Paid(balance, new, Quote, p, r, quote, sf)
        /\ Paid(balance, new, Base, r, p, quantity, bf)
        /\ sf < quote /\ bf < quantity => assertPostingBalanced(L)
        /\ balance[Locked(p, Quote)] >= quote /\ balance[Locked(r, Base)] >= quantity
              => CanPost(balance, L)
    BY <1>6, <1>9, <2>2, SettlementPosts
  <2> QED
    BY <1>6, <1>10, <2>1, <2>3
<1>12. ~Refused(TradeRef(o, m), SettleLines(o, f))
  BY <1>8, <1>11 DEF Refused
<1>13. PICK row : row = TradeRow(o, f)
  OBVIOUS
<1>14. /\ row \in TapeRows /\ row.quantity = f.quantity /\ row.quoteAmount = f.quoteAmount
       /\ \A x : Party(row, x) <=> x \in {o, m}
       /\ FeeOf(row, a) = bf /\ FeeOf(row, b) = sf
  BY <1>1, <1>2, <1>5, <1>13, RowTyped
<1>15. PICK n : n = Len(orders)
  OBVIOUS
<1>16. n \in Nat /\ Orders = 1..n /\ Terms(orders, n)
  BY <1>15, TermsTyped DEF IInv
<1>17. PICK more : more = posted \cup {TradeRef(o, m)}
  OBVIOUS
<1>18. SettlesFor(orders, n, trades, row, a, b, posted, more, balance, new)
  <2>1. a \in 1..n /\ b \in 1..n
    BY <1>1, <1>3, <1>16
  <2>2. \A x : Party(row, x) <=> x \in {a, b}
    BY <1>3, <1>14
  <2>3. \A x \in 1..n : /\ LockRef(x) \in more <=> LockRef(x) \in posted
                        /\ UnlockRef(x) \in more <=> UnlockRef(x) \in posted
    BY <1>17, RefsApart
  <2>4. \A x \in {a, b} : LockRef(x) \in posted /\ UnlockRef(x) \notin posted
    BY <1>3, PartiesReserved
  <2>5. trades \in Seq(TapeRows) /\ balance \in [Accounts -> Int]
    BY TapeTyped, TypeParts DEF IInv
  <2>6. Explained(balance, trades, orders, posted)
    BY <1>1 DEF Accounted, Backed
  <2>7. /\ Paid(balance, new, Quote, orders[a].user, orders[b].user, row.quoteAmount, FeeOf(row, b))
        /\ Paid(balance, new, Base, orders[b].user, orders[a].user, row.quantity, FeeOf(row, a))
    BY <1>4, <1>11, <1>14, Zenon
  <2> QED
    BY <1>3, <1>14, <1>16, <2>1, <2>2, <2>3, <2>4, <2>5, <2>6, <2>7, Zenon DEF SettlesFor
<1>19. Explained(new, Append(trades, row), orders, more)
  <2>1. IsFiniteSet(Users) /\ FeeKind
    BY DEF Sequential
  <2> QED
    BY <1>18, <2>1, SettledExplained, Zenon
<1> QED
  BY <1>8, <1>9, <1>12, <1>13, <1>17, <1>19, Zenon

(* The tape as the ledger has it grows by the row of the fill.             *)
LEMMA SettledTape ==
    ASSUME IInv, Alone, Accounted, NEW o \in Orders, NEW f, NEW m, Settlement(o, f, m),
           SettleFill(o)
    PROVE  /\ Moved' = Append(trades, TradeRow(o, f))
           /\ place'[o] = "trade" /\ \A x \in Orders : x # o => place'[x] \in Ended
<1>1. /\ Holds("place", o) /\ GoPlace(o, "trade") /\ queue' = queue /\ orders' = orders
      /\ trades' = trades /\ pass' = pass /\ f = CurrentFill /\ place[o] = "settle"
  BY DEF SettleFill, Settlement
<1>2. place'[o] = "trade" /\ \A x \in Orders : x # o => place'[x] = place[x]
  BY <1>1, PlaceTyped DEF GoPlace, PlaceStates, InPass, IInv
<1>3. \A x \in Orders : x # o => place[x] \in Ended
  BY <1>1, OthersEnded DEF Alone, Ended
<1>4. Head(queue').order = o
  BY <1>1 DEF Holds, Task
<1>5. CurrentFill' = f /\ Orders' = Orders
  BY <1>1 DEF CurrentFill, Orders
<1>6. Moved' = IF \E x \in Orders' : place'[x] = "trade"
                THEN Append(trades', TradeRow(Head(queue).order, CurrentFill)') ELSE trades'
  BY DEF Moved
<1>7. TradeRow(Head(queue).order, CurrentFill)' = TradeRow(o, f)
  <2>1. Head(queue').order = o /\ CurrentFill' = f
    BY <1>1, <1>4, <1>5
  <2> QED
    BY <1>1, <2>1 DEF TradeRow, buyerFee, sellerFee, Buyer, Seller
<1>8. \E x \in Orders' : place'[x] = "trade"
  BY <1>2, <1>5
<1> QED
  BY <1>1, <1>2, <1>3, <1>6, <1>7, <1>8

LEMMA SettleFillAccounted ==
    ASSUME IInv, Sequential, Alone, InOrder, Accounted, NEW o \in Orders, SettleFill(o)
    PROVE  Accounted'
<1>1. /\ place[o] = "settle" /\ cancel' = cancel /\ trades' = trades /\ orders' = orders
      /\ pass' = pass /\ Post(TradeRef(o, CurrentFill.maker), SettleLines(o, CurrentFill))
  BY DEF SettleFill
<1>2. PICK f, m : Settlement(o, f, m)
  BY <1>1 DEF Settlement
<1>3. /\ m \in Orders /\ m # o /\ f.quantity \in Nat /\ f.quoteAmount \in Nat
      /\ Moved = trades /\ TradeRef(o, m) \notin posted
      /\ m = f.maker /\ f = CurrentFill
  BY <1>2, SettlementFacts DEF Settlement
<1>4. /\ balance' = Applied(balance, SettleLines(o, f))
      /\ posted' = posted \cup {TradeRef(o, m)}
  BY <1>1, <1>3 DEF Post
<1>5. /\ Moved' = Append(trades, TradeRow(o, f))
      /\ place'[o] = "trade" /\ \A x \in Orders : x # o => place'[x] \in Ended
  BY <1>2, SettledTape
<1>6. TermsKept /\ Orders' = Orders /\ orders' \in Seq(OrderRows)
  <2>1. TermsKept
    BY <1>1, TermsUntouched DEF IInv
  <2> QED
    BY <2>1 DEF TermsKept, RowsKept
<1>7. /\ \A x \in Orders : x # o => place[x] \in Ended
      /\ \A x \in Orders : cancel[x] \in Ended
      /\ \A x \in Orders : orders[x].status # "PENDING"
      /\ \A x \in Orders : ~Releasing(x)
      /\ \A j \in DOMAIN pass.fills : Whole(pass.fills[j])
      /\ pass.filled = QuantityUpTo(pass.fills, Len(pass.fills))
      /\ pass.quote = QuoteUpTo(pass.fills, Len(pass.fills))
      /\ IF BudgetDriven(orders[o]) THEN pass.quote <= orders[o].budget
                                    ELSE pass.filled <= orders[o].quantity
      /\ FillsDue(pass.next)
  <2>1. place[o] \in Settling \cup {"finalize"} /\ Due(place[o]) = pass.next
        /\ place[o] # "makerRelease"
    BY <1>1 DEF Settling, Due
  <2> QED
    BY <2>1, InsidePass DEF Alone
<1>8. \A x \in Orders : place'[x] \in Ended \cup {"trade"}
  BY <1>5
<1>9. Backed'
  <2>1. Explained(balance', Moved', orders, posted')
    BY <1>2, <1>4, <1>5, SettlementAccepted, Zenon
  <2> QED
    BY <1>1, <2>1, BackedNext
<1>10. PICK row : /\ row = TradeRow(o, f) /\ row \in TapeRows
                  /\ row.taker = o /\ row.maker = m
                  /\ row.quantity = f.quantity /\ row.quoteAmount = f.quoteAmount
                  /\ \A x : Party(row, x) <=> x \in {o, m}
  BY <1>1, <1>3, RowTyped
<1>11. /\ \A x \in {o, m} :
             /\ QuantityOn(Moved', x) = QuantityOn(trades, x) + f.quantity
             /\ QuoteOn(Moved', x) = QuoteOn(trades, x) + f.quoteAmount
       /\ \A x \in Orders \ {o, m} :
             /\ QuantityOn(Moved', x) = QuantityOn(trades, x)
             /\ QuoteOn(Moved', x) = QuoteOn(trades, x)
  <2>1. trades \in Seq(TapeRows) /\ Moved' = Append(trades, row)
    BY <1>5, <1>10, TapeTyped DEF IInv
  <2>2. \A x : QuantityOn(trades, x) \in Nat /\ QuoteOn(trades, x) \in Nat
    BY <2>1, TotalsTyped
  <2>3. \A x : /\ QuantityOn(Append(trades, row), x)
                     = QuantityOn(trades, x) + (IF Party(row, x) THEN row.quantity ELSE 0)
               /\ QuoteOn(Append(trades, row), x)
                     = QuoteOn(trades, x) + (IF Party(row, x) THEN row.quoteAmount ELSE 0)
    BY <1>10, <2>1, TapeAppend
  <2> QED
    BY <1>10, <2>1, <2>2, <2>3
<1>12. PassAdds'
  <2>1. \A x \in Orders' : place'[x] \in Matching => x = o
    BY <1>6, <1>8, <1>5 DEF Ended, Matching, Settling
  <2>2. FillsDue(Due(place[o]))'
    BY <1>1, <1>5, <1>7 DEF FillsDue, Remaining, Due
  <2>3. \A j \in DOMAIN pass'.fills : Whole(pass'.fills[j])
    BY <1>1, <1>7
  <2> QED
    BY <1>1, <1>5, <1>7, <2>1, <2>2, <2>3 DEF PassAdds, Whole, TradeRowAllowed
<1>13. Booked'
  <2>1. /\ o \in Orders' /\ place'[o] \in Matching /\ place[o] \in Matching
        /\ \A x \in Orders' : x # o => place'[x] \in Ended
    BY <1>1, <1>5, <1>6 DEF Matching, Settling
  <2>2. DoneWith(place[o])' = pass.next /\ CurrentFill' = f
    BY <1>1, <1>3, <1>5 DEF DoneWith, CurrentFill
  <2>3. \A x : /\ Behind(o, x)' <=> x = m
               /\ ~Behind(o, x)
    BY <1>1, <1>3, <1>5, <2>2 DEF Behind
  <2>4. QuantityOn(Moved', o) = KnownQuantity(o)' /\ QuoteOn(Moved', o) = KnownQuote(o)'
    <3>1. /\ QuantityOn(Moved', o) = QuantityUpTo(pass.fills, pass.next)
          /\ QuoteOn(Moved', o) = QuoteUpTo(pass.fills, pass.next)
      BY <1>2, <1>11, TakerInBounds
    <3>2. /\ KnownQuantity(o)' = QuantityUpTo(pass'.fills, DoneWith(place[o])')
          /\ KnownQuote(o)' = QuoteUpTo(pass'.fills, DoneWith(place[o])')
      BY <1>6, <2>1, KnownNext
    <3> QED
      BY <1>1, <2>2, <3>1, <3>2
  <2>5. QuantityOn(Moved', m) = KnownQuantity(m)' /\ QuoteOn(Moved', m) = KnownQuote(m)'
    <3>1. /\ KnownQuantity(m)' = orders'[m].filled + CurrentFill'.quantity
          /\ KnownQuote(m)' = orders'[m].spent + CurrentFill'.quoteAmount
      BY <1>3, <1>6, <2>1, <2>3, KnownNext
    <3>2. QuantityOn(trades, m) = orders[m].filled /\ QuoteOn(trades, m) = orders[m].spent
      BY <1>2, MakerInBounds
    <3> QED
      BY <1>1, <1>11, <2>2, <3>1, <3>2
  <2>6. ASSUME NEW x \in Orders \ {o, m}
        PROVE  QuantityOn(Moved', x) = KnownQuantity(x)' /\ QuoteOn(Moved', x) = KnownQuote(x)'
    <3>1. KnownQuantity(x)' = orders'[x].filled /\ KnownQuote(x)' = orders'[x].spent
      BY <1>6, <2>1, <2>3, KnownNext
    <3>2. KnownQuantity(x) = orders[x].filled /\ KnownQuote(x) = orders[x].spent
      BY <2>1, <2>3, KnownNow DEF IInv, Alone
    <3>3. QuantityOn(trades, x) = KnownQuantity(x) /\ QuoteOn(trades, x) = KnownQuote(x)
      BY <1>3 DEF Accounted, Ledgered, Booked
    <3> QED
      BY <1>1, <1>11, <3>1, <3>2, <3>3
  <2> QED
    BY <1>6, <2>4, <2>5, <2>6 DEF Booked
<1>14. Covered'
  <2> SUFFICES ASSUME NEW x \in Orders
               PROVE  /\ InBounds(orders[x], QuantityOn(Moved', x), QuoteOn(Moved', x))
                      /\ orders[x].locked = computeLockRequirement(orders[x])
                      /\ \E k \in Nat : orders[x].price = k * QScale
    BY <1>1, <1>6 DEF Covered
  <2>1. /\ InBounds(orders[x], QuantityOn(trades, x), QuoteOn(trades, x))
        /\ orders[x].locked = computeLockRequirement(orders[x])
        /\ \E k \in Nat : orders[x].price = k * QScale
    BY <1>3 DEF Accounted, Ledgered, Covered
  <2>2. CASE x \in {o, m}
    <3>1. InBounds(orders[x], QuantityOn(trades, x) + f.quantity,
                   QuoteOn(trades, x) + f.quoteAmount)
      BY <1>2, <2>2, PartiesReserved
    <3> QED
      BY <1>11, <2>1, <2>2, <3>1, Zenon
  <2>3. CASE x \notin {o, m}
    BY <1>11, <2>1, <2>3
  <2> QED
    BY <2>2, <2>3
<1>15. Fresh'
  BY <1>6, <1>8 DEF Fresh, Ended
<1>16. /\ \A x \in Orders : ~Releasing(x)'
       /\ \A x : /\ LockRef(x) \in posted' <=> LockRef(x) \in posted
                 /\ UnlockRef(x) \in posted' <=> UnlockRef(x) \in posted
  <2>1. \A x \in Orders : ~Releasing(x)'
    BY <1>1, <1>6, <1>7, <1>8 DEF Releasing, Ended
  <2> QED
    BY <1>4, <2>1, RefsApart
<1>17. Referenced'
  <2>1. Referenced
    BY DEF Accounted, Ledgered
  <2>2. \A x \in Orders :
           /\ LockRef(x) \in posted' => place'[x] \notin {"lock", "reject"}
           /\ UnlockRef(x) \in posted' => orders'[x].status \in Terminal
           /\ orders'[x].status = "PENDING" => place'[x] \in {"lock", "reject", "open"}
    BY <1>1, <1>7, <1>8, <1>16, <2>1 DEF Ended, Referenced
  <2>3. ASSUME NEW t \in Orders, NEW k \in Orders, TradeRef(t, k) \in posted'
        PROVE  \E h \in DOMAIN Moved' : Moved'[h].taker = t /\ Moved'[h].maker = k
    <3>1. PICK z \in Nat : z = Len(trades)
      BY TapeTyped DEF IInv
    <3>2. /\ DOMAIN Moved' = 1..(z + 1) /\ DOMAIN trades = 1..z /\ Moved'[z + 1] = row
          /\ \A h \in 1..z : Moved'[h] = trades[h]
      BY <1>5, <1>10, <3>1, TapeTyped, OnAppended DEF IInv
    <3>3. CASE TradeRef(t, k) \in posted
      <4>1. PICK h \in DOMAIN trades : trades[h].taker = t /\ trades[h].maker = k
        BY <1>3, <2>1, <3>3 DEF Referenced
      <4> QED
        BY <3>1, <3>2, <4>1
    <3>4. CASE TradeRef(t, k) \notin posted
      <4>1. t = o /\ k = m
        BY <1>4, <2>3, <3>4, RefsApart
      <4>2. z + 1 \in DOMAIN Moved'
        BY <3>1, <3>2
      <4> QED
        BY <1>10, <3>2, <4>1, <4>2
    <3> QED
      BY <3>3, <3>4
  <2> QED
    BY <1>6, <1>16, <2>2, <2>3 DEF Referenced
<1>18. GivenBack'
  <2>1. \A x \in Orders : Surplus(x)' = Surplus(x)
    BY <1>1 DEF Surplus
  <2> QED
    BY <1>1, <1>6, <1>7, <1>16, <2>1 DEF GivenBack, Accounted, Ledgered
<1> QED
  BY <1>9, <1>12, <1>13, <1>14, <1>15, <1>17, <1>18 DEF Accounted, Ledgered

(* A new order has no money anywhere.                                      *)
LEMMA PlaceOrderAccounted ==
    ASSUME IInv, Sequential, Accounted, NEW input \in OrderInputs, PlaceOrder(input)
    PROVE  Accounted'
<1>1. /\ TypeOK /\ InFlight < MaxInFlight /\ MaxInFlight = 1
      /\ balance' = balance /\ posted' = posted /\ trades' = trades
      /\ \E k \in Nat : input.price = k * QScale
      /\ Booked /\ Covered /\ Fresh /\ Referenced /\ GivenBack /\ Backed
  BY DEF IInv, PlaceOrder, Sequential, Accounted, Ledgered
<1>2. \A x \in Orders : place[x] \in Ended /\ cancel[x] \in Ended
  BY <1>1, NoneUnderWay
<1>3. PICK n \in Nat : n = Len(orders)
  BY <1>1, TypeParts
<1>4. PICK e \in Nat : e = n + 1
  OBVIOUS
<1>5. /\ Orders = 1..n /\ orders' \in Seq(OrderRows) /\ Orders' = 1..e
      /\ \A x \in Orders : orders'[x] = orders[x]
      /\ orders'[e].status = "PENDING" /\ orders'[e].filled = 0 /\ orders'[e].spent = 0
      /\ orders'[e].price = input.price
      /\ orders'[e].locked = computeLockRequirement(orders'[e])
      /\ place'[e] = "lock" /\ \A x \in Orders : place'[x] = place[x]
      /\ cancel'[e] = "none" /\ \A x \in Orders : cancel'[x] = cancel[x]
  BY <1>1, <1>3, <1>4, NewOrder
<1>6. /\ e \notin Orders /\ e \in Orders' /\ Orders \subseteq Orders'
      /\ \A x \in Orders' : x \in Orders \/ x = e
  BY <1>4, <1>5
<1>7. \A x \in Orders' : /\ orders'[x] \in OrderRows /\ cancel'[x] \in Ended
                         /\ place'[x] \in Ended \cup {"lock"}
  <2>1. \A x \in Orders' : orders'[x] \in OrderRows
    BY <1>5 DEF Orders
  <2> QED
    BY <1>2, <1>5, <1>6, <2>1 DEF Ended
<1>8. /\ Moved' = trades /\ PassAdds'
      /\ \A m \in Orders' : /\ KnownQuantity(m)' = orders'[m].filled
                            /\ KnownQuote(m)' = orders'[m].spent
  <2>1. \A x \in Orders' : place'[x] \notin Matching
    BY <1>7 DEF Ended, Matching, Settling
  <2> QED
    BY <1>1, <1>5, <2>1, OutsideNext
<1>9. /\ Moved = trades
      /\ \A m \in Orders : /\ KnownQuantity(m) = orders[m].filled
                           /\ KnownQuote(m) = orders[m].spent
  <2>1. \A x \in Orders : place[x] \notin Matching
    BY <1>2, NoPlacement
  <2> QED
    BY <1>1, <2>1, OutsideNow
<1>10. On(trades, e) = {}
  BY <1>1, <1>6, TapeEntries DEF On, Party
<1>11. QuantityOn(trades, e) = 0 /\ QuoteOn(trades, e) = 0
  BY <1>10, NotOnTape
<1>12. LockRef(e) \notin posted /\ UnlockRef(e) \notin posted
       /\ \A t, m : TradeRef(t, m) \in posted => t \in Orders /\ m \in Orders
  BY <1>1, <1>6, TypeParts DEF References, LockRef, UnlockRef, TradeRef
<1>13. \A m \in Orders' : /\ QuantityOn(trades, m) = orders'[m].filled
                          /\ QuoteOn(trades, m) = orders'[m].spent
  BY <1>1, <1>5, <1>6, <1>9, <1>11 DEF Booked
<1>14. Booked'
  BY <1>8, <1>13 DEF Booked
<1>15. Covered'
  <2>1. \A o \in Orders' : /\ InBounds(orders'[o], QuantityOn(trades, o), QuoteOn(trades, o))
                           /\ orders'[o].locked = computeLockRequirement(orders'[o])
                           /\ \E k \in Nat : orders'[o].price = k * QScale
    <3> SUFFICES ASSUME NEW o \in Orders'
                 PROVE  /\ InBounds(orders'[o], QuantityOn(trades, o), QuoteOn(trades, o))
                        /\ orders'[o].locked = computeLockRequirement(orders'[o])
                        /\ \E k \in Nat : orders'[o].price = k * QScale
      OBVIOUS
    <3>1. CASE o \in Orders
      <4>1. orders'[o] = orders[o]
        BY <1>5, <3>1
      <4> QED
        BY <1>1, <1>9, <3>1, <4>1, Zenon DEF Covered
    <3>2. CASE o = e
      <4>1. PICK row \in OrderRows : row = orders'[e]
        BY <1>6, <1>7
      <4>2. /\ row.budget \in Nat /\ row.quantity \in Nat /\ row.price \in Nat
            /\ QScale \in Nat
        BY <4>1, QScaleAssumption DEF OrderRows
      <4>3. InBounds(row, 0, 0)
        BY <4>2 DEF InBounds
      <4> QED
        BY <1>1, <1>5, <1>11, <3>2, <4>1, <4>3
    <3> QED
      BY <1>6, <3>1, <3>2
  <2> QED
    BY <1>8, <2>1, Zenon DEF Covered
<1>16. Fresh'
  BY <1>2, <1>5, <1>6 DEF Fresh, Ended
<1>17. \A x \in Orders' : ~Releasing(x)'
  BY <1>7 DEF Releasing, Ended
<1>18. \A x \in Orders : ~Releasing(x)
  BY <1>2 DEF Releasing, Ended
<1>19. Referenced'
  <2>1. ASSUME NEW x \in Orders'
        PROVE  /\ LockRef(x) \in posted => place'[x] \notin {"lock", "reject"}
               /\ UnlockRef(x) \in posted => orders'[x].status \in Terminal
               /\ orders'[x].status = "PENDING" => place'[x] \in {"lock", "reject", "open"}
    BY <1>1, <1>5, <1>6, <1>12 DEF Referenced
  <2>2. ASSUME NEW t \in Orders', NEW m \in Orders', TradeRef(t, m) \in posted
        PROVE  \E k \in DOMAIN trades : trades[k].taker = t /\ trades[k].maker = m
    BY <1>1, <1>9, <1>12, <2>2 DEF Referenced
  <2> QED
    BY <1>1, <1>8, <1>17, <2>1, <2>2 DEF Referenced
<1>20. GivenBack'
  <2>1. ASSUME NEW x \in Orders', orders'[x].status \in Terminal
        PROVE  LockRef(x) \notin posted \/ UnlockRef(x) \in posted \/ Surplus(x)' <= 0
    <3>1. x \in Orders /\ orders'[x] = orders[x]
      BY <1>5, <1>6, <2>1 DEF Terminal
    <3>2. Surplus(x)' = Surplus(x)
      BY <3>1 DEF Surplus
    <3> QED
      BY <1>1, <1>18, <2>1, <3>1, <3>2 DEF GivenBack
  <2> QED
    BY <1>1, <2>1 DEF GivenBack
<1>21. Backed'
  <2>1. PICK next : next = orders'
    OBVIOUS
  <2>2. Terms(orders, n)
    BY <1>1, <1>3, TermsTyped
  <2>3. Joins(orders, n, e, next, trades, posted, balance)
    <3>1. DOMAIN next = (1..n) \cup {e}
      BY <1>4, <1>5, <2>1 DEF Orders
    <3>2. \A o \in 1..n : next[o] = orders[o]
      BY <1>5, <2>1
    <3>3. trades \in Seq(TapeRows) /\ Explained(balance, trades, orders, posted)
      BY <1>1, <1>9, TapeTyped DEF Backed
    <3> QED
      BY <1>4, <1>10, <1>12, <2>2, <3>1, <3>2, <3>3 DEF Joins
  <2>4. Explained(balance, trades, next, posted)
    BY <2>3, GrownExplained, Zenon
  <2> QED
    BY <1>1, <1>8, <2>1, <2>4, BackedNext
<1> QED
  BY <1>8, <1>14, <1>15, <1>16, <1>19, <1>20, <1>21 DEF Accounted, Ledgered

(* A step of a placement is never refused: the ledger has the money of     *)
(* every fill, and the rows stay within their constraints.                 *)
LEMMA StepNotRefused ==
    ASSUME IInv, Sequential, Alone, InOrder, Accounted, NEW o \in Orders
    PROVE  ~StepRefused(o)
<1> SUFFICES ASSUME StepRefused(o) PROVE FALSE
  OBVIOUS
<1>1. CASE place[o] = "settle" /\ Refused(TradeRef(o, CurrentFill.maker), SettleLines(o, CurrentFill))
  <2>1. PICK f, m : f = CurrentFill /\ m = f.maker
    OBVIOUS
  <2>2. Settlement(o, f, m)
    BY <1>1, <2>1 DEF Settlement
  <2>3. ~Refused(TradeRef(o, m), SettleLines(o, f))
    BY <2>2, SettlementAccepted, Zenon
  <2> QED
    BY <1>1, <2>1, <2>3
<1>2. CASE place[o] = "trade" /\ ~TradeRowAllowed(CurrentFill)
  <2>1. place[o] \in Settling \cup {"finalize"}
    BY <1>2 DEF Settling
  <2>2. \A j \in DOMAIN pass.fills : Whole(pass.fills[j])
    BY <2>1, InsidePass DEF Alone
  <2>3. pass.next \in DOMAIN pass.fills
    BY <1>2, CurrentFacts
  <2> QED
    BY <1>2, <2>2, <2>3 DEF Whole, CurrentFill
<1>3. CASE place[o] = "maker" /\ ~FilledRowAllowed(CurrentFill.maker,
              orders[CurrentFill.maker].filled + CurrentFill.quantity)
  <2>1. place[o] \in Settling \cup {"finalize"} /\ Due(place[o]) = pass.next
    BY <1>3 DEF Settling, Due
  <2>2. FillsDue(pass.next)
    BY <2>1, InsidePass DEF Alone
  <2>3. /\ pass.next \in DOMAIN pass.fills /\ pass.next \in Nat
        /\ CurrentFill.maker \in Orders /\ CurrentFill.quantity \in Nat
    BY <1>3, CurrentFacts, PassFacts DEF IInv
  <2>4. CurrentFill.quantity <= Remaining(CurrentFill.maker)
    BY <2>2, <2>3 DEF FillsDue, CurrentFill
  <2>5. /\ orders[CurrentFill.maker].quantity \in Nat
        /\ orders[CurrentFill.maker].filled \in Nat
    BY <2>3, TypeParts, RowsTyped DEF IInv
  <2> QED
    BY <1>3, <2>3, <2>4, <2>5 DEF FilledRowAllowed, Remaining
<1>4. CASE place[o] = "makerRelease" /\ ReleaseRefused(CurrentFill.maker)
  <2>1. PICK m : m = CurrentFill.maker
    OBVIOUS
  <2>2. /\ m \in Orders /\ place[m] \notin Matching /\ ~Awaits(m)
        /\ LockRef(m) \in posted /\ UnlockRef(m) \notin posted
    BY <1>4, <2>1, MakerReleases
  <2>3. Booked /\ Covered /\ Backed
    BY DEF Accounted, Ledgered
  <2> QED
    BY <1>4, <2>1, <2>2, <2>3, GivesBack
<1>5. CASE place[o] = "finalize" /\ ~FilledRowAllowed(o, pass.filled)
  <2>1. place[o] \in Settling \cup {"finalize"}
    BY <1>5 DEF Settling
  <2> QED
    BY <1>5, <2>1, InsidePass DEF FilledRowAllowed, Alone
<1>6. CASE place[o] = "takerRelease" /\ ReleaseRefused(o)
  <2>1. \A x \in Orders : x # o => place[x] \in Ended
    BY <1>6, OthersEnded DEF Alone, Ended
  <2>2. /\ place[o] \notin Matching /\ ~Awaits(o) /\ Releasing(o)
    BY <1>6, <2>1 DEF Matching, Settling, Awaits, Ended, Releasing
  <2>3. /\ LockRef(o) \in posted /\ UnlockRef(o) \notin posted
        /\ Booked /\ Covered /\ Backed
    BY <2>2 DEF Accounted, Ledgered, Referenced
  <2> QED
    BY <1>6, <2>2, <2>3, GivesBack
<1> QED
  BY <1>1, <1>2, <1>3, <1>4, <1>5, <1>6 DEF StepRefused

-----------------------------------------------------------------------------
(* Every step.                                                             *)

LEMMA InitAccounted ==
    ASSUME Sequential, Init
    PROVE  Accounted
<1>1. /\ orders = << >> /\ trades = << >> /\ place = << >> /\ posted = {}
      /\ balance = [name \in Accounts |->
                      IF name.kind = "USER_AVAILABLE"
                      THEN Funds[<<name.owner, name.asset>>] ELSE 0]
  BY DEF Init
<1>2. Orders = {} /\ Moved = << >>
  BY <1>1 DEF Orders, Moved
<1>3. Ledgered
  BY <1>1, <1>2 DEF Ledgered, Booked, PassAdds, Covered, Fresh, Referenced, GivenBack
<1>4. \A f : SumOf(f, {}) = 0
  BY FS_EmptySet, SumUnfolds
<1>5. ASSUME NEW x \in {Base, Quote}, NEW held, NEW gain
      PROVE  Fits(balance, x, orders, held, gain)
  <2>1. \A u : OrdersOf(orders, u) = {} /\ LockedFor(orders, u, x) = {}
    BY <1>1 DEF OrdersOf, LockedFor
  <2>2. \A u \in Users : /\ balance[Locked(u, x)] = 0
                         /\ balance[Available(u, x)] = Funds[<<u, x>>]
                         /\ Funds[<<u, x>>] \in Nat
    <3> SUFFICES ASSUME NEW u \in Users
                 PROVE  /\ balance[Locked(u, x)] = 0
                        /\ balance[Available(u, x)] = Funds[<<u, x>>]
                        /\ Funds[<<u, x>>] \in Nat
      OBVIOUS
    <3>1. Available(u, x) \in Accounts /\ Locked(u, x) \in Accounts
      BY NamedAccounts DEF Sequential
    <3>2. /\ Locked(u, x).kind # "USER_AVAILABLE" /\ Available(u, x).kind = "USER_AVAILABLE"
          /\ Available(u, x).owner = u /\ Available(u, x).asset = x
      BY DEF Locked, Available
    <3>3. Funds[<<u, x>>] \in Nat
      BY MarketAssumption, FundsAssumption
    <3> QED
      BY <1>1, <3>1, <3>2, <3>3
  <2>3. balance[System("FEE_REVENUE", x)] = 0
    <3>1. System("FEE_REVENUE", x) \in Accounts
      BY NamedAccounts DEF Sequential
    <3>2. System("FEE_REVENUE", x).kind # "USER_AVAILABLE"
      BY DEF System
    <3> QED
      BY <1>1, <3>1, <3>2
  <2>4. SumOf(GainsOf(orders, gain), Users) = 0
    <3>1. \A u \in Users : GainsOf(orders, gain)[u] = 0
      BY <1>4, <2>1, Zenon DEF GainsOf
    <3> QED
      BY <3>1, SumZero DEF Sequential
  <2>5. \A u : /\ SumOf(held, LockedFor(orders, u, x)) = 0
               /\ SumOf(gain, OrdersOf(orders, u)) = 0
    BY <1>4, <2>1, Zenon
  <2>6. ASSUME NEW u \in Users
        PROVE  /\ balance[Locked(u, x)] = SumOf(held, LockedFor(orders, u, x))
               /\ balance[Available(u, x)] + balance[Locked(u, x)]
                     = Funds[<<u, x>>] + SumOf(gain, OrdersOf(orders, u))
    BY <2>2, <2>5
  <2>7. balance[System("FEE_REVENUE", x)] = -SumOf(GainsOf(orders, gain), Users)
    <3>1. PICK r, s : r = balance[System("FEE_REVENUE", x)] /\ s = SumOf(GainsOf(orders, gain), Users)
      OBVIOUS
    <3>2. r = 0 /\ s = 0
      BY <2>3, <2>4, <3>1, Zenon
    <3>3. r \in Int /\ s \in Int /\ r + s = 0
      BY <3>2
    <3>4. \A h, j \in Int : h + j = 0 => h = -j
      OBVIOUS
    <3> QED
      BY <3>1, <3>3, <3>4, Zenon
  <2> QED
    BY <2>6, <2>7, Zenon DEF Fits
<1>6. Backed
  BY <1>1, <1>2, <1>5 DEF Backed, Explained
<1> QED
  BY <1>3, <1>6 DEF Accounted

LEMMA PlaceStepAccounted ==
    ASSUME IInv, Sequential, Alone, InOrder, ClosedStay, Accounted, NEW o \in Orders,
           PlaceStep(o)
    PROVE  Accounted'
<1>1. NoQuantity
  BY DEF InOrder
<1>2. ~StepRefused(o)
  BY StepNotRefused
<1>3. CASE LockFunds(o)
  BY <1>3, LockFundsAccounted
<1>4. CASE RejectOrder(o)
  BY <1>4, RejectOrderAccounted
<1>5. CASE OpenOrder(o)
  BY <1>5, OpenOrderAccounted
<1>6. CASE EnqueuePlace(o)
  BY <1>6, EnqueuePlaceAccounted
<1>7. CASE MatchOrder(o)
  BY <1>1, <1>7, MatchOrderAccounted
<1>8. CASE SettleFill(o)
  BY <1>8, SettleFillAccounted
<1>9. CASE CreateTrade(o)
  BY <1>9, CreateTradeAccounted
<1>10. CASE UpdateMaker(o)
  BY <1>10, UpdateMakerAccounted
<1>11. CASE ReleaseMaker(o)
  BY <1>11, ReleaseMakerAccounted
<1>12. CASE FinalizeTaker(o)
  BY <1>12, FinalizeTakerAccounted
<1>13. CASE ReleaseTaker(o)
  BY <1>13, ReleaseTakerAccounted
<1> QED
  BY <1>2, <1>3, <1>4, <1>5, <1>6, <1>7, <1>8, <1>9, <1>10, <1>11, <1>12, <1>13
  DEF PlaceStep

LEMMA CancelStepAccounted ==
    ASSUME IInv, Sequential, Alone, ClosedStay, Accounted, NEW o \in Orders, CancelStep(o)
    PROVE  Accounted'
<1>1. ~CancelRefused(o)
  BY CancelNotRefused
<1>2. CASE CancelOrder(o)
  BY <1>2, CancelOrderAccounted
<1>3. CASE ReleaseCancelled(o)
  BY <1>3, ReleaseCancelledAccounted
<1>4. CASE CheckCancel(o)
  BY <1>4, CheckCancelAccounted
<1> QED
  BY <1>1, <1>2, <1>3, <1>4 DEF CancelStep

LEMMA NoStepAccounted ==
    ASSUME IInv, Accounted, UNCHANGED vars
    PROVE  Accounted'
<1>1. /\ balance' = balance /\ posted' = posted /\ orders' = orders /\ trades' = trades
      /\ place' = place /\ cancel' = cancel /\ queue' = queue /\ pass' = pass
  BY DEF vars
<1>2. Orders' = Orders /\ CurrentFill' = CurrentFill
  BY <1>1 DEF Orders, CurrentFill
<1>3. Moved' = Moved
  <2>1. Moved' = IF \E x \in Orders : place[x] = "trade"
                 THEN Append(trades, TradeRow(Head(queue).order, CurrentFill)') ELSE trades
    BY <1>1, <1>2 DEF Moved
  <2>2. TradeRow(Head(queue).order, CurrentFill)' = TradeRow(Head(queue).order, CurrentFill)
    BY <1>1, <1>2 DEF TradeRow, buyerFee, sellerFee, Buyer, Seller
  <2> QED
    BY <2>1, <2>2, Zenon DEF Moved
<1>4. Backed'
  <2>1. Explained(balance, Moved, orders, posted)
    BY DEF Accounted, Backed
  <2> QED
    BY <1>1, <1>3, <2>1, BackedNext
<1>5. Booked'
  <2>1. \A x : KnownQuantity(x)' = KnownQuantity(x) /\ KnownQuote(x)' = KnownQuote(x)
    BY <1>1, <1>2 DEF KnownQuantity, KnownQuote, Awaits, DoneWith
  <2> QED
    BY <1>2, <1>3, <2>1 DEF Booked, Accounted, Ledgered
<1>6. PassAdds'
  BY <1>1, <1>2 DEF PassAdds, Whole, TradeRowAllowed, FillsDue, Remaining, Due, Accounted, Ledgered
<1>7. Covered'
  BY <1>1, <1>2, <1>3 DEF Covered, Accounted, Ledgered
<1>8. Fresh'
  BY <1>1, <1>2 DEF Fresh, Accounted, Ledgered
<1>9. \A x : Releasing(x)' <=> Releasing(x)
  BY <1>1, <1>2 DEF Releasing
<1>10. Referenced' /\ GivenBack'
  BY <1>1, <1>2, <1>3, <1>9 DEF Referenced, GivenBack, Surplus, Accounted, Ledgered
<1> QED
  BY <1>4, <1>5, <1>6, <1>7, <1>8, <1>10 DEF Accounted, Ledgered

LEMMA NextAccounted ==
    ASSUME IInv, Sequential, Alone, InOrder, Accounted, [Next]_vars
    PROVE  Accounted'
<1>1. ClosedStay /\ MaxInFlight = 1
  BY NextAlone DEF Sequential
<1>2. \A o \in Orders : ~PlaceError(o) /\ ~CancelError(o)
  BY TypeParts DEF IInv, Sequential, PlaceError, CancelError
<1>3. ~Crash
  BY TypeParts DEF IInv, Sequential, Crash
<1>4. ASSUME NEW input \in OrderInputs, PlaceOrder(input) PROVE Accounted'
  BY <1>4, PlaceOrderAccounted
<1>5. ASSUME NEW o \in Orders, PlaceStep(o) PROVE Accounted'
  BY <1>1, <1>5, PlaceStepAccounted
<1>6. ASSUME NEW o \in Orders, RequestCancel(o) PROVE Accounted'
  BY <1>1, <1>6, RequestCancelAccounted
<1>7. ASSUME NEW o \in Orders, CancelStep(o) PROVE Accounted'
  BY <1>1, <1>7, CancelStepAccounted
<1>8. CASE UNCHANGED vars
  BY <1>8, NoStepAccounted
<1> QED
  BY <1>2, <1>3, <1>4, <1>5, <1>6, <1>7, <1>8 DEF Next, Idle

LEMMA AlwaysAccounted ==
    ASSUME Sequential
    PROVE  Spec => [](Alone /\ InOrder /\ Accounted)
<1>1. Init => Alone /\ InOrder /\ Accounted
  <2>1. Init => Orders = {} /\ DOMAIN trades = {}
    BY DEF Init, Orders
  <2>2. Init => Accounted
    BY InitAccounted
  <2> QED
    BY <2>1, <2>2 DEF Alone, OneRequest, TakerLive, MakersLive, CancelLive, InOrder, NoQuantity,
       PassInOrder, TapeOfPass
<1>2. IInv /\ Alone /\ InOrder /\ Accounted /\ [Next]_vars => Alone' /\ InOrder' /\ Accounted'
  BY NextAlone, NextInOrder, NextAccounted DEF Sequential
<1> QED
  BY <1>1, <1>2, Inductive, PTL DEF Spec

-----------------------------------------------------------------------------
(* The sums of the properties, as sums of functions.                       *)

(* What trade by trade order o gained in asset x, and its user with it.    *)
GainedBy(o, x) == MapThenSumSet(LAMBDA k : Delta(k, o, x), TradesOf(o))

WealthGained(u, x) ==
    MapThenSumSet(LAMBDA o : GainedBy(o, x), {o \in Orders : orders[o].user = u})

AllGained(x) == MapThenSumSet(LAMBDA u : WealthGained(u, x), Users)

LEMMA SumOfQuantities ==
    ASSUME NEW T, IsFiniteSet(T)
    PROVE  MapThenSumSet(LAMBDA z : trades[z].quantity, T) = SumOf([z \in T |-> trades[z].quantity], T)
<1> DEFINE e == [z \in T |-> trades[z].quantity]
           F(g) == [s \in SUBSET T |->
                       IF s = {} THEN 0
                       ELSE LET y == CHOOSE y \in s : TRUE
                            IN  trades[y].quantity + g[s \ {y}]]
           h == CHOOSE g : g = F(g)
           p == PartialSums(e, T)
<1>1. MapThenSumSet(LAMBDA z : trades[z].quantity, T) = h[T]
  BY DEF MapThenSumSet, MapThenFoldSet
<1>2. ASSUME NEW g PROVE F(g) = [s \in SUBSET T |-> Added(e, g, s)]
  <2>1. ASSUME NEW s \in SUBSET T, s # {}
        PROVE  LET y == CHOOSE y \in s : TRUE IN trades[y].quantity = e[y]
    BY <2>1
  <2> QED
    BY <2>1 DEF Added
<1>3. p = F(p)
  <2>1. Adds(e, T, p)
    BY AddsExist
  <2> QED
    BY <1>2, <2>1 DEF Adds
<1>4. h = F(h)
  <2> HIDE DEF F, p
  <2> QED
    BY <1>3
<1>5. Adds(e, T, h)
  <2> HIDE DEF F, h, e
  <2> QED
    BY <1>2, <1>4 DEF Adds
<1>6. h[T] = SumOf(e, T)
  <2> HIDE DEF h, e
  <2> QED
    BY <1>5, SumIs
<1> QED
  BY <1>1, <1>6

LEMMA SumOfQuotes ==
    ASSUME NEW T, IsFiniteSet(T)
    PROVE  MapThenSumSet(LAMBDA z : trades[z].quoteAmount, T) = SumOf([z \in T |-> trades[z].quoteAmount], T)
<1> DEFINE e == [z \in T |-> trades[z].quoteAmount]
           F(g) == [s \in SUBSET T |->
                       IF s = {} THEN 0
                       ELSE LET y == CHOOSE y \in s : TRUE
                            IN  trades[y].quoteAmount + g[s \ {y}]]
           h == CHOOSE g : g = F(g)
           p == PartialSums(e, T)
<1>1. MapThenSumSet(LAMBDA z : trades[z].quoteAmount, T) = h[T]
  BY DEF MapThenSumSet, MapThenFoldSet
<1>2. ASSUME NEW g PROVE F(g) = [s \in SUBSET T |-> Added(e, g, s)]
  <2>1. ASSUME NEW s \in SUBSET T, s # {}
        PROVE  LET y == CHOOSE y \in s : TRUE IN trades[y].quoteAmount = e[y]
    BY <2>1
  <2> QED
    BY <2>1 DEF Added
<1>3. p = F(p)
  <2>1. Adds(e, T, p)
    BY AddsExist
  <2> QED
    BY <1>2, <2>1 DEF Adds
<1>4. h = F(h)
  <2> HIDE DEF F, p
  <2> QED
    BY <1>3
<1>5. Adds(e, T, h)
  <2> HIDE DEF F, h, e
  <2> QED
    BY <1>2, <1>4 DEF Adds
<1>6. h[T] = SumOf(e, T)
  <2> HIDE DEF h, e
  <2> QED
    BY <1>5, SumIs
<1> QED
  BY <1>1, <1>6

LEMMA SumOfOutstanding ==
    ASSUME NEW T, IsFiniteSet(T)
    PROVE  MapThenSumSet(LAMBDA z : Outstanding(z), T) = SumOf([z \in T |-> Outstanding(z)], T)
<1> DEFINE e == [z \in T |-> Outstanding(z)]
           F(g) == [s \in SUBSET T |->
                       IF s = {} THEN 0
                       ELSE LET y == CHOOSE y \in s : TRUE
                            IN  Outstanding(y) + g[s \ {y}]]
           h == CHOOSE g : g = F(g)
           p == PartialSums(e, T)
<1>1. MapThenSumSet(LAMBDA z : Outstanding(z), T) = h[T]
  BY DEF MapThenSumSet, MapThenFoldSet
<1>2. ASSUME NEW g PROVE F(g) = [s \in SUBSET T |-> Added(e, g, s)]
  <2>1. ASSUME NEW s \in SUBSET T, s # {}
        PROVE  LET y == CHOOSE y \in s : TRUE IN Outstanding(y) = e[y]
    BY <2>1
  <2> QED
    BY <2>1 DEF Added
<1>3. p = F(p)
  <2>1. Adds(e, T, p)
    BY AddsExist
  <2> QED
    BY <1>2, <2>1 DEF Adds
<1>4. h = F(h)
  <2> HIDE DEF F, p
  <2> QED
    BY <1>3
<1>5. Adds(e, T, h)
  <2> HIDE DEF F, h, e
  <2> QED
    BY <1>2, <1>4 DEF Adds
<1>6. h[T] = SumOf(e, T)
  <2> HIDE DEF h, e
  <2> QED
    BY <1>5, SumIs
<1> QED
  BY <1>1, <1>6

LEMMA SumOfDeltas ==
    ASSUME NEW o, NEW x, NEW T, IsFiniteSet(T)
    PROVE  MapThenSumSet(LAMBDA z : Delta(z, o, x), T) = SumOf([z \in T |-> Delta(z, o, x)], T)
<1> DEFINE e == [z \in T |-> Delta(z, o, x)]
           F(g) == [s \in SUBSET T |->
                       IF s = {} THEN 0
                       ELSE LET y == CHOOSE y \in s : TRUE
                            IN  Delta(y, o, x) + g[s \ {y}]]
           h == CHOOSE g : g = F(g)
           p == PartialSums(e, T)
<1>1. MapThenSumSet(LAMBDA z : Delta(z, o, x), T) = h[T]
  BY DEF MapThenSumSet, MapThenFoldSet
<1>2. ASSUME NEW g PROVE F(g) = [s \in SUBSET T |-> Added(e, g, s)]
  <2>1. ASSUME NEW s \in SUBSET T, s # {}
        PROVE  LET y == CHOOSE y \in s : TRUE IN Delta(y, o, x) = e[y]
    BY <2>1
  <2> QED
    BY <2>1 DEF Added
<1>3. p = F(p)
  <2>1. Adds(e, T, p)
    BY AddsExist
  <2> QED
    BY <1>2, <2>1 DEF Adds
<1>4. h = F(h)
  <2> HIDE DEF F, p
  <2> QED
    BY <1>3
<1>5. Adds(e, T, h)
  <2> HIDE DEF F, h, e
  <2> QED
    BY <1>2, <1>4 DEF Adds
<1>6. h[T] = SumOf(e, T)
  <2> HIDE DEF h, e
  <2> QED
    BY <1>5, SumIs
<1> QED
  BY <1>1, <1>6

LEMMA SumOfGainedBy ==
    ASSUME NEW x, NEW T, IsFiniteSet(T)
    PROVE  MapThenSumSet(LAMBDA z : GainedBy(z, x), T) = SumOf([z \in T |-> GainedBy(z, x)], T)
<1> DEFINE e == [z \in T |-> GainedBy(z, x)]
           F(g) == [s \in SUBSET T |->
                       IF s = {} THEN 0
                       ELSE LET y == CHOOSE y \in s : TRUE
                            IN  GainedBy(y, x) + g[s \ {y}]]
           h == CHOOSE g : g = F(g)
           p == PartialSums(e, T)
<1>1. MapThenSumSet(LAMBDA z : GainedBy(z, x), T) = h[T]
  BY DEF MapThenSumSet, MapThenFoldSet
<1>2. ASSUME NEW g PROVE F(g) = [s \in SUBSET T |-> Added(e, g, s)]
  <2>1. ASSUME NEW s \in SUBSET T, s # {}
        PROVE  LET y == CHOOSE y \in s : TRUE IN GainedBy(y, x) = e[y]
    BY <2>1
  <2> QED
    BY <2>1 DEF Added
<1>3. p = F(p)
  <2>1. Adds(e, T, p)
    BY AddsExist
  <2> QED
    BY <1>2, <2>1 DEF Adds
<1>4. h = F(h)
  <2> HIDE DEF F, p
  <2> QED
    BY <1>3
<1>5. Adds(e, T, h)
  <2> HIDE DEF F, h, e
  <2> QED
    BY <1>2, <1>4 DEF Adds
<1>6. h[T] = SumOf(e, T)
  <2> HIDE DEF h, e
  <2> QED
    BY <1>5, SumIs
<1> QED
  BY <1>1, <1>6

LEMMA SumOfWealth ==
    ASSUME NEW x, IsFiniteSet(Users)
    PROVE  AllGained(x) = SumOf([z \in Users |-> WealthGained(z, x)], Users)
<1> DEFINE e == [z \in Users |-> WealthGained(z, x)]
           F(g) == [s \in SUBSET Users |->
                       IF s = {} THEN 0
                       ELSE LET y == CHOOSE y \in s : TRUE
                            IN  WealthGained(y, x) + g[s \ {y}]]
           h == CHOOSE g : g = F(g)
           p == PartialSums(e, Users)
<1>1. AllGained(x) = h[Users]
  BY DEF AllGained, MapThenSumSet, MapThenFoldSet
<1>2. ASSUME NEW g PROVE F(g) = [s \in SUBSET Users |-> Added(e, g, s)]
  <2>1. ASSUME NEW s \in SUBSET Users, s # {}
        PROVE  LET y == CHOOSE y \in s : TRUE IN WealthGained(y, x) = e[y]
    BY <2>1
  <2> QED
    BY <2>1 DEF Added
<1>3. p = F(p)
  <2>1. Adds(e, Users, p)
    BY AddsExist
  <2> QED
    BY <1>2, <2>1 DEF Adds
<1>4. h = F(h)
  <2> HIDE DEF F, p
  <2> QED
    BY <1>3
<1>5. Adds(e, Users, h)
  <2> HIDE DEF F, h, e
  <2> QED
    BY <1>2, <1>4 DEF Adds
<1>6. h[Users] = SumOf(e, Users)
  <2> HIDE DEF h, e
  <2> QED
    BY <1>5, SumIs
<1> QED
  BY <1>1, <1>6

LEMMA TotalsAsTraded ==
    ASSUME TypeOK, NEW o
    PROVE  /\ TradesOf(o) = On(trades, o) /\ IsFiniteSet(TradesOf(o))
           /\ TradedQuantity(o) = QuantityOn(trades, o)
           /\ TradedQuote(o) = QuoteOn(trades, o)
<1> DEFINE T == TradesOf(o)
<1>1. T = On(trades, o)
  BY DEF TradesOf, On, Party
<1>2. IsFiniteSet(T) /\ T \subseteq DOMAIN trades
  BY <1>1, TapeTyped, OnFinite
<1>3. TradedQuantity(o) = SumOf([h \in T |-> trades[h].quantity], T)
  BY <1>2, SumOfQuantities DEF TradedQuantity
<1>4. TradedQuote(o) = SumOf([h \in T |-> trades[h].quoteAmount], T)
  BY <1>2, SumOfQuotes DEF TradedQuote
<1> HIDE DEF T
<1>5. /\ SumOf([h \in T |-> trades[h].quantity], T)
            = SumOf([k \in DOMAIN trades |-> trades[k].quantity], T)
      /\ SumOf([h \in T |-> trades[h].quoteAmount], T)
            = SumOf([k \in DOMAIN trades |-> trades[k].quoteAmount], T)
  <2> DEFINE q == [h \in T |-> trades[h].quantity]
             r == [k \in DOMAIN trades |-> trades[k].quantity]
             a == [h \in T |-> trades[h].quoteAmount]
             b == [k \in DOMAIN trades |-> trades[k].quoteAmount]
  <2>1. \A h \in T : q[h] = r[h] /\ a[h] = b[h]
    BY <1>2
  <2> HIDE DEF q, r, a, b
  <2>2. SumOf(q, T) = SumOf(r, T) /\ SumOf(a, T) = SumOf(b, T)
    BY <1>2, <2>1, SumSame
  <2> QED
    BY <2>2 DEF q, r, a, b
<1> QED
  BY <1>1, <1>2, <1>3, <1>4, <1>5, Zenon DEF T, QuantityOn, QuoteOn

LEMMA RestFacts ==
    ASSUME IInv, Accounted, MaxInFlight = 1, AtRest
    PROVE  /\ Moved = trades
           /\ \A o \in Orders : /\ place[o] \in Ended /\ place[o] \notin Matching
                                /\ ~Awaits(o) /\ ~Releasing(o)
                                /\ KnownQuantity(o) = orders[o].filled
                                /\ KnownQuote(o) = orders[o].spent
<1>1. \A o \in Orders : place[o] \in Ended /\ cancel[o] \in Ended
  BY NoneUnderWay DEF IInv, AtRest
<1>2. \A o \in Orders : /\ place[o] \notin Matching /\ ~Awaits(o) /\ ~Releasing(o)
  BY <1>1 DEF Ended, Matching, Settling, Awaits, Releasing
<1>3. /\ Moved = trades
      /\ \A o \in Orders : /\ KnownQuantity(o) = orders[o].filled
                           /\ KnownQuote(o) = orders[o].spent
  BY <1>2, OutsideNow DEF IInv
<1> QED
  BY <1>1, <1>2, <1>3

LEMMA OrdersAtRest ==
    ASSUME IInv, Accounted, MaxInFlight = 1
    PROVE  OrdersMatchTape
<1> SUFFICES ASSUME AtRest, NEW o \in Orders
             PROVE  orders[o].filled = TradedQuantity(o) /\ orders[o].spent = TradedQuote(o)
  BY DEF OrdersMatchTape
<1>1. /\ Moved = trades
      /\ KnownQuantity(o) = orders[o].filled /\ KnownQuote(o) = orders[o].spent
  BY RestFacts
<1>2. QuantityOn(Moved, o) = KnownQuantity(o) /\ QuoteOn(Moved, o) = KnownQuote(o)
  BY DEF Accounted, Ledgered, Booked
<1> QED
  BY <1>1, <1>2, TotalsAsTraded DEF IInv

(* What an order locks is what it holds of the ledger.                     *)
LEMMA HeldAtRest ==
    ASSUME IInv, Accounted, MaxInFlight = 1, AtRest, NEW o \in Orders
    PROVE  HeldIn(trades, orders, posted)[o] = Outstanding(o)
<1> DEFINE held == HeldIn(Moved, orders, posted)[o]
<1>1. /\ Moved = trades /\ place[o] \in Ended /\ place[o] \notin Matching
      /\ ~Awaits(o) /\ ~Releasing(o)
  BY RestFacts
<1>2. TypeOK /\ Booked /\ Covered /\ Referenced /\ GivenBack /\ Reserved
  BY DEF IInv, Accounted, Ledgered
<1>3. held \in Nat
  BY <1>2, HeldNat
<1>4. LockRef(o) \in posted /\ UnlockRef(o) \notin posted => held = Surplus(o)
  BY <1>1, <1>2, HeldOf
<1>5. ~(LockRef(o) \in posted /\ UnlockRef(o) \notin posted) => held = 0
  BY DEF HeldIn, Orders
<1> HIDE DEF held
<1>6. held = Outstanding(o)
  <2>1. CASE orders[o].status \in Terminal
    <3>1. LockRef(o) \notin posted \/ UnlockRef(o) \in posted \/ Surplus(o) <= 0
      BY <1>1, <1>2, <2>1 DEF GivenBack
    <3>2. held = 0
      BY <1>3, <1>4, <1>5, <3>1
    <3> QED
      BY <2>1, <3>2 DEF Outstanding
  <2>2. CASE orders[o].status \notin Terminal
    <3>1. orders[o].status \in Statuses
      BY <1>2, TypeParts, RowsTyped DEF OrderRows
    <3>2. orders[o].status # "PENDING"
      BY <1>1, <1>2 DEF Referenced, Ended
    <3>3. LockRef(o) \in posted
      BY <1>2, <2>2, <3>1, <3>2 DEF Reserved, Statuses, Open, Terminal
    <3>4. UnlockRef(o) \notin posted
      BY <1>2, <2>2 DEF Referenced
    <3> QED
      BY <1>4, <2>2, <3>3, <3>4 DEF Outstanding
  <2> QED
    BY <2>1, <2>2
<1> QED
  BY <1>1, <1>6 DEF held

LEMMA LocksAtRest ==
    ASSUME IInv, Accounted, MaxInFlight = 1
    PROVE  LocksMatchOrders
<1> SUFFICES ASSUME AtRest, NEW u \in Users, NEW x \in {Base, Quote}
             PROVE  balance[Locked(u, x)] =
                       MapThenSumSet(LAMBDA o : Outstanding(o),
                          {o \in Orders : orders[o].user = u /\ lockedAsset(o) = x})
  BY DEF LocksMatchOrders
<1> DEFINE S == {o \in Orders : orders[o].user = u /\ lockedAsset(o) = x}
           held == HeldIn(trades, orders, posted)
           owed == [o \in S |-> Outstanding(o)]
<1>1. S \subseteq Orders /\ IsFiniteSet(S)
  <2>1. S \subseteq 1..Len(orders) /\ Len(orders) \in Nat /\ S \subseteq Orders
    BY TypeParts, RowsTyped DEF IInv
  <2> QED
    BY <2>1, FiniteUpTo
<1>2. S = LockedFor(orders, u, x)
  BY DEF LockedFor, OrdersOf, Orders, AssetOf, lockedAsset
<1>3. \A o \in S : held[o] = owed[o]
  BY <1>1, HeldAtRest
<1>4. MapThenSumSet(LAMBDA o : Outstanding(o), S) = SumOf(owed, S)
  BY <1>1, SumOfOutstanding
<1>5. balance[Locked(u, x)] = SumOf(held, LockedFor(orders, u, x))
  <2>1. Moved = trades
    BY RestFacts
  <2>2. Explained(balance, trades, orders, posted)
    BY <2>1 DEF Accounted, Backed
  <2> QED
    BY <2>2 DEF Explained, Fits
<1> HIDE DEF S, held, owed
<1>6. SumOf(held, S) = SumOf(owed, S)
  BY <1>1, <1>3, SumSame
<1>7. balance[Locked(u, x)] = MapThenSumSet(LAMBDA o : Outstanding(o), S)
  BY <1>2, <1>4, <1>5, <1>6
<1> QED
  BY <1>7 DEF S

LEMMA DeltaIsGain ==
    ASSUME NEW o, NEW x \in {Base, Quote}, NEW k
    PROVE  Delta(k, o, x) = GainIn(trades[k], o, orders[o].side, x)
BY DEF Delta, GainIn, FeeOf, AssetOf, lockedAsset, QuantityPaid, QuantityReceived

LEMMA GainedByTape ==
    ASSUME TypeOK, NEW o \in Orders, NEW x \in {Base, Quote}
    PROVE  GainedBy(o, x) = GainsIn(trades, orders, x)[o]
<1> DEFINE T == TradesOf(o)
           d == [h \in T |-> Delta(h, o, x)]
           g == [k \in DOMAIN trades |-> GainIn(trades[k], o, orders[o].side, x)]
<1>1. T = On(trades, o) /\ IsFiniteSet(T) /\ T \subseteq DOMAIN trades
  BY TotalsAsTraded DEF TradesOf
<1>2. GainedBy(o, x) = SumOf(d, T)
  BY <1>1, SumOfDeltas DEF GainedBy
<1>3. \A h \in T : d[h] = g[h]
  BY <1>1, DeltaIsGain
<1>4. GainsIn(trades, orders, x)[o] = SumOf(g, On(trades, o))
  BY DEF GainsIn, GainOn, Orders
<1> HIDE DEF T, d, g
<1>5. SumOf(d, T) = SumOf(g, T)
  BY <1>1, <1>3, SumSame
<1> QED
  BY <1>1, <1>2, <1>4, <1>5

LEMMA WealthByTape ==
    ASSUME TypeOK, NEW u, NEW x \in {Base, Quote}
    PROVE  WealthGained(u, x) = SumOf(GainsIn(trades, orders, x), OrdersOf(orders, u))
<1> DEFINE S == {o \in Orders : orders[o].user = u}
           w == [o \in S |-> GainedBy(o, x)]
           g == GainsIn(trades, orders, x)
<1>1. S = OrdersOf(orders, u) /\ S \subseteq Orders /\ IsFiniteSet(S)
  <2>1. S \subseteq 1..Len(orders) /\ Len(orders) \in Nat /\ S \subseteq Orders
    BY TypeParts, RowsTyped
  <2>2. S = OrdersOf(orders, u)
    BY DEF OrdersOf, Orders
  <2> QED
    BY <2>1, <2>2, FiniteUpTo
<1>2. WealthGained(u, x) = SumOf(w, S)
  BY <1>1, SumOfGainedBy DEF WealthGained
<1>3. \A o \in S : w[o] = g[o]
  BY <1>1, GainedByTape
<1> HIDE DEF S, w, g
<1>4. SumOf(w, S) = SumOf(g, S)
  BY <1>1, <1>3, SumSame
<1> QED
  BY <1>1, <1>2, <1>4 DEF g

LEMMA BalancesAtRest ==
    ASSUME IInv, Sequential, Accounted
    PROVE  BalancesMatchTape
<1> SUFFICES ASSUME AtRest, NEW x \in {Base, Quote}
             PROVE  /\ \A u \in Users :
                          balance[Available(u, x)] + balance[Locked(u, x)]
                             = Funds[<<u, x>>] + WealthGained(u, x)
                    /\ balance[System("FEE_REVENUE", x)]
                          = -AllGained(x)
  BY DEF BalancesMatchTape, AllGained, WealthGained, GainedBy
<1> DEFINE w == [u \in Users |-> WealthGained(u, x)]
           gain == GainsIn(trades, orders, x)
           g == GainsOf(orders, gain)
<1>1. Fits(balance, x, orders, HeldIn(trades, orders, posted), gain)
  <2>1. Moved = trades
    BY RestFacts DEF Sequential
  <2>2. Explained(balance, trades, orders, posted)
    BY <2>1 DEF Accounted, Backed
  <2> QED
    BY <2>2 DEF Explained
<1>2. \A u \in Users : WealthGained(u, x) = SumOf(gain, OrdersOf(orders, u))
  BY WealthByTape DEF IInv
<1>3. AllGained(x) = SumOf(w, Users)
  BY SumOfWealth DEF Sequential
<1>4. \A u \in Users : w[u] = g[u]
  BY <1>2 DEF GainsOf
<1> HIDE DEF w, gain, g
<1>5. SumOf(w, Users) = SumOf(g, Users)
  BY <1>4, SumSame DEF Sequential
<1>6. ASSUME NEW u \in Users
      PROVE  balance[Available(u, x)] + balance[Locked(u, x)]
                = Funds[<<u, x>>] + WealthGained(u, x)
  BY <1>1, <1>2, Zenon DEF Fits
<1>7. balance[System("FEE_REVENUE", x)] = -SumOf(g, Users)
  BY <1>1 DEF Fits, g
<1> QED
  BY <1>3, <1>5, <1>6, <1>7, Zenon

LEMMA MoneyAtRest ==
    ASSUME IInv, Sequential, Accounted
    PROVE  MoneyMatchesTape
BY LocksAtRest, BalancesAtRest DEF MoneyMatchesTape, Sequential

(* Between requests, what matchAndSettle wrote to the filled quantity and  *)
(* the spent amount of every order, piece by piece as a maker and at once  *)
(* as a taker, is the sum of the order's rows on the tape: no fill is      *)
(* lost, counted twice or written to one side only.                        *)
THEOREM OrdersAsTraded ==
    ASSUME Sequential
    PROVE  Spec => []OrdersMatchTape
<1>1. IInv /\ Accounted => OrdersMatchTape
  BY OrdersAtRest DEF Sequential
<1> QED
  BY <1>1, Inductive, AlwaysAccounted, PTL

(* Between requests, the balances that lock, settleFill and releaseSurplus *)
(* made are explained by the rows: what a user has locked in an asset is   *)
(* what its live orders have not spent, what it owns is its opening funds  *)
(* and what its orders received, paid and were charged according to the    *)
(* tape, and the exchange earned exactly the fees on the tape.             *)
THEOREM MoneyAsTraded ==
    ASSUME Sequential
    PROVE  Spec => []MoneyMatchesTape
<1>1. IInv /\ Accounted => MoneyMatchesTape
  BY MoneyAtRest
<1> QED
  BY <1>1, Inductive, AlwaysAccounted, PTL

(* No request at hand is at a write that the database would refuse.        *)
NothingRefused == \A o \in Orders : ~StepRefused(o) /\ ~CancelRefused(o)

(* A pass or a cancellation that starts ends: no settlement or release is  *)
(* refused for want of locked funds, no trade row by trades_quote_chk and  *)
(* no fill by orders_filled_chk, so that no settled fill is left without   *)
(* its row and no closed order without its surplus.                        *)
THEOREM NeverRefused ==
    ASSUME Sequential
    PROVE  Spec => [][NothingRefused]_vars
<1>1. IInv /\ Alone /\ InOrder /\ Accounted => NothingRefused
  BY StepNotRefused, CancelNotRefused DEF NothingRefused
<1> QED
  BY <1>1, Inductive, AlwaysAccounted, PTL DEF Spec
-----------------------------------------------------------------------------
(* The book between requests: nothing rests that crosses.                  *)

(* An order in the book that no request is working on.                     *)
Rests(m) == place[m] \in Ended /\ orders[m].status \in Open

RestersLive == \A m \in Orders : Rests(m) => orders[m].type = "LIMIT" /\ Remaining(m) > 0

Uncrossed ==
    \A b, s \in Orders :
        /\ Rests(b) /\ Rests(s) /\ orders[b].side = "BUY" /\ orders[s].side = "SELL"
        /\ orders[b].user # orders[s].user
        => orders[b].price < orders[s].price

(* A pass takes all that its order crosses, or all that its order asked    *)
(* for.                                                                    *)
Meets(o, m) == crosses(orders[o].side, orders[o].price, orders[m].price)

Clears(o, d) ==
    \/ pass.filled >= orders[o].quantity
    \/ \A m \in Resting(o) : Meets(o, m) => SpentBy(m, d, Len(pass.fills) + 1)

PassClears ==
    \A o \in Orders :
        place[o] \in Matching /\ orders[o].type = "LIMIT" => Clears(o, Due(place[o]))

BookClear == RestersLive /\ Uncrossed /\ PassClears

-----------------------------------------------------------------------------
(* The matching loop of a LIMIT order, when every notional is whole.       *)
Crossed(t, m) == crosses(t.side, t.price, m.price)

(* A book in price order, at prices in whole quote units.                  *)
WholeBook(t, b, n) ==
    /\ t.type = "LIMIT" /\ b \in [1..n -> Resters]
    /\ \A k \in 1..n : \E c \in Nat \ {0} : b[k].price = c * QScale
    /\ \A h, k \in 1..n : k < h /\ Crossed(t, b[h]) => Crossed(t, b[k])

(* The order is done, or all it meets so far is used up and, if the loop   *)
(* has stopped, it meets nothing more.                                     *)
Swept(t, b, n, k, l) ==
    \/ l.remaining <= 0
    \/ /\ \A h \in 1..k : Crossed(t, b[h]) => UsedUp(l.fills, Len(l.fills), b[h])
       /\ l.stop => \A h \in (k + 1)..n : ~Crossed(t, b[h])

(* Something of a resting order is worth at least one quote unit.          *)
LEMMA WorthSomething ==
    ASSUME NEW c \in Nat \ {0}, NEW p, p = c * QScale, NEW q \in Nat, q > 0
    PROVE  quoteFloor(p, q) \in Nat /\ quoteFloor(p, q) > 0
<1>1. quoteFloor(p, q) * QScale = p * q
  BY ExactFloor
<1>2. QScale \in Nat \ {0} /\ p \in Nat /\ p > 0
  BY QScaleAssumption
<1>3. quoteFloor(p, q) \in Nat
  BY <1>2, FloorOfNothing
<1>4. p * q > 0
  BY <1>2
<1>5. quoteFloor(p, q) # 0
  <2> DEFINE a == quoteFloor(p, q)
  <2>1. a = 0 => a * QScale = 0
    BY <1>2
  <2> QED
    BY <2>1, <1>1, <1>4
<1> QED
  BY <1>3, <1>5

(* The loop stops only where the limit does not cross.                     *)
LEMMA StopsBeyond ==
    ASSUME NEW t, NEW n \in Nat, NEW b, WholeBook(t, b, n), NEW k \in 1..n,
           NEW l \in Loops, l.remaining > 0, Breaks(t, l, b[k])
    PROVE  ~Crossed(t, b[k])
<1>1. PICK m : m = b[k]
  OBVIOUS
<1>2. m \in Resters /\ t.type = "LIMIT"
  BY <1>1 DEF WholeBook
<1>3. PICK c \in Nat \ {0} : m.price = c * QScale
  BY <1>1 DEF WholeBook
<1>4. m.remaining \in Nat /\ l.remaining \in Int
  BY <1>2 DEF Resters, Loops
<1>5. PICK q : q = FillQuantity(t, l, m)
  OBVIOUS
<1>6. m.remaining > 0 => q \in Nat /\ q > 0
  BY <1>2, <1>4, <1>5 DEF FillQuantity, BudgetDriven, LeastOf
<1>7. m.remaining > 0 => quoteFloor(m.price, q) \in Nat /\ quoteFloor(m.price, q) > 0
  BY <1>3, <1>6, WorthSomething
<1>8. Breaks(t, l, m)
  BY <1>1
<1>9. CASE ~Crossed(t, m)
  BY <1>1, <1>9
<1>10. CASE /\ m.remaining > 0
            /\ l.remaining <= 0 \/ q <= 0 \/ quoteFloor(m.price, q) <= 0
  BY <1>4, <1>6, <1>7, <1>10
<1> QED
  BY <1>5, <1>8, <1>9, <1>10 DEF Breaks, Crossed

(* One turn of the loop: the order at the next position is used up, or the *)
(* loop stops before it and before all that come after.                    *)
LEMMA TurnSweeps ==
    ASSUME NEW t, NEW n \in Nat, NEW b, WholeBook(t, b, n), NEW k \in 0..(n - 1),
           NEW l \in Loops, Swept(t, b, n, k, l), NEW e \in 1..n, e = k + 1,
           NEW x, x = LoopBody(t, l, b[e])
    PROVE  Swept(t, b, n, e, x)
<1>1. PICK m \in Resters : m = b[e]
  BY DEF WholeBook
<1>2. /\ t.type = "LIMIT" /\ ~BudgetDriven(t)
      /\ \A h \in 1..e : h = e \/ h \in 1..k
      /\ \A h \in (e + 1)..n : h \in (k + 1)..n
      /\ e \in (k + 1)..n
  BY DEF WholeBook, BudgetDriven
<1>3. l.stop \in BOOLEAN /\ l.remaining \in Int /\ m.remaining \in Nat
  BY DEF Loops, Resters
<1>4. CASE l.stop
  <2>1. x = l
    BY <1>3, <1>4 DEF LoopBody
  <2> QED
    BY <1>2, <1>4, <2>1 DEF Swept
<1>5. CASE ~l.stop /\ Breaks(t, l, m)
  <2>1. x = [l EXCEPT !.stop = TRUE]
    BY <1>1, <1>5 DEF LoopBody
  <2>2. x.remaining = l.remaining /\ x.fills = l.fills
    BY <2>1 DEF Loops
  <2>3. CASE l.remaining <= 0
    BY <2>2, <2>3 DEF Swept
  <2>4. CASE l.remaining > 0
    <3>1. ~Crossed(t, b[e])
      BY <1>1, <1>5, <2>4, StopsBeyond
    <3>2. \A h \in (e + 1)..n : ~Crossed(t, b[h])
      BY <3>1 DEF WholeBook
    <3> QED
      BY <1>2, <1>3, <2>2, <2>4, <3>1, <3>2 DEF Swept
  <2> QED
    BY <1>3, <2>3, <2>4
<1>6. CASE ~l.stop /\ ~Breaks(t, l, m) /\ m.remaining <= 0
  <2>1. x = l
    BY <1>1, <1>6 DEF LoopBody
  <2>2. UsedUp(l.fills, Len(l.fills), b[e])
    BY <1>1, <1>6 DEF UsedUp
  <2> QED
    BY <1>2, <1>6, <2>1, <2>2 DEF Swept
<1>7. CASE ~l.stop /\ ~Breaks(t, l, m) /\ ~(m.remaining <= 0)
  <2>1. PICK f \in BookFills : x.fills = Append(l.fills, f) /\ Takes(t, m, x, f)
    BY <1>1, <1>7, TurnTakes
  <2>2. PICK c \in Nat : c = Len(l.fills) /\ l.fills \in Seq(BookFills)
    BY DEF Loops
  <2>3. /\ Len(x.fills) = c + 1 /\ x.fills[c + 1] = f
        /\ \A h \in 1..c : x.fills[h] = l.fills[h]
    BY <2>1, <2>2
  <2>4. x.stop = FALSE /\ f.maker = m.id /\ (f.quantity = m.remaining \/ x.remaining = 0)
    BY <1>2, <2>1 DEF Takes
  <2>5. CASE x.remaining = 0
    BY <2>5 DEF Swept
  <2>6. CASE f.quantity = m.remaining
    <3>1. UsedUp(x.fills, c + 1, b[e])
      BY <1>1, <2>3, <2>4, <2>6 DEF UsedUp
    <3>2. ~(l.remaining <= 0)
      BY <1>3, <1>7 DEF Breaks
    <3>3. \A h \in 1..k : Crossed(t, b[h]) => UsedUp(l.fills, c, b[h])
      BY <2>2, <3>2 DEF Swept
    <3>4. \A y : UsedUp(l.fills, c, y) => UsedUp(x.fills, c + 1, y)
      <4>1. PICK d \in Nat : d = c + 1 /\ c <= d
        OBVIOUS
      <4>2. \A y : UsedUp(l.fills, c, y) => UsedUp(x.fills, d, y)
        BY <2>3, <4>1, LongerPrefix
      <4> QED
        BY <4>1, <4>2
    <3>5. \A h \in 1..e : Crossed(t, b[h]) => UsedUp(x.fills, c + 1, b[h])
      BY <1>2, <3>1, <3>3, <3>4
    <3> QED
      BY <2>3, <2>4, <3>5 DEF Swept
  <2> QED
    BY <2>4, <2>5, <2>6
<1> QED
  BY <1>4, <1>5, <1>6, <1>7

(* matchOrder leaves its order done, or every order it crosses used up.    *)
LEMMA MatchSweeps ==
    ASSUME NEW t, t.quantity \in Nat, t.budget \in Nat,
           NEW n \in Nat, NEW b, WholeBook(t, b, n), NEW r, r = matchOrder(t, b)
    PROVE  \/ r.filledQuantity >= t.quantity
           \/ \A h \in 1..n : Crossed(t, b[h]) => UsedUp(r.fills, Len(r.fills), b[h])
<1> DEFINE L(k) == Loop(t, b)[1..k]
           Sound(k, l) == /\ l \in Loops /\ l.remaining + l.filled = t.quantity
                          /\ Swept(t, b, n, k, l)
           S == {k \in Nat : k <= n => Sound(k, L(k))}
<1>1. DOMAIN b = 1..n /\ b \in [1..n -> Resters] /\ ~BudgetDriven(t)
  BY DEF WholeBook, BudgetDriven
<1>2. /\ L(0) = LoopStart(t)
      /\ \A k \in 1..n : L(k) = LoopBody(t, L(k - 1), b[k])
  <2>1. 1..0 = {}
    OBVIOUS
  <2> QED
    BY <1>1, <2>1, LoopUnfolds
<1> HIDE DEF L
<1>3. 0 \in S
  <2>1. PICK l : l = [remaining |-> t.quantity, fills |-> << >>, filled |-> 0,
                      quote |-> 0, stop |-> FALSE]
    OBVIOUS
  <2>2. << >> \in Seq(BookFills)
    OBVIOUS
  <2>3. l \in Loops /\ l.remaining = t.quantity /\ l.filled = 0 /\ l.stop = FALSE
    BY <2>1, <2>2 DEF Loops
  <2>4. L(0) = l
    BY <1>1, <1>2, <2>1 DEF LoopStart
  <2>5. Swept(t, b, n, 0, l)
    BY <2>3 DEF Swept
  <2> QED
    BY <2>3, <2>4, <2>5
<1>4. ASSUME NEW k \in 0..(n - 1), k \in S PROVE k + 1 \in S
  <2>1. PICK e \in 1..n : e = k + 1
    OBVIOUS
  <2>2. PICK l, x, m : l = L(k) /\ x = L(e) /\ m = b[e]
    OBVIOUS
  <2>3. Sound(k, l)
    BY <1>4, <2>2
  <2>4. x = LoopBody(t, l, m) /\ m \in Resters
    BY <1>1, <1>2, <2>1, <2>2
  <2>5. x \in Loops
    BY <2>3, <2>4, TurnFills
  <2>6. Swept(t, b, n, e, x)
    BY <2>1, <2>2, <2>3, <2>4, <2>5, TurnSweeps
  <2>7. x.remaining + x.filled = t.quantity
    <3>1. CASE x.filled = l.filled /\ x.remaining = l.remaining
      BY <2>3, <3>1
    <3>2. CASE \E f \in BookFills : FillAdded(t, m, l, x, f)
      <4>1. PICK f \in BookFills : FillAdded(t, m, l, x, f)
        BY <3>2
      <4>2. f.quantity \in Nat /\ l.remaining \in Int /\ l.filled \in Nat
        BY <2>3 DEF BookFills, Loops
      <4>3. x.filled = l.filled + f.quantity /\ x.remaining = l.remaining - f.quantity
        BY <1>1, <4>1 DEF FillAdded, Consumed
      <4> QED
        BY <2>3, <4>2, <4>3
    <3> QED
      BY <2>3, <2>4, <3>1, <3>2, TurnAdds
  <2> QED
    BY <2>1, <2>2, <2>5, <2>6, <2>7
<1>5. \A k \in 0..n : k \in S
  <2> HIDE DEF S
  <2> QED
    BY <1>3, <1>4, InductionUpTo
<1>6. PICK l : l = L(n)
  OBVIOUS
<1>7. Sound(n, l)
  BY <1>5, <1>6
<1>8. r.fills = l.fills /\ r.filledQuantity = l.filled
  BY <1>1, <1>6, MatchIsLoop DEF L
<1>9. l.filled \in Nat /\ l.remaining \in Int
  BY <1>7 DEF Loops
<1>10. CASE l.remaining <= 0
  BY <1>7, <1>8, <1>9, <1>10
<1> QED
  BY <1>7, <1>8, <1>10 DEF Swept

-----------------------------------------------------------------------------
(* The scan of loadRestingBook reaches every resting order.                *)
WholeScan == \A o \in Orders : Cardinality(Resting(o)) <= BookScanLimit

(* With no more orders than the scan reads, the scan reads them all.       *)
LEMMA ShortBooks ==
    ASSUME TypeOK, BookScanLimit >= MaxOrders
    PROVE  WholeScan
<1> SUFFICES ASSUME NEW o \in Orders PROVE Cardinality(Resting(o)) <= BookScanLimit
  BY DEF WholeScan
<1>1. /\ Resting(o) \subseteq Orders /\ Orders = 1..Len(orders)
      /\ Len(orders) \in Nat /\ Len(orders) <= MaxOrders
  <2>1. orders \in Seq(OrderRows) /\ Len(orders) <= MaxOrders
    BY DEF TypeOK
  <2>2. Len(orders) \in Nat /\ Orders = 1..Len(orders)
    BY <2>1, RowsTyped
  <2>3. Resting(o) \subseteq Orders
    BY DEF Resting
  <2> QED
    BY <2>1, <2>2, <2>3
<1>2. PICK n \in Nat : n = Len(orders)
  BY <1>1
<1>3. IsFiniteSet(1..n) /\ Cardinality(1..n) = n
  BY FS_Interval
<1>4. Resting(o) \subseteq 1..n /\ n <= MaxOrders
  BY <1>1, <1>2
<1>5. Cardinality(Resting(o)) \in Nat /\ Cardinality(Resting(o)) <= n
  BY <1>3, <1>4, FS_Subset, FS_CardinalityType
<1> QED
  BY <1>4, <1>5, NumbersAssumption

(* Within the scan, loadRestingBook returns every resting order, sorted.   *)
LEMMA BookIsWhole ==
    ASSUME TypeOK, WholeScan, NEW o \in Orders, NEW b, b = loadRestingBook(o)
    PROVE  \E n \in Nat :
              /\ b \in [1..n -> Resting(o)] /\ Enumerates(o, b, n)
              /\ \A m \in Resting(o) : \E k \in 1..n : b[k] = m
<1> DEFINE c == Cardinality(Resting(o))
           s == CHOOSE s \in [1..c -> Resting(o)] :
                   \A j, k \in 1..c : j < k => Before(o, s[j], s[k])
           x == LeastOf(c, BookScanLimit)
<1>1. orders \in Seq(OrderRows) /\ Resting(o) \subseteq Orders
  BY DEF Resting, TypeOK
<1>2. Sortable(o, Resting(o))
  BY <1>1, SortedExists
<1>3. c \in Nat /\ s \in [1..c -> Resting(o)] /\ Enumerates(o, s, c)
      /\ IsFiniteSet(Resting(o))
  BY <1>2 DEF Sortable, Enumerates
<1>4. b = SubSeq(s, 1, x)
  BY DEF loadRestingBook
<1>5. c <= BookScanLimit
  BY DEF WholeScan
<1>6. x = c
  BY <1>3, <1>5, NumbersAssumption DEF LeastOf
<1>7. \A m \in Resting(o) : \E h \in 1..c : s[h] = m
  <2>1. PICK R : R = Resting(o)
    OBVIOUS
  <2>2. PICK a \in Nat : a = c /\ a = Cardinality(R)
    BY <1>3, <2>1
  <2>3. PICK z : z = s
    OBVIOUS
  <2> HIDE DEF c, s
  <2>4. \A m \in R : \E h \in 1..a : z[h] = m
    BY <1>1, <1>3, <2>1, <2>2, <2>3, EnumeratesAll
  <2> QED
    BY <2>1, <2>2, <2>3, <2>4
<1> HIDE DEF c, s, x
<1>8. b \in [1..x -> Resting(o)] /\ \A h \in 1..x : b[h] = s[h]
  BY <1>3, <1>4, <1>6, Prefix
<1>9. Enumerates(o, b, c)
  BY <1>3, <1>6, <1>8 DEF Enumerates
<1> QED
  BY <1>3, <1>6, <1>7, <1>8, <1>9

(* The resting orders are the other orders that no request works on.       *)
LEMMA RestingRests ==
    ASSUME IInv, RestersLive, Covered, NEW o \in Orders,
           \A x \in Orders : x # o => place[x] \in Ended, NEW m \in Resting(o)
    PROVE  /\ m \in Orders /\ m # o /\ Rests(m) /\ ~BudgetDriven(orders[m])
           /\ Remaining(m) \in Nat /\ Remaining(m) > 0
           /\ \E c \in Nat \ {0} : orders[m].price = c * QScale
<1>1. /\ m \in Orders /\ orders[m].status \in Open /\ orders[m].side # orders[o].side
  BY DEF Resting
<1>2. m # o /\ Rests(m)
  BY <1>1 DEF Rests
<1>3. orders[m].type = "LIMIT" /\ Remaining(m) > 0
  BY <1>1, <1>2 DEF RestersLive
<1>4. orders[m].price # 0
  BY <1>1, <1>3 DEF IInv, PricesKept, NoPrice
<1>5. /\ orders[m].quantity \in Nat /\ orders[m].filled \in Nat
      /\ QScale \in Nat \ {0}
  BY <1>1, TypeParts, RowsTyped, QScaleAssumption DEF IInv
<1>6. PICK c \in Nat : orders[m].price = c * QScale
  BY <1>1 DEF Covered
<1>7. c # 0
  BY <1>4, <1>5, <1>6
<1> QED
  BY <1>1, <1>2, <1>3, <1>5, <1>6, <1>7 DEF Remaining, BudgetDriven

(* The book a LIMIT order meets, as rows of the table in price order.      *)
LEMMA WholeBookOf ==
    ASSUME IInv, WholeScan, RestersLive, Covered, NEW o \in Orders,
           orders[o].type = "LIMIT", \A x \in Orders : x # o => place[x] \in Ended
    PROVE  \E n \in Nat :
              /\ WholeBook(orders[o], BookOf(o), n)
              /\ \A m \in Resting(o) : \E k \in 1..n : RowOf(BookOf(o)[k], m)
<1>1. PICK b : b = loadRestingBook(o)
  OBVIOUS
<1>2. PICK n \in Nat :
         /\ b \in [1..n -> Resting(o)] /\ Enumerates(o, b, n)
         /\ \A m \in Resting(o) : \E k \in 1..n : b[k] = m
  BY <1>1, BookIsWhole DEF IInv
<1>3. PICK w : w = BookOf(o)
  OBVIOUS
<1>4. ASSUME NEW k \in 1..n
      PROVE  /\ w[k] \in Resters /\ RowOf(w[k], b[k])
             /\ w[k].price = orders[b[k]].price
             /\ \E c \in Nat \ {0} : w[k].price = c * QScale
  <2>1. PICK m \in Resting(o) : m = b[k]
    BY <1>2
  <2>2. PICK r : r = Remaining(m)
    OBVIOUS
  <2>3. /\ m \in Orders /\ ~BudgetDriven(orders[m]) /\ r \in Nat
        /\ \E c \in Nat \ {0} : orders[m].price = c * QScale
    BY <2>2, RestingRests
  <2>4. w[k] = [id |-> m, price |-> orders[m].price, remaining |-> r]
    BY <1>1, <1>2, <1>3, <2>1, <2>2, <2>3 DEF BookOf
  <2>5. m \in Nat /\ orders[m].price \in Nat
    BY <2>3, TypeParts, RowsTyped DEF IInv
  <2>6. w[k] \in Resters
    BY <2>3, <2>4, <2>5 DEF Resters
  <2>7. RowOf(w[k], m)
    BY <2>2, <2>3, <2>4 DEF RowOf
  <2> QED
    BY <2>1, <2>3, <2>4, <2>6, <2>7
<1>5. DOMAIN w = 1..n /\ w = [k \in 1..n |-> w[k]]
  BY <1>1, <1>2, <1>3 DEF BookOf
<1>6. w \in [1..n -> Resters]
  BY <1>4, <1>5
<1>7. ASSUME NEW h \in 1..n, NEW k \in 1..n, k < h, Crossed(orders[o], w[h])
      PROVE  Crossed(orders[o], w[k])
  <2>1. Before(o, b[k], b[h])
    BY <1>2, <1>7 DEF Enumerates
  <2>2. PICK p, q : p = w[k].price /\ q = w[h].price
    OBVIOUS
  <2>3. p \in Nat \ {0} /\ q \in Nat \ {0} /\ p = orders[b[k]].price /\ q = orders[b[h]].price
    <3>1. p \in Nat /\ q \in Nat
      BY <1>4, <2>2 DEF Resters
    <3>2. (\E c \in Nat \ {0} : p = c * QScale) /\ (\E c \in Nat \ {0} : q = c * QScale)
      BY <1>4, <2>2
    <3>3. p # 0 /\ q # 0
      BY <3>2, QScaleAssumption
    <3> QED
      BY <1>4, <2>2, <3>1, <3>3
  <2>4. orders[o].price \in Nat /\ orders[o].side \in {"BUY", "SELL"}
    BY TypeParts, RowsTyped DEF IInv
  <2>5. crosses(orders[o].side, orders[o].price, q)
    BY <1>7, <2>2 DEF Crossed
  <2>6. IF orders[o].side = "BUY" THEN p <= q ELSE q <= p
    BY <2>1, <2>3, <2>4 DEF Before, Ahead, NoPrice
  <2>7. crosses(orders[o].side, orders[o].price, p)
    BY <2>3, <2>4, <2>5, <2>6 DEF crosses
  <2> QED
    BY <2>2, <2>7 DEF Crossed
<1>8. WholeBook(orders[o], w, n)
  BY <1>4, <1>6, <1>7 DEF WholeBook
<1>9. \A m \in Resting(o) : \E k \in 1..n : RowOf(w[k], m)
  BY <1>2, <1>4
<1> QED
  BY <1>3, <1>8, <1>9

(* So the pass that matchAndSettle computes clears all its order crosses.  *)
LEMMA MatchClears ==
    ASSUME IInv, WholeScan, RestersLive, Covered, NEW o \in Orders,
           orders[o].type = "LIMIT", \A x \in Orders : x # o => place[x] \in Ended,
           NEW r, r = matchOrder(orders[o], BookOf(o)),
           orders' = orders, pass'.fills = r.fills, pass'.filled = r.filledQuantity
    PROVE  Clears(o, 1)'
<1>1. PICK n, b :
         /\ n \in Nat /\ b = BookOf(o) /\ WholeBook(orders[o], b, n)
         /\ \A m \in Resting(o) : \E k \in 1..n : RowOf(b[k], m)
  BY WholeBookOf
<1>2. PICK t : t = orders[o] /\ t.quantity \in Nat /\ t.budget \in Nat
  BY TypeParts, RowsTyped DEF IInv
<1>3. \/ r.filledQuantity >= t.quantity
      \/ \A h \in 1..n : Crossed(t, b[h]) => UsedUp(r.fills, Len(r.fills), b[h])
  <2>1. WholeBook(t, b, n) /\ r = matchOrder(t, b)
    BY <1>1, <1>2
  <2> QED
    BY <1>1, <1>2, <2>1, MatchSweeps
<1>4. CASE r.filledQuantity >= t.quantity
  BY <1>2, <1>4 DEF Clears
<1>5. CASE \A h \in 1..n : Crossed(t, b[h]) => UsedUp(r.fills, Len(r.fills), b[h])
  <2>1. PICK c : c = Len(r.fills)
    OBVIOUS
  <2>2. c \in Nat
    <3>1. r.fills \in Seq(FillRecords)
      BY FillsOfBook
    <3> QED
      BY <2>1, <3>1
  <2>3. ASSUME NEW m \in Resting(o), Meets(o, m)
        PROVE  \/ Remaining(m) <= 0
               \/ \E x \in 1..c : r.fills[x].maker = m /\ r.fills[x].quantity = Remaining(m)
    <3>1. PICK k \in 1..n : RowOf(b[k], m)
      BY <1>1
    <3>2. Crossed(t, b[k])
      BY <1>2, <2>3, <3>1 DEF Crossed, Meets, RowOf
    <3>3. UsedUp(r.fills, c, b[k])
      BY <1>5, <2>1, <3>2
    <3> QED
      BY <3>1, <3>3 DEF UsedUp, RowOf
  <2>4. /\ \A m : Remaining(m)' = Remaining(m) /\ Resting(o)' = Resting(o)
        /\ \A m : Meets(o, m)' <=> Meets(o, m)
    BY SameRowsSameBook DEF Meets
  <2>5. (c + 1) - 1 = c /\ Len(pass'.fills) = c
    BY <2>1, <2>2
  <2>6. \A m \in Resting(o) : Meets(o, m) => SpentBy(m, 1, c + 1)'
    BY <2>3, <2>4, <2>5 DEF SpentBy
  <2> QED
    BY <2>4, <2>5, <2>6 DEF Clears, SpentBy
<1> QED
  BY <1>3, <1>4, <1>5

-----------------------------------------------------------------------------
(* The book between the steps.                                             *)

(* A step that brings no order into the book keeps it uncrossed.           *)
LEMMA NothingJoins ==
    ASSUME RestersLive, Uncrossed, RowsKept,
           \A x \in Orders : Rests(x)' => Rests(x) /\ Remaining(x)' > 0
    PROVE  RestersLive' /\ Uncrossed'
<1>1. Orders' = Orders /\ \A x \in Orders : SameTerms(x)
  BY DEF RowsKept
<1>2. RestersLive'
  BY <1>1 DEF RestersLive, SameTerms
<1>3. Uncrossed'
  BY <1>1 DEF Uncrossed, SameTerms
<1> QED
  BY <1>2, <1>3

(* A step that keeps the terms of the orders and lets none join the book,  *)
(* while the pass it leaves still clears, keeps the book uncrossed.        *)
LEMMA BookMoves ==
    ASSUME BookClear, RowsKept, NEW o \in Orders,
           \A x \in Orders : x # o => place'[x] \in Ended,
           \A x \in Orders : Rests(x)' => Rests(x) /\ Remaining(x)' > 0,
           place'[o] \in Matching /\ orders[o].type = "LIMIT" => Clears(o, Due(place[o]))'
    PROVE  BookClear'
<1>1. RestersLive' /\ Uncrossed'
  BY NothingJoins DEF BookClear
<1>2. Orders' = Orders /\ SameTerms(o)
  BY DEF RowsKept
<1>3. PassClears'
  <2> SUFFICES ASSUME NEW x \in Orders, place'[x] \in Matching, orders'[x].type = "LIMIT"
               PROVE  Clears(x, Due(place[x]))'
    BY <1>2 DEF PassClears
  <2>1. x = o
    BY DEF Ended, Matching, Settling
  <2> QED
    BY <2>1, <1>2 DEF SameTerms
<1> QED
  BY <1>1, <1>3 DEF BookClear

(* Unless a placement takes fills afterwards.                              *)
LEMMA BookStays ==
    ASSUME BookClear, RowsKept, \A x \in Orders : place'[x] \notin Matching,
           \A x \in Orders : Rests(x)' => Rests(x) /\ Remaining(x)' > 0
    PROVE  BookClear'
<1>1. RestersLive' /\ Uncrossed'
  BY NothingJoins DEF BookClear
<1>2. PassClears'
  BY DEF PassClears, RowsKept
<1> QED
  BY <1>1, <1>2 DEF BookClear

(* The rows as they are.                                                   *)
LEMMA SameRests ==
    ASSUME BookClear, orders' = orders,
           \A x \in Orders : place'[x] \in Ended /\ orders[x].status \in Open => place[x] \in Ended
    PROVE  \A x \in Orders : Rests(x)' => Rests(x) /\ Remaining(x)' > 0
<1>1. \A x \in Orders : Rests(x) => Remaining(x) > 0
  BY DEF BookClear, RestersLive
<1>2. \A x \in Orders : Rests(x)' => Rests(x)
  BY DEF Rests
<1> QED
  BY <1>1, <1>2 DEF Remaining

(* The steps of placeOrder before the market lock touch no resting order.  *)
LEMMA OutsideBook ==
    ASSUME IInv, OneRequest, BookClear, NEW o \in Orders,
           LockFunds(o) \/ RejectOrder(o) \/ OpenOrder(o) \/ EnqueuePlace(o)
    PROVE  BookClear'
<1>1. /\ TypeOK /\ place[o] \notin Ended
      /\ \E pc \in {"open", "reject", "failed", "enqueue", "waiting"} :
            /\ place' = [place EXCEPT ![o] = pc]
            /\ \/ orders' = orders /\ pc # "failed"
               \/ pc = "failed" /\ SetStatus(o, "REJECTED")
               \/ pc = "enqueue" /\ SetStatus(o, "OPEN")
  BY DEF IInv, LockFunds, RejectOrder, OpenOrder, EnqueuePlace, GoPlace, Ended
<1>2. PICK pc \in {"open", "reject", "failed", "enqueue", "waiting"} :
         /\ place' = [place EXCEPT ![o] = pc]
         /\ \/ orders' = orders /\ pc # "failed"
            \/ pc = "failed" /\ SetStatus(o, "REJECTED")
            \/ pc = "enqueue" /\ SetStatus(o, "OPEN")
  BY <1>1
<1>3. /\ place'[o] = pc /\ \A x \in Orders : x # o => place'[x] = place[x]
      /\ \A x \in Orders : x # o => place[x] \in Ended
  BY <1>1, <1>2, PlaceTyped, OthersEnded DEF PlaceStates, InPass
<1>4. /\ RowsKept /\ \A x \in Orders : x # o => orders'[x] = orders[x]
      /\ pc = "failed" => orders'[o].status = "REJECTED"
  <2>1. {"REJECTED", "OPEN"} \subseteq Statuses
    BY DEF Statuses, Open, Terminal
  <2> QED
    BY <1>1, <1>2, <2>1, RowsUntouched, StatusChange
<1>5. \A x \in Orders : Rests(x)' => Rests(x) /\ Remaining(x)' > 0
  <2> SUFFICES ASSUME NEW x \in Orders, Rests(x)' PROVE Rests(x) /\ Remaining(x)' > 0
    OBVIOUS
  <2>1. x # o
    BY <1>3, <1>4 DEF Rests, Ended, Open
  <2>2. Rests(x) /\ Remaining(x)' = Remaining(x)
    BY <2>1, <1>3, <1>4 DEF Rests, Remaining
  <2> QED
    BY <2>2 DEF BookClear, RestersLive
<1>6. \A x \in Orders : place'[x] \notin Matching
  BY <1>3 DEF Ended, Matching, Settling
<1> QED
  BY <1>4, <1>5, <1>6, BookStays

(* The step that computes the fills starts a pass that clears.             *)
LEMMA MatchOrderBook ==
    ASSUME IInv, OneRequest, WholeScan, Covered, BookClear, NEW o \in Orders, MatchOrder(o)
    PROVE  BookClear'
<1>1. TypeOK /\ place[o] = "waiting" /\ orders' = orders
  BY DEF IInv, MatchOrder
<1>2. PICK r : /\ r = matchOrder(orders[o], BookOf(o))
               /\ pass' = [fills |-> r.fills, next |-> 1,
                           filled |-> r.filledQuantity, quote |-> r.quoteTotal]
               /\ GoPlace(o, IF r.fills = << >> THEN "finalize" ELSE "settle")
  BY DEF MatchOrder
<1>3. PICK pc \in {"finalize", "settle"} : place' = [place EXCEPT ![o] = pc]
  BY <1>2 DEF GoPlace
<1>4. pass'.fills = r.fills /\ pass'.next = 1 /\ pass'.filled = r.filledQuantity
  BY <1>2
<1>5. /\ place'[o] = pc /\ \A x \in Orders : x # o => place'[x] = place[x]
      /\ \A x \in Orders : x # o => place[x] \in Ended
  BY <1>1, <1>3, PlaceTyped, OthersEnded DEF PlaceStates, InPass, Ended
<1>6. RowsKept
  BY <1>1, RowsUntouched
<1>7. \A x \in Orders : Rests(x)' => Rests(x) /\ Remaining(x)' > 0
  BY <1>1, <1>5, SameRests DEF Ended
<1>8. ASSUME orders[o].type = "LIMIT" PROVE Clears(o, Due(place[o]))'
  <2>1. Clears(o, 1)'
    BY <1>1, <1>2, <1>4, <1>5, <1>8, MatchClears DEF BookClear
  <2>2. Due(place[o])' = 1
    BY <1>4, <1>5 DEF Due
  <2> QED
    BY <2>1, <2>2 DEF Clears, SpentBy
<1> QED
  BY <1>5, <1>6, <1>7, <1>8, BookMoves

(* The steps of a pass that write no order row.                            *)
LEMMA ClearsStays ==
    ASSUME orders' = orders, pass'.fills = pass.fills, pass'.filled = pass.filled,
           NEW o, NEW d, Clears(o, d)
    PROVE  Clears(o, d)'
<1>1. \A m : Remaining(m)' = Remaining(m) /\ Resting(o)' = Resting(o)
  BY SameRowsSameBook
<1>2. \A m, j : SpentBy(m, d, j)' <=> SpentBy(m, d, j)
  BY <1>1 DEF SpentBy
<1> QED
  BY <1>1, <1>2 DEF Clears, Meets

(* A step inside a pass that leaves rows and fills alone.                  *)
LEMMA StillClear ==
    ASSUME IInv, OneRequest, BookClear, NEW o \in Orders, place[o] \in Settling,
           orders' = orders, pass'.fills = pass.fills, pass'.filled = pass.filled,
           NEW pc \in Matching, place' = [place EXCEPT ![o] = pc], Due(pc)' = Due(place[o])
    PROVE  BookClear'
<1>1. TypeOK /\ RowsKept
  BY RowsUntouched DEF IInv
<1>2. place[o] \notin Ended /\ place[o] \in Matching
  BY DEF Settling, Ended, Matching
<1>3. /\ place'[o] = pc /\ \A x \in Orders : x # o => place'[x] = place[x]
      /\ \A x \in Orders : x # o => place[x] \in Ended
  BY <1>1, <1>2, PlaceTyped, OthersEnded DEF PlaceStates, InPass, Matching, Settling
<1>4. \A x \in Orders : Rests(x)' => Rests(x) /\ Remaining(x)' > 0
  BY <1>3, SameRests DEF Ended, Matching, Settling
<1>5. ASSUME orders[o].type = "LIMIT" PROVE Clears(o, Due(place[o]))'
  <2>1. PICK d : d = Due(place[o]) /\ Clears(o, d)
    BY <1>2, <1>5 DEF BookClear, PassClears
  <2>2. Clears(o, d)'
    BY <2>1, ClearsStays
  <2>3. Due(place[o])' = d
    BY <1>3, <2>1 DEF Due
  <2> QED
    BY <2>2, <2>3 DEF Clears, SpentBy
<1> QED
  BY <1>1, <1>3, <1>4, <1>5, BookMoves

(* Settlement, trade row and maker release write no order row.             *)
LEMMA FillStepBook ==
    ASSUME IInv, OneRequest, BookClear, NEW o \in Orders,
           SettleFill(o) \/ CreateTrade(o) \/ ReleaseMaker(o)
    PROVE  BookClear'
<1>1. TypeOK /\ pass.next \in Nat /\ orders' = orders
  BY PassFacts DEF IInv, SettleFill, CreateTrade, ReleaseMaker
<1>2. CASE SettleFill(o) \/ CreateTrade(o)
  <2>1. /\ place[o] \in {"settle", "trade"} /\ pass' = pass
        /\ \E pc \in {"trade", "maker"} : place' = [place EXCEPT ![o] = pc]
    BY <1>2 DEF SettleFill, CreateTrade, GoPlace
  <2>2. PICK pc \in {"trade", "maker"} : place' = [place EXCEPT ![o] = pc]
    BY <2>1
  <2>3. Due(pc)' = Due(place[o])
    BY <2>1 DEF Due
  <2> QED
    BY <1>1, <2>1, <2>2, <2>3, StillClear DEF Settling, Matching
<1>3. CASE ReleaseMaker(o)
  <2>1. place[o] = "makerRelease"
    BY <1>3 DEF ReleaseMaker
  <2>2. PICK pc \in {"settle", "finalize"} :
           /\ place' = [place EXCEPT ![o] = pc] /\ pass'.fills = pass.fills
           /\ pass'.next = pass.next + 1 /\ pass'.filled = pass.filled
    BY <1>1, <1>3, NextFill DEF ReleaseMaker
  <2>3. Due(pc)' = Due(place[o])
    BY <1>1, <2>1, <2>2 DEF Due
  <2> QED
    BY <1>1, <2>1, <2>2, <2>3, StillClear DEF Settling, Matching
<1> QED
  BY <1>2, <1>3

(* The row of the maker moves on with the pass.                            *)
LEMMA UpdateMakerBook ==
    ASSUME IInv, OneRequest, MakersLive, BookClear, NEW o \in Orders, UpdateMaker(o)
    PROVE  BookClear'
<1>1. TypeOK /\ place[o] = "maker"
  BY DEF IInv, UpdateMaker
<1>2. PICK w \in Orders :
         /\ w = CurrentFill.maker /\ w # o /\ RowsKept
         /\ \A x \in Orders : x # w => orders'[x] = orders[x]
         /\ orders'[w].filled = orders[w].filled + CurrentFill.quantity
         /\ orders'[w].status
               = IF orders[w].quantity - (orders[w].filled + CurrentFill.quantity) <= 0
                 THEN "FILLED" ELSE "PARTIALLY_FILLED"
  BY UpdateMakerRows
<1>3. PICK n \in Nat \ {0} : n = pass.next
  BY <1>1, PassFacts
<1>4. PICK fs, c : fs = pass.fills /\ c = Len(fs)
  OBVIOUS
<1>5. /\ n \in DOMAIN fs /\ DOMAIN fs = 1..c /\ c \in Nat /\ fs[n].maker = w
      /\ fs[n].quantity \in Nat /\ fs[n] = CurrentFill
  BY <1>1, <1>2, <1>3, <1>4, CurrentFacts, PassFacts DEF CurrentFill
<1>6. /\ MakersOnce /\ MakersDue(n) /\ place[o] \notin Ended /\ place[o] \in Matching
      /\ Due(place[o]) = n
  BY <1>1, <1>3 DEF Settling, Due, MakersLive, Ended, Matching
<1>7. PICK pc \in {"settle", "finalize", "makerRelease"} :
         /\ place' = [place EXCEPT ![o] = pc] /\ pass'.fills = fs
         /\ pass'.filled = pass.filled /\ Due(pc)' = n + 1
  <2>1. CASE GoPlace(o, "makerRelease") /\ UNCHANGED pass
    BY <2>1, <1>3, <1>4 DEF GoPlace, Due
  <2>2. CASE AfterFill(o, pass.next + 1)
    <3>1. PICK pc \in {"settle", "finalize"} :
              /\ place' = [place EXCEPT ![o] = pc] /\ pass'.fills = fs
              /\ pass'.next = n + 1 /\ pass'.filled = pass.filled
      BY <2>2, <1>1, <1>3, <1>4, NextFill
    <3>2. Due(pc)' = n + 1
      BY <3>1 DEF Due
    <3> QED
      BY <3>1, <3>2
  <2> QED
    BY <2>1, <2>2 DEF UpdateMaker
<1>8. /\ place'[o] = pc /\ \A x \in Orders : x # o => place'[x] = place[x]
      /\ \A x \in Orders : x # o => place[x] \in Ended
  BY <1>1, <1>6, <1>7, PlaceTyped, OthersEnded DEF PlaceStates, InPass
<1>9. /\ orders[w].quantity \in Nat /\ orders[w].filled \in Nat
      /\ orders'[w].quantity = orders[w].quantity /\ orders[w].status \in Open
  <2>1. orders[w].status \in Open
    BY <1>4, <1>5, <1>6 DEF MakersDue
  <2> QED
    BY <1>1, <1>2, <2>1, TypeParts, RowsTyped DEF RowsKept, SameTerms
<1>10. /\ Remaining(w)' = Remaining(w) - fs[n].quantity /\ Remaining(w) \in Int
       /\ \A x \in Orders : x # w => Remaining(x)' = Remaining(x)
  BY <1>2, <1>5, <1>9 DEF Remaining
<1>11. ASSUME NEW x \in Orders, Rests(x)' PROVE Rests(x) /\ Remaining(x)' > 0
  <2>1. x # o
    BY <1>8, <1>11 DEF Rests, Ended
  <2>2. CASE x = w
    <3>1. Rests(x)
      BY <2>1, <2>2, <1>8, <1>9 DEF Rests
    <3>2. orders'[w].status = "PARTIALLY_FILLED"
      BY <2>2, <1>2, <1>11 DEF Rests, Open
    <3>3. ~(orders[w].quantity - (orders[w].filled + fs[n].quantity) <= 0)
      BY <3>2, <1>2, <1>5
    <3>4. Remaining(w)' > 0
      BY <3>3, <1>2, <1>5, <1>9 DEF Remaining
    <3> QED
      BY <2>2, <3>1, <3>4
  <2>3. CASE x # w
    <3>1. Rests(x) /\ Remaining(x)' = Remaining(x)
      BY <2>1, <2>3, <1>2, <1>8, <1>10, <1>11 DEF Rests
    <3> QED
      BY <3>1 DEF BookClear, RestersLive
  <2> QED
    BY <2>2, <2>3
<1>12. ASSUME orders[o].type = "LIMIT" PROVE Clears(o, Due(place[o]))'
  <2>1. Clears(o, n)
    BY <1>6, <1>12 DEF BookClear, PassClears
  <2>2. SameTerms(o) /\ \A m \in Orders : SameTerms(m)
    BY <1>2 DEF RowsKept
  <2>3. CASE pass.filled >= orders[o].quantity
    BY <2>2, <2>3, <1>7 DEF Clears, SameTerms
  <2>4. CASE \A m \in Resting(o) : Meets(o, m) => SpentBy(m, n, c + 1)
    <3>1. ASSUME NEW m \in Resting(o)', Meets(o, m)'
          PROVE  SpentBy(m, n + 1, c + 1)'
      <4>1. /\ m \in Orders /\ orders'[m].status \in Open /\ orders'[m].side # orders'[o].side
            /\ orders'[m].user # orders'[o].user
        BY <1>2, <3>1 DEF Resting, RowsKept
      <4>2. orders[m].status \in Open
        BY <4>1, <1>2, <1>9
      <4>3. SameTerms(m)
        BY <2>2, <4>1
      <4>4. m \in Resting(o) /\ Meets(o, m)
        BY <2>2, <3>1, <4>1, <4>2, <4>3 DEF Resting, SameTerms, Meets
      <4>5. SpentBy(m, n, c + 1)
        BY <2>4, <4>4
      <4>6. CASE m # w
        <5>1. \A k \in n..((c + 1) - 1) : fs[k].maker = m => k \in (n + 1)..((c + 1) - 1)
          BY <4>6, <1>5
        <5> QED
          BY <4>1, <4>5, <4>6, <5>1, <1>4, <1>7, <1>10 DEF SpentBy
      <4>7. CASE m = w
        <5>1. CASE Remaining(m) <= 0
          <6>1. Remaining(m)' <= 0
            BY <4>7, <5>1, <1>5, <1>10
          <6> QED
            BY <6>1 DEF SpentBy
        <5>2. CASE \E k \in n..((c + 1) - 1) : fs[k].maker = m /\ fs[k].quantity = Remaining(m)
          <6>1. PICK k \in n..((c + 1) - 1) : fs[k].maker = m /\ fs[k].quantity = Remaining(m)
            BY <5>2
          <6>2. k \in DOMAIN fs
            BY <1>5
          <6>3. k = n
            BY <6>1, <6>2, <4>7, <1>4, <1>5, <1>6 DEF MakersOnce
          <6>4. Remaining(m)' <= 0
            BY <6>1, <6>3, <4>7, <1>10
          <6> QED
            BY <6>4 DEF SpentBy
        <5> QED
          BY <4>5, <5>1, <5>2, <1>4 DEF SpentBy
      <4> QED
        BY <4>6, <4>7
    <3>2. Clears(o, n + 1)'
      BY <3>1, <1>4, <1>7 DEF Clears
    <3>3. Due(place[o])' = n + 1
      BY <1>7, <1>8 DEF Due
    <3> QED
      BY <3>2, <3>3 DEF Clears, SpentBy
  <2> QED
    BY <2>1, <2>3, <2>4, <1>4 DEF Clears
<1> QED
  BY <1>2, <1>8, <1>11, <1>12, BookMoves

(* The order itself comes to rest in a book that it does not cross.        *)
LEMMA FinalizeTakerBook ==
    ASSUME IInv, OneRequest, PassAdds, BookClear, NEW o \in Orders, FinalizeTaker(o)
    PROVE  BookClear'
<1>1. TypeOK /\ place[o] = "finalize" /\ place[o] \notin Ended /\ place[o] \in Matching
  BY DEF IInv, FinalizeTaker, Ended, Matching
<1>2. /\ RowsKept /\ \A x \in Orders : x # o => orders'[x] = orders[x]
      /\ orders'[o].filled = pass.filled /\ orders'[o].status = TakerStatus(o)
  BY FinalizeTakerRows
<1>3. PICK pc \in {"takerRelease", "done"} : place' = [place EXCEPT ![o] = pc]
  BY DEF FinalizeTaker, GoPlace
<1>4. /\ place'[o] = pc /\ \A x \in Orders : x # o => place'[x] = place[x]
      /\ \A x \in Orders : x # o => place[x] \in Ended
  BY <1>1, <1>3, PlaceTyped, OthersEnded DEF PlaceStates, InPass
<1>5. /\ orders[o].quantity \in Nat /\ orders[o].type \in {"LIMIT", "MARKET"}
      /\ orders[o].price \in Nat /\ orders[o].side \in {"BUY", "SELL"}
      /\ pass.filled \in Nat /\ SameTerms(o) /\ \A x \in Orders : SameTerms(x)
  BY <1>1, <1>2, TypeParts, RowsTyped, PassFacts DEF RowsKept
<1>6. \A x \in Orders : x # o =>
         /\ Rests(x)' <=> Rests(x)
         /\ Remaining(x)' = Remaining(x)
  BY <1>2, <1>4 DEF Rests, Remaining
<1>7. ASSUME Rests(o)'
      PROVE  orders[o].type = "LIMIT" /\ pass.filled < orders[o].quantity
  <2>1. TakerStatus(o) \in Open
    BY <1>2, <1>7 DEF Rests
  <2> QED
    BY <2>1, <1>5 DEF TakerStatus, Open
<1>8. Rests(o)' => Remaining(o)' > 0
  BY <1>2, <1>5, <1>7 DEF Remaining, SameTerms
<1>9. RestersLive'
  <2> SUFFICES ASSUME NEW x \in Orders, Rests(x)'
               PROVE  orders'[x].type = "LIMIT" /\ Remaining(x)' > 0
    BY <1>2 DEF RestersLive, RowsKept
  <2>1. CASE x = o
    BY <2>1, <1>5, <1>7, <1>8 DEF SameTerms
  <2>2. CASE x # o
    BY <2>2, <1>5, <1>6 DEF BookClear, RestersLive, SameTerms
  <2> QED
    BY <2>1, <2>2
<1>10. ASSUME Rests(o)', NEW m \in Orders, m # o, Rests(m),
              orders[m].side # orders[o].side, orders[m].user # orders[o].user
       PROVE  ~Meets(o, m)
  <2> SUFFICES ASSUME Meets(o, m) PROVE FALSE
    OBVIOUS
  <2>1. PICK c : c = Len(pass.fills) /\ c \in Nat /\ pass.next = c + 1
    BY <1>1, PassFacts DEF PassAdds
  <2>2. Clears(o, c + 1)
    BY <1>1, <1>7, <1>10, <2>1 DEF BookClear, PassClears, Due
  <2>3. m \in Resting(o)
    BY <1>10 DEF Rests, Resting
  <2>4. SpentBy(m, c + 1, c + 1)
    BY <1>5, <1>7, <1>10, <2>1, <2>2, <2>3 DEF Clears
  <2>5. (c + 1)..((c + 1) - 1) = {}
    BY <2>1
  <2>6. Remaining(m) <= 0
    BY <2>4, <2>5 DEF SpentBy
  <2>7. Remaining(m) > 0
    BY <1>10 DEF BookClear, RestersLive
  <2>8. orders[m].quantity \in Nat /\ orders[m].filled \in Nat
    BY <1>1, TypeParts, RowsTyped
  <2> QED
    BY <2>6, <2>7, <2>8 DEF Remaining
<1>11. Uncrossed'
  <2> SUFFICES ASSUME NEW b \in Orders, NEW s \in Orders, Rests(b)', Rests(s)',
                      orders[b].side = "BUY", orders[s].side = "SELL",
                      orders[b].user # orders[s].user
               PROVE  orders[b].price < orders[s].price
    BY <1>2, <1>5 DEF Uncrossed, RowsKept, SameTerms
  <2>1. orders[b].price \in Nat /\ orders[s].price \in Nat /\ b # s
    BY <1>1, TypeParts, RowsTyped
  <2>2. CASE b # o /\ s # o
    BY <2>2, <1>6 DEF BookClear, Uncrossed
  <2>3. CASE b = o
    <3>1. ~Meets(o, s)
      BY <2>1, <2>3, <1>6, <1>10
    <3> QED
      BY <2>1, <2>3, <3>1 DEF Meets, crosses
  <2>4. CASE s = o
    <3>1. ~Meets(o, b)
      BY <2>1, <2>4, <1>6, <1>10
    <3> QED
      BY <2>1, <2>4, <3>1 DEF Meets, crosses
  <2> QED
    BY <2>2, <2>3, <2>4
<1>12. PassClears'
  <2>1. \A x \in Orders' : place'[x] \notin Matching
    BY <1>2, <1>4 DEF RowsKept, Ended, Matching, Settling
  <2> QED
    BY <2>1 DEF PassClears
<1> QED
  BY <1>9, <1>11, <1>12 DEF BookClear

(* The taker release ends the request of an order already closed.          *)
LEMMA ReleaseTakerBook ==
    ASSUME IInv, OneRequest, Referenced, BookClear, NEW o \in Orders, ReleaseTaker(o)
    PROVE  BookClear'
<1>1. /\ TypeOK /\ place[o] = "takerRelease" /\ place[o] \notin Ended /\ orders' = orders
      /\ place' = [place EXCEPT ![o] = "done"]
  BY DEF IInv, ReleaseTaker, GoPlace, Ended
<1>2. /\ place'[o] = "done" /\ \A x \in Orders : x # o => place'[x] = place[x]
      /\ \A x \in Orders : x # o => place[x] \in Ended
  BY <1>1, PlaceTyped, OthersEnded DEF PlaceStates
<1>3. orders[o].status \notin Open
  <2>1. orders[o].status \in Terminal
    BY <1>1 DEF Referenced, Releasing
  <2> QED
    BY <2>1 DEF Open, Terminal
<1>4. \A x \in Orders : Rests(x)' => Rests(x) /\ Remaining(x)' > 0
  BY <1>1, <1>2, <1>3, SameRests
<1>5. RowsKept /\ \A x \in Orders : place'[x] \notin Matching
  BY <1>1, <1>2, RowsUntouched DEF Ended, Matching, Settling
<1> QED
  BY <1>4, <1>5, BookStays

(* Every step of a placeOrder request, none of which is refused.           *)
LEMMA PlaceStepBook ==
    ASSUME IInv, Sequential, WholeScan, Alone, InOrder, Accounted, BookClear,
           NEW o \in Orders, PlaceStep(o)
    PROVE  BookClear'
<1>1. OneRequest /\ MakersLive /\ Covered /\ PassAdds /\ Referenced
  BY DEF Alone, Accounted, Ledgered
<1>2. ~StepRefused(o)
  BY StepNotRefused
<1> QED
  BY <1>1, <1>2, OutsideBook, MatchOrderBook, FillStepBook, UpdateMakerBook,
     FinalizeTakerBook, ReleaseTakerBook DEF PlaceStep

(* A cancellation takes an order out of the book.                          *)
LEMMA CancelStepBook ==
    ASSUME IInv, OneRequest, BookClear, NEW o \in Orders, CancelStep(o)
    PROVE  BookClear'
<1>1. /\ TypeOK /\ Holds("cancel", o) /\ place' = place
      /\ orders' = orders \/ SetStatus(o, "CANCELLED")
  BY DEF IInv, CancelStep, CheckCancel, CancelOrder, ReleaseCancelled, CancelRefused,
     FailCancel
<1>2. \A x \in Orders : place'[x] \in Ended /\ place'[x] \notin Matching
  BY <1>1, CancelRunsAlone DEF Ended, Matching, Settling
<1>3. CASE orders' = orders
  <2>1. \A x \in Orders : Rests(x)' => Rests(x) /\ Remaining(x)' > 0
    BY <1>1, <1>3, SameRests
  <2> QED
    BY <1>1, <1>2, <1>3, <2>1, RowsUntouched, BookStays
<1>4. CASE SetStatus(o, "CANCELLED")
  <2>1. /\ RowsKept /\ orders'[o].status = "CANCELLED"
        /\ \A x \in Orders : x # o => orders'[x] = orders[x]
    <3>1. "CANCELLED" \in Statuses
      BY DEF Statuses, Terminal
    <3> QED
      BY <1>1, <1>4, <3>1, StatusChange
  <2>2. ASSUME NEW x \in Orders, Rests(x)' PROVE Rests(x) /\ Remaining(x)' > 0
    <3>1. x # o
      BY <2>1, <2>2 DEF Rests, Open
    <3>2. Rests(x) /\ Remaining(x)' = Remaining(x)
      BY <1>1, <2>1, <2>2, <3>1 DEF Rests, Remaining
    <3> QED
      BY <3>2 DEF BookClear, RestersLive
  <2> QED
    BY <1>2, <2>1, <2>2, BookStays
<1> QED
  BY <1>1, <1>3, <1>4

(* A new order is in nobody's book before its request has ended.           *)
LEMMA PlaceOrderBook ==
    ASSUME IInv, BookClear, MaxInFlight = 1, NEW input \in OrderInputs, PlaceOrder(input)
    PROVE  BookClear'
<1>1. TypeOK /\ InFlight < MaxInFlight
  BY DEF IInv, PlaceOrder
<1>2. \A x \in Orders : place[x] \in Ended
  BY <1>1, NoneUnderWay
<1>3. PICK n, e : n \in Nat /\ n = Len(orders) /\ e = n + 1
  BY <1>1, TypeParts
<1>4. /\ Orders = 1..n /\ Orders' = 1..e
      /\ \A x \in Orders : orders'[x] = orders[x] /\ place'[x] = place[x]
      /\ place'[e] = "lock"
  BY <1>1, <1>3, NewOrder
<1>5. \A x \in Orders' : place'[x] \in Ended => x \in Orders
  BY <1>3, <1>4 DEF Ended
<1>6. \A x \in Orders' : Rests(x)' =>
         /\ x \in Orders /\ Rests(x) /\ orders'[x] = orders[x]
         /\ Remaining(x)' = Remaining(x)
  BY <1>4, <1>5 DEF Rests, Remaining
<1>7. RestersLive'
  BY <1>6 DEF BookClear, RestersLive
<1>8. Uncrossed'
  BY <1>6 DEF BookClear, Uncrossed
<1>9. PassClears'
  <2>1. \A x \in Orders' : place'[x] \notin Matching
    BY <1>2, <1>3, <1>4 DEF Ended, Matching, Settling
  <2> QED
    BY <2>1 DEF PassClears
<1> QED
  BY <1>7, <1>8, <1>9 DEF BookClear

(* Every step of the specification.                                        *)
LEMMA NextBook ==
    ASSUME IInv, Sequential, WholeScan, Alone, InOrder, Accounted, BookClear, [Next]_vars
    PROVE  BookClear'
<1>1. TypeOK /\ OneRequest /\ MaxInFlight = 1
  BY DEF IInv, Alone, Sequential
<1>2. \A o \in Orders : ~PlaceError(o) /\ ~CancelError(o)
  BY TypeParts DEF IInv, Sequential, PlaceError, CancelError
<1>3. ~Crash
  BY TypeParts DEF IInv, Sequential, Crash
<1>4. ASSUME NEW o \in Orders, RequestCancel(o) PROVE BookClear'
  <2>1. /\ InFlight < MaxInFlight /\ place' = place /\ orders' = orders
    BY <1>4 DEF RequestCancel
  <2>2. \A x \in Orders : place'[x] \notin Matching
    BY <1>1, <2>1, NoneUnderWay DEF Ended, Matching, Settling
  <2>3. \A x \in Orders : Rests(x)' => Rests(x) /\ Remaining(x)' > 0
    BY <2>1, SameRests
  <2> QED
    BY <1>1, <2>1, <2>2, <2>3, RowsUntouched, BookStays
<1>5. CASE UNCHANGED vars
  <2>1. orders' = orders /\ place' = place /\ pass' = pass /\ Orders' = Orders
    BY <1>5 DEF vars, Orders
  <2>2. \A x, d : Clears(x, d)' <=> Clears(x, d)
    BY <2>1, SameRowsSameBook DEF Clears, Meets, SpentBy
  <2> QED
    BY <2>1, <2>2, SameRowsSameBook DEF BookClear, RestersLive, Uncrossed, PassClears,
       Rests, Due
<1> QED
  BY <1>1, <1>2, <1>3, <1>4, <1>5, PlaceOrderBook, PlaceStepBook, CancelStepBook
     DEF Next, Idle

(* Between requests no two orders of different users in the book cross,    *)
(* and only LIMIT orders rest there, as long as no book is longer than the *)
(* BOOK_SCAN_LIMIT rows that loadRestingBook reads: a pass of              *)
(* matchAndSettle ends with its order done or with all that the order      *)
(* crossed used up, and only then does the rest of it join the book.       *)
THEOREM UncrossedWithinScan ==
    ASSUME Sequential
    PROVE  Spec /\ []WholeScan => []BookIsUncrossed
<1>1. Init => BookClear
  <2>1. Init => Orders = {}
    BY DEF Init, Orders
  <2> QED
    BY <2>1 DEF BookClear, RestersLive, Uncrossed, PassClears
<1>2. IInv /\ WholeScan /\ Alone /\ InOrder /\ Accounted /\ BookClear /\ [Next]_vars
      => BookClear'
  BY NextBook
<1>3. IInv /\ BookClear => BookIsUncrossed
  <2> SUFFICES ASSUME IInv, BookClear, AtRest PROVE BookIsUncrossed
    BY DEF BookIsUncrossed
  <2>1. \A x \in Orders : place[x] \in Ended
    BY NoneUnderWay DEF IInv, AtRest, Sequential
  <2>2. \A x \in Orders : orders[x].status \in Open => Rests(x)
    BY <2>1 DEF Rests
  <2> QED
    BY <2>2 DEF BookIsUncrossed, BookClear, RestersLive, Uncrossed
<1>4. Spec /\ []WholeScan => []BookClear
  BY <1>1, <1>2, Inductive, AlwaysAccounted, PTL DEF Spec
<1> QED
  BY <1>3, <1>4, Inductive, PTL

(* The same when the limit is beyond the number of orders, as in a run of  *)
(* any size up to the 500 rows of the code.                                *)
THEOREM BookUncrossed ==
    ASSUME Sequential, BookScanLimit >= MaxOrders
    PROVE  Spec => []BookIsUncrossed
<1>1. IInv => WholeScan
  BY ShortBooks DEF IInv
<1> QED
  BY <1>1, Inductive, UncrossedWithinScan, PTL
=============================================================================
