-------------------------- MODULE TimingWheelProofs --------------------------
(***************************************************************************)
(* Theorems about the timers of a loop, for any number of timers, wheels of  *)
(* any sizes that divide each other, any delays and intervals that the day   *)
(* wheel takes, and any course of the clock.                                *)
(***************************************************************************)
EXTENDS LoopTimers, TLAPS

Wheels == {"second", "minute", "hour", "day"}
Cell == [wheel : Wheels, slot : Int, rest : Int, entry : Entries]

\* A cell is in a slot of its wheel.
Fits(c) ==
    /\ c \in Cell
    /\ c.slot \in 0 .. Slots[c.wheel] - 1
    /\ c.rest \in 0 .. Unit[c.wheel] - 1

\* The fields of such a cell.
LEMMA FitsIs ==
  ASSUME NEW c, Fits(c)
  PROVE  /\ c.wheel \in Wheels /\ c.entry \in Entries
         /\ c.slot \in Nat /\ c.rest \in Nat
BY DEF Fits, Cell

\* The delays that InsertEntry does not refuse.
Taken(d) == d \div kTimingDay <= DayWheel

-----------------------------------------------------------------------------
(* Division.                                                                *)

\* What \div and % are.
LEMMA DivMod ==
  ASSUME NEW k \in Nat, NEW m \in Nat \ {0}
  PROVE  k = m * (k \div m) + (k % m) /\ k % m \in 0 .. m - 1 /\ k \div m \in Nat
OBVIOUS

\* Quotient and remainder are unique.
LEMMA ModIs ==
  ASSUME NEW k \in Nat, NEW m \in Nat \ {0}, NEW q \in Nat, NEW r \in 0 .. m - 1,
         k = m * q + r
  PROVE  k \div m = q /\ k % m = r
<1>1. ASSUME NEW p \in Nat, NEW s \in 0 .. m - 1, m * q + r = m * p + s
      PROVE  q = p /\ r = s
  BY <1>1
<1> QED
  BY <1>1, DivMod

\* The remainder goes up by one, or back to 0.
LEMMA ModNext ==
  ASSUME NEW k \in Nat, NEW m \in Nat \ {0}
  PROVE  (k + 1) % m = IF (k % m) + 1 = m THEN 0 ELSE (k % m) + 1
<1> DEFINE q == k \div m
           r == k % m
<1>1. k = m * q + r /\ r \in 0 .. m - 1 /\ q \in Nat
  BY DivMod
<1>2. CASE r + 1 = m
  <2>1. k + 1 = m * (q + 1) + 0
    BY <1>1, <1>2
  <2> HIDE DEF q, r
  <2>2. (k + 1) % m = 0
    BY <2>1, <1>1, ModIs
  <2> QED
    BY <2>2, <1>2 DEF r
<1>3. CASE r + 1 # m
  <2>1. k + 1 = m * q + (r + 1) /\ r + 1 \in 0 .. m - 1
    BY <1>1, <1>3
  <2> HIDE DEF q, r
  <2>2. (k + 1) % m = r + 1
    BY <2>1, <1>1, ModIs
  <2> QED
    BY <2>2, <1>3 DEF r
<1> QED
  BY <1>2, <1>3

\* Divisibility is transitive.
LEMMA DividesTrans ==
  ASSUME NEW k \in Nat, NEW m \in Nat \ {0}, NEW h \in Nat \ {0}, h % m = 0, k % h = 0
  PROVE  k % m = 0
<1> DEFINE a == k \div h
           b == h \div m
           c == b * a
<1>1. k = h * a /\ a \in Nat /\ h = m * b /\ b \in Nat
  BY DivMod
<1> HIDE DEF a, b
<1>2. c \in Nat
  BY <1>1
<1>3. k = m * c + 0
  BY <1>1
<1> HIDE DEF c
<1> QED
  BY <1>2, <1>3, ModIs

\* What is below m * (h + 1) has a quotient by m of at most h.
LEMMA DivBound ==
  ASSUME NEW k \in Nat, NEW m \in Nat \ {0}, NEW h \in Nat, k <= m * (h + 1) - 1
  PROVE  k \div m <= h
<1>1. k <= m * h + m - 1
  OBVIOUS
<1> QED
  BY <1>1

\* Division keeps the order.
LEMMA DivMono ==
  ASSUME NEW k \in Nat, NEW h \in Nat, NEW m \in Nat \ {0}, k <= h
  PROVE  k \div m <= h \div m
OBVIOUS

\* A number below m, and one that is not.
LEMMA DivSmall ==
  ASSUME NEW k \in Nat, NEW m \in Nat \ {0}
  PROVE  /\ k < m => k \div m = 0 /\ k % m = k
         /\ k >= m => k \div m >= 1
OBVIOUS

-----------------------------------------------------------------------------
(* The wheels.                                                              *)

\* What the lemmas use of the constants.
LEMMA Constants ==
  /\ kTimingMinute \in Nat \ {0} /\ kTimingHour \in Nat \ {0} /\ kTimingDay \in Nat \ {0}
  /\ kTimingMinute < kTimingHour /\ kTimingHour < kTimingDay
  /\ DayWheel \in Nat \ {0} /\ Delays \subseteq Nat /\ Intervals \subseteq Nat \ {0}
  /\ \A p \in Intervals : Taken(p)
<1>1. ASSUME NEW p \in Intervals
      PROVE  p \in Nat \ {0} /\ Taken(p)
  <2>1. p \in Nat \ {0} /\ p <= kTimingDay * (DayWheel + 1) - 1
    BY WheelAssumption, DelayAssumption
  <2> QED
    BY <2>1, DivBound, WheelAssumption, DelayAssumption DEF Taken
<1> QED
  BY <1>1, WheelAssumption, DelayAssumption

\* Only the minute wheel ever moves with a tick: a multiple of an hour or of a day
\* is one of a minute.
LEMMA SlowWheelIs ==
  ASSUME NEW t \in Nat
  PROVE  SlowWheel(t) = IF t % kTimingMinute = 0 THEN "minute" ELSE "none"
<1>1. kTimingDay % kTimingMinute = 0
  BY DividesTrans, WheelAssumption
<1>2. t % kTimingHour = 0 => t % kTimingMinute = 0
  BY DividesTrans, WheelAssumption
<1>3. t % kTimingDay = 0 => t % kTimingMinute = 0
  BY <1>1, DividesTrans, WheelAssumption
<1> QED
  BY <1>2, <1>3 DEF SlowWheel

\* A delay has one slot, in its wheel, unless it is 0 or refused.
LEMMA PlaceIs ==
  ASSUME NEW e \in Entries, NEW d \in Nat
  PROVE  /\ \A c \in Place(e, d) : Fits(c) /\ c.entry = e
         /\ d # 0 /\ Taken(d) => Place(e, d) # {}
         /\ \A c \in Place(e, d) :
              /\ c.wheel = "second" => c.slot = d - 1
              /\ c.wheel = "minute" => c.slot * kTimingMinute + c.rest = d - kTimingMinute
              /\ d < kTimingMinute => c.wheel = "second"
         /\ d = 0 => Place(e, d) = {}
<1> DEFINE w == WheelOf(d)
           cell == [wheel |-> w, slot |-> (d \div Unit[w]) - 1, rest |-> d % Unit[w], entry |-> e]
<1>1. w \in Wheels /\ Unit[w] \in Nat \ {0} /\ d >= (IF w = "second" THEN 0 ELSE Unit[w])
  BY Constants DEF WheelOf, Wheels, Unit
<1>2. /\ d % Unit[w] \in 0 .. Unit[w] - 1
      /\ d \div Unit[w] \in Nat
      /\ d = Unit[w] * (d \div Unit[w]) + (d % Unit[w])
  BY <1>1, DivMod
<1>3. d # 0 => d \div Unit[w] >= 1
  <2>1. CASE w = "second"
    BY <2>1, <1>2 DEF Unit
  <2>2. CASE w # "second"
    BY <2>2, <1>1, DivSmall
  <2> QED
    BY <2>1, <2>2
<1>4. ASSUME Taken(d)
      PROVE  (d \div Unit[w]) - 1 <= Slots[w] - 1
  <2>1. CASE w = "second"
    <3>1. d < kTimingMinute
      BY <2>1 DEF WheelOf
    <3> QED
      BY <2>1, <3>1, <1>2, Constants DEF Unit, Slots
  <2>2. CASE w = "minute"
    <3>1. d <= kTimingHour
      BY <2>2, Constants DEF WheelOf
    <3>2. Unit[w] = kTimingMinute /\ Slots[w] = kTimingHour \div kTimingMinute
      BY <2>2 DEF Unit, Slots
    <3>3. d \div kTimingMinute <= kTimingHour \div kTimingMinute
      BY <3>1, DivMono, Constants
    <3>4. d \div kTimingMinute \in Nat /\ kTimingHour \div kTimingMinute \in Nat
      BY DivMod, Constants
    <3> QED
      BY <3>2, <3>3, <3>4
  <2>3. CASE w = "hour"
    <3>1. d <= kTimingDay
      BY <2>3, Constants DEF WheelOf
    <3>2. Unit[w] = kTimingHour /\ Slots[w] = kTimingDay \div kTimingHour
      BY <2>3 DEF Unit, Slots
    <3>3. d \div kTimingHour <= kTimingDay \div kTimingHour
      BY <3>1, DivMono, Constants
    <3>4. d \div kTimingHour \in Nat /\ kTimingDay \div kTimingHour \in Nat
      BY DivMod, Constants
    <3> QED
      BY <3>2, <3>3, <3>4
  <2>4. CASE w = "day"
    BY <2>4, <1>4, <1>2, Constants DEF Unit, Slots, Taken
  <2> QED
    BY <1>1, <2>1, <2>2, <2>3, <2>4 DEF Wheels
<1>5. d = 0 \/ ~Taken(d) => Place(e, d) = {}
  BY Constants, <1>2 DEF Place, Taken
<1>6. ASSUME d # 0, Taken(d)
      PROVE  /\ Place(e, d) = {cell} /\ Fits(cell) /\ cell.entry = e
             /\ cell.wheel = "second" => cell.slot = d - 1
             /\ cell.wheel = "minute" => cell.slot * kTimingMinute + cell.rest = d - kTimingMinute
             /\ d < kTimingMinute => cell.wheel = "second"
  <2>1. Place(e, d) = {cell}
    BY <1>6, Constants, DivMod DEF Place, Taken
  <2>2. Slots[w] \in Int
    BY <1>1, Constants, DivMod, SMTT(30) DEF Slots, Wheels
  <2>3. Fits(cell)
    BY <1>1, <1>2, <1>3, <1>4, <1>6, <2>2 DEF Fits, Cell
  <2>4. w = "second" => (d \div Unit[w]) - 1 = d - 1
    BY <1>2 DEF Unit
  <2>5. w = "minute" => ((d \div Unit[w]) - 1) * kTimingMinute + (d % Unit[w]) = d - kTimingMinute
    <3> SUFFICES ASSUME w = "minute"
                 PROVE  ((d \div Unit[w]) - 1) * kTimingMinute + (d % Unit[w]) = d - kTimingMinute
      OBVIOUS
    <3>1. Unit[w] = kTimingMinute
      BY DEF Unit
    <3> DEFINE q == d \div kTimingMinute
               r == d % kTimingMinute
    <3>4. kTimingMinute \in Nat \ {0}
      BY Constants
    <3>5. d = kTimingMinute * q + r /\ q \in Nat /\ r \in 0 .. kTimingMinute - 1
      BY <3>4, DivMod, Zenon
    <3>2. d = kTimingMinute * q + r /\ q \in Nat /\ r \in Nat
      BY <3>4, <3>5
    <3> HIDE DEF q, r
    <3>3. (q - 1) * kTimingMinute + r = d - kTimingMinute
      BY <3>2, Constants
    <3> QED
      BY <3>1, <3>3 DEF q, r
  <2>6. d < kTimingMinute => w = "second"
    BY DEF WheelOf
  <2> QED
    BY <2>1, <2>3, <2>4, <2>5, <2>6
<1> QED
  BY <1>5, <1>6

-----------------------------------------------------------------------------
(* A tick, in its two halves.                                               *)

Moved(x, w) == IF x.wheel = w THEN [x EXCEPT !.slot = @ - 1] ELSE x

\* A cell that is not dropped moves to the slot before it, if its wheel moves.
LEMMA MovedIs ==
  ASSUME NEW x, Fits(x), NEW w, ~(x.wheel = w /\ x.slot = 0)
  PROVE  /\ Fits(Moved(x, w))
         /\ Moved(x, w).wheel = x.wheel /\ Moved(x, w).entry = x.entry
         /\ Moved(x, w).rest = x.rest
         /\ Moved(x, w).slot = IF x.wheel = w THEN x.slot - 1 ELSE x.slot
<1>1. CASE x.wheel # w
  BY <1>1 DEF Moved
<1>2. CASE x.wheel = w
  <2> DEFINE y == [x EXCEPT !.slot = @ - 1]
  <2>1. Moved(x, w) = y
    BY <1>2 DEF Moved
  <2>2. x \in Cell /\ x.slot \in 0 .. Slots[x.wheel] - 1 /\ x.slot # 0
    BY <1>2 DEF Fits
  <2>3. /\ y \in Cell /\ y.wheel = x.wheel /\ y.entry = x.entry /\ y.rest = x.rest
        /\ y.slot = x.slot - 1
    BY <2>2 DEF Cell
  <2>4. Slots[x.wheel] \in Int
    BY <2>2, Constants, DivMod, SMTT(30) DEF Slots, Cell, Wheels
  <2>5. Fits(y)
    <3> HIDE DEF y
    <3> QED
      BY <2>2, <2>3, <2>4 DEF Fits
  <2> QED
    BY <1>2, <2>1, <2>3, <2>5
<1> QED
  BY <1>1, <1>2

\* PopUp is the cells that are not at the front, moved.
LEMMA PopUpIs ==
  ASSUME NEW cs, NEW w
  PROVE  PopUp(cs, w) = {Moved(x, w) : x \in {y \in cs : ~(y.wheel = w /\ y.slot = 0)}}
BY DEF PopUp, Front, Moved

\* The names that Tick gives to its parts.
T == tick + 1
Second == PopUp(cells, "second")
Ran1 == Entered(Front(cells, "second")) \ Entered(Second)
Cells1 == Second \cup Rearm(Ran1)
Due1 == [e \in Entries |-> IF e \in Ran1 /\ again[e] > 0 THEN T + again[e] ELSE deadline[e]]
Gone == Front(Cells1, SlowWheel(T))
Cells2 == PopUp(Cells1, SlowWheel(T)) \cup Cascade(Gone)
Ran2 == Entered(Gone) \ Entered(Cells2)

\* Tick in those names.
LEMMA TickIs ==
  ASSUME Tick
  PROVE  /\ tick' = T
         /\ cells' = Cells2 \cup Rearm(Ran2)
         /\ deadline' = [e \in Entries |-> IF e \in Ran2 /\ again[e] > 0
                                             THEN T + again[e] ELSE Due1[e]]
         /\ fired' = {[entry |-> e, due |-> deadline[e]] : e \in Ran1}
                       \cup {[entry |-> e, due |-> Due1[e]] : e \in Ran2}
         /\ halted' \in BOOLEAN
BY DEF Tick, T, Second, Ran1, Cells1, Due1, Gone, Cells2, Ran2

TypeInv ==
    /\ last_ts \in Int
    /\ clock \in Bits16
    /\ tick \in Nat
    /\ \A c \in cells : Fits(c)
    /\ again \in [Entries -> {0} \cup Intervals]
    /\ deadline \in [Entries -> Nat]
    /\ \A f \in fired : f.entry \in Entries /\ f.due \in Nat
    /\ halted \in BOOLEAN

\* A cell of Rearm is a cell that Place gives for the interval of its entry.
LEMMA RearmIs ==
  ASSUME TypeInv, NEW es \in SUBSET Entries
  PROVE  /\ \A c \in Rearm(es) : /\ c.entry \in es /\ again[c.entry] > 0
                                 /\ c \in Place(c.entry, again[c.entry])
                                 /\ again[c.entry] \in Intervals /\ Fits(c)
         /\ \A e \in es : again[e] > 0 => \E c \in Rearm(es) : c.entry = e
<1>1. ASSUME NEW c \in Rearm(es)
      PROVE  /\ c.entry \in es /\ again[c.entry] > 0
             /\ c \in Place(c.entry, again[c.entry])
             /\ again[c.entry] \in Intervals /\ Fits(c)
  <2>1. PICK e \in es : again[e] > 0 /\ c \in Place(e, again[e])
    BY <1>1 DEF Rearm
  <2>4. e \in Entries /\ again \in [Entries -> {0} \cup Intervals] /\ Intervals \subseteq Nat \ {0}
    BY Constants DEF TypeInv
  <2>5. again[e] \in {0} \cup Intervals
    BY <2>4
  <2>6. again[e] # 0
    BY <2>1
  <2>2. again[e] \in Intervals /\ again[e] \in Nat
    BY <2>4, <2>5, <2>6
  <2>3. c.entry = e /\ Fits(c)
    BY <2>1, <2>2, PlaceIs
  <2> QED
    BY <2>1, <2>2, <2>3
<1>2. ASSUME NEW e \in es, again[e] > 0
      PROVE  \E c \in Rearm(es) : c.entry = e
  <2>3. e \in Entries /\ again \in [Entries -> {0} \cup Intervals] /\ Intervals \subseteq Nat \ {0}
    BY Constants DEF TypeInv
  <2>4. again[e] \in Intervals
    BY <1>2, <2>3
  <2>1. again[e] \in Intervals /\ again[e] \in Nat \ {0} /\ Taken(again[e])
    BY <2>3, <2>4, Constants
  <2>2. PICK c \in Place(e, again[e]) : c.entry = e
    BY <2>1, PlaceIs
  <2> QED
    BY <1>2, <2>2 DEF Rearm
<1> QED
  BY <1>1, <1>2

\* A cell after the second wheel has moved was there before, or is a timer's own anew.
LEMMA Cells1Is ==
  ASSUME TypeInv
  PROVE  /\ \A c \in Second : /\ Fits(c)
                              /\ \E x \in cells : c = Moved(x, "second") /\ c.entry = x.entry
                                                  /\ ~(x.wheel = "second" /\ x.slot = 0)
         /\ \A x \in cells : \/ x.wheel = "second" /\ x.slot = 0
                             \/ Moved(x, "second") \in Second
         /\ Ran1 \in SUBSET Entries
         /\ \A c \in Cells1 : Fits(c)
         /\ \A x \in cells : x.entry \in Ran1 \/ \E c \in Second : c.entry = x.entry
<1>1. \A c \in Second : /\ Fits(c)
                        /\ \E x \in cells : c = Moved(x, "second") /\ c.entry = x.entry
                                            /\ ~(x.wheel = "second" /\ x.slot = 0)
  <2> SUFFICES ASSUME NEW c \in Second
               PROVE  /\ Fits(c)
                      /\ \E x \in cells : c = Moved(x, "second") /\ c.entry = x.entry
                                          /\ ~(x.wheel = "second" /\ x.slot = 0)
    OBVIOUS
  <2>1. PICK x \in cells : c = Moved(x, "second") /\ ~(x.wheel = "second" /\ x.slot = 0)
    BY PopUpIs DEF Second
  <2>2. Fits(x)
    BY DEF TypeInv
  <2> QED
    BY <2>1, <2>2, MovedIs
<1>2. \A x \in cells : (x.wheel = "second" /\ x.slot = 0) \/ Moved(x, "second") \in Second
  BY PopUpIs DEF Second
<1>3. Ran1 \in SUBSET Entries
  <2>1. \A c \in cells : c.entry \in Entries
    BY FitsIs DEF TypeInv
  <2> QED
    BY <2>1 DEF Ran1, Entered, Front
<1>4. \A c \in Cells1 : Fits(c)
  BY <1>1, <1>3, RearmIs DEF Cells1
<1>5. ASSUME NEW x \in cells
      PROVE  x.entry \in Ran1 \/ \E c \in Second : c.entry = x.entry
  <2>1. CASE x.wheel = "second" /\ x.slot = 0
    BY <2>1 DEF Ran1, Entered, Front
  <2>2. CASE ~(x.wheel = "second" /\ x.slot = 0)
    <3>1. Fits(x) /\ Moved(x, "second") \in Second
      BY <2>2, <1>2 DEF TypeInv
    <3> QED
      BY <2>2, <3>1, MovedIs
  <2> QED
    BY <2>1, <2>2
<1> QED
  BY <1>1, <1>2, <1>3, <1>4, <1>5

\* A cell after the slow wheel has moved is one of before, or the rest of a cascade.
LEMMA Cells2Is ==
  ASSUME TypeInv
  PROVE  /\ \A c \in Cells2 : Fits(c) /\ \E x \in Cells1 : c.entry = x.entry
         /\ Ran2 \in SUBSET Entries
         /\ \A x \in Cells1 : x.entry \in Ran2 \/ \E c \in Cells2 : c.entry = x.entry
<1>1. ASSUME NEW c \in Cells2
      PROVE  Fits(c) /\ \E x \in Cells1 : c.entry = x.entry
  <2>1. CASE c \in PopUp(Cells1, SlowWheel(T))
    BY <2>1, PopUpIs, MovedIs, Cells1Is
  <2>2. CASE c \in Cascade(Gone)
    <3>1. PICK x \in Gone : c \in Place(x.entry, x.rest)
      BY <2>2 DEF Cascade
    <3>2. x \in Cells1 /\ Fits(x)
      BY <3>1, Cells1Is DEF Gone, Front
    <3>3. x.entry \in Entries /\ x.rest \in Nat
      BY <3>2, Constants DEF Fits, Cell
    <3> QED
      BY <3>1, <3>2, <3>3, PlaceIs
  <2> QED
    BY <2>1, <2>2 DEF Cells2
<1>2. Ran2 \in SUBSET Entries
  BY Cells1Is DEF Ran2, Gone, Entered, Front, Fits, Cell
<1>3. ASSUME NEW x \in Cells1
      PROVE  x.entry \in Ran2 \/ \E c \in Cells2 : c.entry = x.entry
  <2>1. CASE x \in Gone
    BY <2>1 DEF Ran2, Entered
  <2>2. CASE x \notin Gone
    <3>1. ~(x.wheel = SlowWheel(T) /\ x.slot = 0)
      BY <2>2 DEF Gone, Front
    <3>2. Moved(x, SlowWheel(T)) \in Cells2
      BY <3>1, PopUpIs DEF Cells2
    <3> QED
      BY <3>1, <3>2, MovedIs, Cells1Is
  <2> QED
    BY <2>1, <2>2
<1> QED
  BY <1>1, <1>2, <1>3

-----------------------------------------------------------------------------
(* Types, and timers that stay.                                             *)

\* What InsertEntry does to the wheels, whoever calls it.
LEMMA InsertIs ==
  ASSUME TypeInv, NEW e \in Entries, NEW d \in Nat, InsertEntry(e, d)
  PROVE  /\ \A c \in cells' : Fits(c)
         /\ cells \subseteq cells'
         /\ \A c \in cells' : c.entry # e => c \in cells
         /\ deadline' \in [Entries -> Nat]
         /\ \A f \in fired' : f.entry = e /\ f.due = tick + d /\ ~Holds(cells', e)
         /\ halted' \in BOOLEAN
<1>1. \A c \in Place(e, d) : Fits(c) /\ c.entry = e
  BY PlaceIs
<1>2. cells' = cells \cup Place(e, d) /\ halted' \in BOOLEAN
  BY DEF InsertEntry
<1>3. \A f \in fired' : f.entry = e /\ f.due = tick + d /\ ~Holds(cells', e)
  BY DEF InsertEntry, Entered, Holds
<1>4. deadline' \in [Entries -> Nat]
  <2>1. (IF Armed(e) THEN Later(deadline[e], tick + d) ELSE tick + d) \in Nat
    BY DEF TypeInv, Later
  <2>2. deadline' = [deadline EXCEPT ![e] = IF Armed(e) THEN Later(deadline[e], tick + d)
                                                        ELSE tick + d]
    BY DEF InsertEntry
  <2> HIDE DEF InsertEntry
  <2> QED
    BY <2>1, <2>2 DEF TypeInv
<1>5. \A c \in cells' : Fits(c)
  <2>1. \A c \in cells : Fits(c)
    BY DEF TypeInv
  <2> QED
    BY <1>1, <1>2, <2>1, Zenon
<1>6. cells \subseteq cells' /\ \A c \in cells' : c.entry # e => c \in cells
  BY <1>1, <1>2
<1> QED
  BY <1>2, <1>3, <1>4, <1>5, <1>6, Zenon

\* A call of RunAfter, RunEvery or ExtendLife keeps the types.
LEMMA CallTypes ==
  ASSUME TypeInv, NEW e \in Entries, NEW d \in Nat, InsertEntry(e, d),
         again' \in [Entries -> {0} \cup Intervals], UNCHANGED <<last_ts, tick, clock>>
  PROVE  TypeInv'
<1>1. tick + d \in Nat
  BY DEF TypeInv
<1>2. \A f \in fired' : f.entry \in Entries /\ f.due \in Nat
  BY <1>1, InsertIs, Zenon
<1>3. /\ \A c \in cells' : Fits(c)
      /\ deadline' \in [Entries -> Nat] /\ halted' \in BOOLEAN
  BY InsertIs, Zenon
<1> QED
  BY <1>2, <1>3, Zenon DEF TypeInv

\* A tick keeps the types.
LEMMA TickTypes ==
  ASSUME TypeInv, Tick
  PROVE  /\ \A c \in cells' : Fits(c)
         /\ tick' \in Nat /\ halted' \in BOOLEAN
         /\ deadline' \in [Entries -> Nat]
         /\ \A f \in fired' : f.entry \in Entries /\ f.due \in Nat
<1>1. \A c \in cells' : Fits(c)
  BY TickIs, Cells2Is, RearmIs
<1>2. T \in Nat
  BY DEF T, TypeInv
<1>3. \A e \in Entries : again[e] \in Nat /\ deadline[e] \in Nat
  <2>1. Intervals \subseteq Nat
    BY Constants
  <2>2. \A e \in Entries : again[e] \in {0} \cup Intervals
    BY DEF TypeInv
  <2>3. \A e \in Entries : deadline[e] \in Nat
    BY DEF TypeInv
  <2>4. ASSUME NEW e \in Entries
        PROVE  again[e] \in Nat
    <3>1. again[e] = 0 \/ again[e] \in Intervals
      BY <2>2
    <3>2. 0 \in Nat
      OBVIOUS
    <3> QED
      BY <2>1, <3>1, <3>2, Zenon
  <2> QED
    BY <2>3, <2>4, Zenon
<1>4. Due1 \in [Entries -> Nat]
  BY <1>2, <1>3 DEF Due1
<1>5. deadline' \in [Entries -> Nat]
  BY <1>2, <1>3, <1>4, TickIs
<1>6. ASSUME NEW f \in fired'
      PROVE  f.entry \in Entries /\ f.due \in Nat
  <2>1. \/ \E e \in Ran1 : f = [entry |-> e, due |-> deadline[e]]
        \/ \E e \in Ran2 : f = [entry |-> e, due |-> Due1[e]]
    BY TickIs
  <2> QED
    BY <2>1, <1>3, <1>4, Cells1Is, Cells2Is
<1> QED
  BY <1>1, <1>2, <1>5, <1>6, TickIs

\* The clock is a number of 16 bits.
LEMMA ValuesIs == Values16 \in Nat \ {0}
BY DEF Values16

\* The clock handed to OnTimer is a number with a sign.
LEMMA NowMsIs ==
  ASSUME NEW c \in Bits16
  PROVE  NowMs(c) \in Int
BY ValuesIs DEF NowMs, Bits16

\* The clock stays within 16 bits.
LEMMA ClockWraps ==
  ASSUME NEW c \in Bits16, NEW gap \in Gaps
  PROVE  (c + gap) % Values16 \in Bits16
<1>1. gap \in Nat /\ c \in Nat
  BY ClockAssumption, ValuesIs DEF Bits16
<1>2. c + gap \in Nat
  BY <1>1
<1> QED
  BY <1>2, ValuesIs, DivMod DEF Bits16

\* OnTimer ticks, or leaves everything but last_ts_ alone.
LEMMA OnTimerIs ==
  ASSUME TypeInv, NEW now \in Int, OnTimer(now)
  PROVE  /\ ~halted /\ last_ts' \in Int /\ again' = again
         /\ Tick \/ (fired' = {} /\ UNCHANGED <<tick, cells, deadline, halted>>)
<1> DEFINE last == IF last_ts = 0 THEN now ELSE last_ts
<1>1. last \in Int
  BY DEF TypeInv
<1>2. CASE now - last < TickMs
  BY <1>1, <1>2 DEF OnTimer
<1>3. CASE ~(now - last < TickMs)
  <2>1. last_ts' = now /\ Tick /\ ~halted /\ again' = again
    BY <1>3, Zenon DEF OnTimer
  <2>2. last_ts' \in Int
    BY <2>1
  <2> QED
    BY <2>1, <2>2, Zenon
<1> QED
  BY <1>2, <1>3

\* Every step keeps the types.
LEMMA TypesKept == TypeInv /\ [LoopNext]_allVars => TypeInv'
<1> SUFFICES ASSUME TypeInv, [LoopNext]_allVars
             PROVE  TypeInv'
  OBVIOUS
<1>1. ASSUME NEW e \in Entries, NEW d \in Delays, LoopRunAfter(e, d) \/ LoopExtendLife(e, d)
      PROVE  TypeInv'
  <2>1. d \in Nat
    BY Constants
  <2>2. again' = [again EXCEPT ![e] = 0] \/ again' = again
    BY <1>1 DEF LoopRunAfter, LoopExtendLife, RunAfter, ExtendLife
  <2>3. again' \in [Entries -> {0} \cup Intervals]
    BY <2>2 DEF TypeInv
  <2>4. InsertEntry(e, d) /\ UNCHANGED <<last_ts, tick, clock>>
    BY <1>1 DEF LoopRunAfter, LoopExtendLife, RunAfter, ExtendLife
  <2> QED
    BY <2>1, <2>3, <2>4, CallTypes
<1>2. ASSUME NEW e \in Entries, NEW p \in Intervals, LoopRunEvery(e, p)
      PROVE  TypeInv'
  <2>1. p \in Nat
    BY Constants
  <2>2. again' = [again EXCEPT ![e] = p]
    BY <1>2 DEF LoopRunEvery, RunEvery
  <2>3. again' \in [Entries -> {0} \cup Intervals]
    BY <2>2 DEF TypeInv
  <2>4. InsertEntry(e, p) /\ UNCHANGED <<last_ts, tick, clock>>
    BY <1>2 DEF LoopRunEvery, RunEvery
  <2> QED
    BY <2>1, <2>3, <2>4, CallTypes
<1>3. ASSUME NEW gap \in Gaps, Turn(gap)
      PROVE  TypeInv'
  <2>1. clock' \in Bits16
    <3>1. clock' = (clock + gap) % Values16 /\ clock \in Bits16
      BY <1>3 DEF Turn, TypeInv
    <3> QED
      BY <3>1, ClockWraps
  <2>2. OnTimer(NowMs(clock')) /\ NowMs(clock') \in Int
    BY <1>3, <2>1, NowMsIs DEF Turn
  <2>3. /\ last_ts' \in Int /\ again' = again
        /\ Tick \/ (fired' = {} /\ UNCHANGED <<tick, cells, deadline, halted>>)
    BY <2>2, OnTimerIs
  <2>4. CASE Tick
    BY <2>1, <2>3, <2>4, TickTypes, Zenon DEF TypeInv
  <2>5. CASE fired' = {} /\ UNCHANGED <<tick, cells, deadline, halted>>
    BY <2>1, <2>3, <2>5, Zenon DEF TypeInv
  <2> QED
    BY <2>3, <2>4, <2>5
<1>4. CASE UNCHANGED allVars
  BY <1>4, Zenon DEF allVars, vars, TypeInv
<1> QED
  BY <1>1, <1>2, <1>3, <1>4 DEF LoopNext

\* The types hold at the start.
LEMMA TypesInit == LoopInit => TypeInv
<1> SUFFICES ASSUME LoopInit
             PROVE  TypeInv
  OBVIOUS
<1>1. clock \in Bits16 /\ Init
  BY ClockAssumption DEF LoopInit
<1>2. /\ \A c \in cells : Fits(c)
      /\ \A f \in fired : f.entry \in Entries /\ f.due \in Nat
  BY <1>1 DEF Init
<1>3. last_ts \in Int /\ tick \in Nat /\ halted \in BOOLEAN
  <2>1. last_ts = 0 /\ tick = 0 /\ halted = FALSE
    BY <1>1, Zenon DEF Init
  <2>2. last_ts \in Int /\ tick \in Nat
    BY <2>1
  <2>3. halted \in BOOLEAN
    BY <2>1, Zenon
  <2> QED
    BY <2>2, <2>3
<1>4. again \in [Entries -> {0} \cup Intervals] /\ deadline \in [Entries -> Nat]
  BY <1>1 DEF Init
<1> QED
  BY <1>1, <1>2, <1>3, <1>4 DEF TypeInv

\* The variables keep their types; above all, a cell is always in a slot that its wheel
\* has: nothing but a delay of 0 writes outside the deques (TimingWheel.cc:14-70).
THEOREM TypeCorrect == LoopSpec => []TypeOK
<1>1. TypeInv => TypeOK
  BY DEF TypeInv, TypeOK, Fits, Cell, Wheels, Unit
<1> QED
  BY <1>1, TypesInit, TypesKept, PTL DEF LoopSpec

-----------------------------------------------------------------------------
(* Timers that stay.                                                        *)

\* After a tick, who waited waits, unless it ran and was no RunEvery timer; and who
\* ran and was none is gone.
LEMMA TickArms ==
  ASSUME TypeInv, Tick, NEW e \in Entries
  PROVE  /\ Armed(e) /\ again[e] > 0 => Armed(e)'
         /\ Armed(e) /\ e \notin {f.entry : f \in fired'} => Armed(e)'
         /\ ~(again[e] > 0) /\ e \in {f.entry : f \in fired'} => ~Armed(e)'
<1>1. cells' = Cells2 \cup Rearm(Ran2) /\ Cells1 = Second \cup Rearm(Ran1)
  BY TickIs DEF Cells1
<1>2. \A x \in fired' : x.entry \in Ran1 \cup Ran2
  BY TickIs
<1>3. \A x \in Ran1 \cup Ran2 : \E f \in fired' : f.entry = x
  <2>1. \A x \in Ran1 : [entry |-> x, due |-> deadline[x]] \in fired'
    BY TickIs
  <2>2. \A x \in Ran2 : [entry |-> x, due |-> Due1[x]] \in fired'
    BY TickIs
  <2>3. \A x, d : [entry |-> x, due |-> d].entry = x
    OBVIOUS
  <2> QED
    BY <2>1, <2>2, <2>3, Zenon
<1>4. Ran1 \in SUBSET Entries /\ Ran2 \in SUBSET Entries
  BY Cells1Is, Cells2Is
<1>5. \A x \in Cells1 : x.entry = e => e \in Ran2 \/ \E c \in Cells2 : c.entry = e
  BY Cells2Is
<1>6. ASSUME again[e] > 0, Armed(e)
      PROVE  Armed(e)'
  <2>1. \E c \in Cells1 : c.entry = e
    <3>1. e \in Ran1 \/ \E c \in Second : c.entry = e
      BY <1>6, Cells1Is DEF Armed, Holds
    <3>2. e \in Ran1 => \E c \in Rearm(Ran1) : c.entry = e
      BY <1>4, <1>6, RearmIs
    <3> QED
      BY <3>1, <3>2, <1>1
  <2>2. e \in Ran2 \/ \E c \in Cells2 : c.entry = e
    BY <2>1, <1>5
  <2>3. e \in Ran2 => \E c \in Rearm(Ran2) : c.entry = e
    BY <1>4, <1>6, RearmIs
  <2> QED
    BY <2>2, <2>3, <1>1 DEF Armed, Holds
<1>7. ASSUME Armed(e), e \notin {f.entry : f \in fired'}
      PROVE  Armed(e)'
  <2>1. e \notin Ran1 /\ e \notin Ran2
    BY <1>3, <1>7
  <2>2. \E c \in Cells1 : c.entry = e
    BY <1>7, <2>1, <1>1, Cells1Is DEF Armed, Holds
  <2> QED
    BY <2>1, <2>2, <1>1, <1>5 DEF Armed, Holds
<1>8. ASSUME ~(again[e] > 0), e \in {f.entry : f \in fired'}
      PROVE  ~Armed(e)'
  <2>1. e \in Ran1 \cup Ran2
    BY <1>2, <1>8
  <2>2. (\A c \in Rearm(Ran1) : c.entry # e) /\ (\A c \in Rearm(Ran2) : c.entry # e)
    BY <1>4, <1>8, RearmIs
  <2>3. \A c \in Cells2 : c.entry # e
    <3>1. CASE e \in Ran2
      BY <3>1 DEF Ran2, Entered
    <3>2. CASE e \in Ran1
      <4>1. \A c \in Second : c.entry # e
        BY <3>2 DEF Ran1, Entered
      <4> QED
        BY <4>1, <2>2, <1>1, Cells2Is
    <3> QED
      BY <2>1, <3>1, <3>2
  <2> QED
    BY <1>1, <2>2, <2>3 DEF Armed, Holds
<1> QED
  BY <1>6, <1>7, <1>8

\* A call of RunAfter, RunEvery or ExtendLife drops nothing.
LEMMA InsertArms ==
  ASSUME TypeInv, NEW e \in Entries, NEW d \in Nat, InsertEntry(e, d)
  PROVE  /\ \A x \in Entries : Armed(x) => Armed(x)'
         /\ \A f \in fired' : ~Armed(f.entry)'
         /\ d # 0 /\ Taken(d) => Armed(e)'
<1>1. \A x \in Entries : Armed(x) => Armed(x)'
  BY InsertIs DEF Armed, Holds
<1>2. \A f \in fired' : ~Armed(f.entry)'
  BY InsertIs DEF Armed
<1>3. ASSUME d # 0, Taken(d)
      PROVE  Armed(e)'
  <2>1. PICK c \in Place(e, d) : c.entry = e
    BY <1>3, PlaceIs
  <2> QED
    BY <2>1 DEF InsertEntry, Armed, Holds
<1> QED
  BY <1>1, <1>2, <1>3

\* The steps of the loop, as far as the wheels can tell.
LEMMA LoopStep ==
  ASSUME TypeInv, [LoopNext]_allVars
  PROVE  \/ \E e \in Entries, d \in Delays :
               ~halted /\ InsertEntry(e, d) /\ again'[e] = 0
               /\ (\A x \in Entries \ {e} : again'[x] = again[x])
               /\ (Armed(e) => again[e] = 0) /\ tick' = tick
         \/ \E e \in Entries, p \in Intervals :
               ~halted /\ InsertEntry(e, p) /\ ~Armed(e)
               /\ (\A x \in Entries \ {e} : again'[x] = again[x]) /\ tick' = tick
         \/ ~halted /\ Tick /\ again' = again
         \/ fired' = {} /\ UNCHANGED <<tick, cells, deadline, halted, again>>
         \/ UNCHANGED vars
<1>1. ASSUME NEW e \in Entries, NEW d \in Delays, LoopRunAfter(e, d)
      PROVE  ~halted /\ InsertEntry(e, d) /\ again'[e] = 0
             /\ (\A x \in Entries \ {e} : again'[x] = again[x])
             /\ (Armed(e) => again[e] = 0) /\ tick' = tick
  BY <1>1 DEF LoopRunAfter, RunAfter, TypeInv
<1>2. ASSUME NEW e \in Entries, NEW d \in Delays, LoopExtendLife(e, d)
      PROVE  ~halted /\ InsertEntry(e, d) /\ again'[e] = 0
             /\ (\A x \in Entries \ {e} : again'[x] = again[x])
             /\ (Armed(e) => again[e] = 0) /\ tick' = tick
  BY <1>2 DEF LoopExtendLife, ExtendLife
<1>3. ASSUME NEW e \in Entries, NEW p \in Intervals, LoopRunEvery(e, p)
      PROVE  ~halted /\ InsertEntry(e, p) /\ ~Armed(e)
             /\ (\A x \in Entries \ {e} : again'[x] = again[x]) /\ tick' = tick
  BY <1>3 DEF LoopRunEvery, RunEvery, TypeInv
<1>4. ASSUME NEW gap \in Gaps, Turn(gap)
      PROVE  \/ ~halted /\ Tick /\ again' = again
             \/ fired' = {} /\ UNCHANGED <<tick, cells, deadline, halted, again>>
  <2>1. clock' \in Bits16
    <3>1. clock' = (clock + gap) % Values16 /\ clock \in Bits16
      BY <1>4 DEF Turn, TypeInv
    <3> QED
      BY <3>1, ClockWraps
  <2>2. OnTimer(NowMs(clock')) /\ NowMs(clock') \in Int
    BY <1>4, <2>1, NowMsIs DEF Turn
  <2> QED
    BY <2>2, OnTimerIs
<1>5. ASSUME UNCHANGED allVars
      PROVE  UNCHANGED vars
  BY <1>5 DEF allVars
<1> QED
  BY <1>1, <1>2, <1>3, <1>4, <1>5, Zenon DEF LoopNext

\* A RunEvery timer that waits goes on waiting.
LEMMA ArmedKept ==
  ASSUME TypeInv, EveryStaysArmed, [LoopNext]_allVars
  PROVE  EveryStaysArmed'
<1> SUFFICES ASSUME ~halted', NEW x \in Entries, again'[x] > 0
             PROVE  Armed(x)'
  BY DEF EveryStaysArmed
<1>1. ASSUME NEW e \in Entries, NEW d \in Delays, ~halted, InsertEntry(e, d), again'[e] = 0,
             \A y \in Entries \ {e} : again'[y] = again[y]
      PROVE  Armed(x)'
  <2>1. x # e
    BY <1>1
  <2>2. Armed(x) /\ d \in Nat
    BY <1>1, <2>1, Constants DEF EveryStaysArmed
  <2> QED
    BY <1>1, <2>2, InsertArms
<1>2. ASSUME NEW e \in Entries, NEW p \in Intervals, ~halted, InsertEntry(e, p),
             \A y \in Entries \ {e} : again'[y] = again[y]
      PROVE  Armed(x)'
  <2>1. p \in Nat /\ p # 0 /\ Taken(p)
    BY Constants
  <2>2. x # e => Armed(x)
    BY <1>2 DEF EveryStaysArmed
  <2> QED
    BY <1>2, <2>1, <2>2, InsertArms
<1>3. ASSUME ~halted, Tick, again' = again
      PROVE  Armed(x)'
  BY <1>3, TickArms DEF EveryStaysArmed
<1>4. ASSUME UNCHANGED <<tick, cells, deadline, halted, again>>
      PROVE  Armed(x)'
  BY <1>4 DEF EveryStaysArmed, Armed
<1>5. ASSUME UNCHANGED vars
      PROVE  Armed(x)'
  BY <1>5 DEF EveryStaysArmed, Armed, vars
<1> QED
  BY LoopStep, <1>1, <1>2, <1>3, <1>4, <1>5, Zenon

\* Types and armed timers hold in every state.
LEMMA ArmedInvariance == LoopSpec => [](TypeInv /\ EveryStaysArmed)
<1>1. LoopInit => EveryStaysArmed
  BY DEF LoopInit, Init, EveryStaysArmed
<1>2. TypeInv /\ EveryStaysArmed /\ [LoopNext]_allVars => TypeInv' /\ EveryStaysArmed'
  BY TypesKept, ArmedKept
<1> QED
  BY <1>1, <1>2, TypesInit, PTL DEF LoopSpec

\* A RunEvery timer always waits for its next run: neither the tick that runs it nor a
\* cascade of the same tick loses it (TimingWheel.cc:120-124).
THEOREM EveryGoesOn == LoopSpec => []EveryStaysArmed
BY ArmedInvariance, PTL

\* A waiting timer stops to wait only by running its callback, and a callback runs only
\* for a timer that waits no more, or anew (TimingWheel.cc:99-134).
THEOREM NothingVanishes == LoopSpec => VanishesOnlyByFiring
<1> DEFINE Step == \A e \in Entries :
                     (Armed(e) /\ ~halted') =>
                        (Armed(e)' <=> (again[e] > 0 \/ e \notin {f.entry : f \in fired'}))
<1>1. ASSUME TypeInv, EveryStaysArmed, [LoopNext]_allVars
      PROVE  [Step]_vars
  <2> SUFFICES ASSUME NEW x \in Entries, Armed(x), ~halted', ~UNCHANGED vars
               PROVE  Armed(x)' <=> (again[x] > 0 \/ x \notin {f.entry : f \in fired'})
    OBVIOUS
  <2>1. ASSUME NEW e \in Entries, NEW d \in Nat, InsertEntry(e, d)
        PROVE  Armed(x)' <=> (again[x] > 0 \/ x \notin {f.entry : f \in fired'})
    BY <1>1, <2>1, InsertArms
  <2>2. ASSUME Tick
        PROVE  Armed(x)' <=> (again[x] > 0 \/ x \notin {f.entry : f \in fired'})
    BY <1>1, <2>2, TickArms, Zenon
  <2>3. ASSUME fired' = {}, UNCHANGED <<tick, cells, deadline, halted, again>>
        PROVE  Armed(x)' <=> (again[x] > 0 \/ x \notin {f.entry : f \in fired'})
    BY <2>3 DEF Armed
  <2> QED
    <3>1. \A d \in Delays : d \in Nat
      BY Constants
    <3>2. \A p \in Intervals : p \in Nat
      BY Constants
    <3> QED
      BY <1>1, <2>1, <2>2, <2>3, <3>1, <3>2, LoopStep, Zenon
<1>2. TypeInv /\ EveryStaysArmed /\ [LoopNext]_allVars => [Step]_vars
  BY <1>1
<1> QED
  BY <1>2, ArmedInvariance, PTL DEF LoopSpec, VanishesOnlyByFiring

-----------------------------------------------------------------------------
(* Timers that are not late.                                                *)

\* The tick at which the minute wheel moves next.
Turnover(k) == k - (k % kTimingMinute) + kTimingMinute

\* A cell whose wheel moves, and the tick at which it lets its entry go, seen from k.
Moves(c) == c.wheel \in {"second", "minute"}
Expiry(c, k) == IF c.wheel = "second" THEN k + c.slot + 1
                ELSE Turnover(k) + c.slot * kTimingMinute + c.rest

\* The same in the middle of a tick, when the second wheel has moved.
Mid(c) == IF c.wheel = "second" THEN Expiry(c, T) ELSE Expiry(c, tick)

\* No cell outlasts the deadline of its timer; one of them comes within a minute of it.
TimeInv ==
  ~halted =>
    /\ \A c \in cells : Moves(c) => Expiry(c, tick) <= deadline[c.entry]
    /\ \A e \in Entries : Armed(e) /\ ~Stuck(e) =>
         \E c \in cells : c.entry = e /\ deadline[e] <= Expiry(c, tick) + kTimingMinute
    /\ \A f \in fired : tick <= f.due /\ f.due <= tick + kTimingMinute

\* The minute wheel moves next within a minute, and with this tick or as before.
LEMMA TurnIs ==
  ASSUME NEW k \in Nat
  PROVE  /\ Turnover(k) \in Nat /\ k + 1 <= Turnover(k) /\ Turnover(k) <= k + kTimingMinute
         /\ (k + 1) % kTimingMinute = 0 =>
              Turnover(k) = k + 1 /\ Turnover(k + 1) = k + 1 + kTimingMinute
         /\ (k + 1) % kTimingMinute # 0 => Turnover(k + 1) = Turnover(k)
<1> DEFINE m == kTimingMinute
           r == k % m
           s == (k + 1) % m
<1>1. m \in Nat \ {0}
  BY Constants
<1>2. r \in 0 .. m - 1
  BY <1>1, DivMod
<1>3. s = IF r + 1 = m THEN 0 ELSE r + 1
  BY <1>1, ModNext
<1>4. Turnover(k) = k - r + m /\ Turnover(k + 1) = (k + 1) - s + m
  BY DEF Turnover
<1> HIDE DEF r, s, m
<1>5. /\ Turnover(k) \in Nat /\ k + 1 <= Turnover(k) /\ Turnover(k) <= k + m
      /\ s = 0 => Turnover(k) = k + 1 /\ Turnover(k + 1) = k + 1 + m
      /\ s # 0 => Turnover(k + 1) = Turnover(k)
  BY <1>1, <1>2, <1>3, <1>4
<1> QED
  BY <1>5 DEF m, s

\* A cell lets go after now, and its delay, rounded down by less than a minute, later.
LEMMA ExpiryIs ==
  ASSUME NEW c, Fits(c), NEW k \in Nat
  PROVE  /\ Expiry(c, k) \in Int /\ k + 1 <= Expiry(c, k)
<1> DEFINE m == kTimingMinute
           a == c.slot * m
<1>1. c.slot \in Nat /\ c.rest \in Nat
  BY FitsIs
<1>2. m \in Nat
  BY Constants
<1>3. a \in Nat
  BY <1>1, <1>2
<1>4. Expiry(c, k) = IF c.wheel = "second" THEN k + c.slot + 1 ELSE Turnover(k) + a + c.rest
  BY DEF Expiry
<1> HIDE DEF a, m
<1>5. Expiry(c, k) \in Int /\ k + 1 <= Expiry(c, k)
  BY <1>1, <1>3, <1>4, TurnIs
<1> QED
  BY <1>5

\* The cell of a delay lets go at the delay or less than a minute before it.
LEMMA PlaceExpiry ==
  ASSUME NEW e \in Entries, NEW d \in Nat, NEW c \in Place(e, d), Moves(c), NEW k \in Nat
  PROVE  /\ k + d + 1 <= Expiry(c, k) + kTimingMinute /\ Expiry(c, k) <= k + d
         /\ c.wheel = "second" => Expiry(c, k) = k + d
<1> DEFINE m == kTimingMinute
           a == c.slot * m
<1>1. m \in Nat \ {0}
  BY Constants
<1>2. Fits(c) /\ c.slot \in Nat /\ c.rest \in Nat
  BY PlaceIs, FitsIs
<1>3. /\ c.wheel = "second" => c.slot = d - 1
      /\ c.wheel = "minute" => a + c.rest = d - m
  BY PlaceIs
<1>4. a \in Nat
  BY <1>1, <1>2
<1>5. Expiry(c, k) = IF c.wheel = "second" THEN k + c.slot + 1 ELSE Turnover(k) + a + c.rest
  BY DEF Expiry
<1>6. Turnover(k) \in Nat /\ k + 1 <= Turnover(k) /\ Turnover(k) <= k + m
  BY TurnIs
<1>7. c.wheel = "second" \/ c.wheel = "minute"
  BY DEF Moves
<1> HIDE DEF a, m
<1>8. /\ k + d + 1 <= Expiry(c, k) + m /\ Expiry(c, k) <= k + d
      /\ c.wheel = "second" => Expiry(c, k) = k + d
  BY <1>1, <1>2, <1>3, <1>4, <1>5, <1>6, <1>7
<1> QED
  BY <1>8 DEF m

\* The second wheel moves: what was in a cell lets go when it would have.
LEMMA SecondMoves ==
  ASSUME TypeInv, NEW x \in cells, ~(x.wheel = "second" /\ x.slot = 0)
  PROVE  /\ Moved(x, "second") \in Cells1
         /\ Moved(x, "second").entry = x.entry /\ Moved(x, "second").wheel = x.wheel
         /\ Moves(x) => Mid(Moved(x, "second")) = Expiry(x, tick)
<1> DEFINE y == Moved(x, "second")
<1>1. Fits(x) /\ tick \in Nat
  BY DEF TypeInv
<1>2. /\ Fits(y) /\ y.wheel = x.wheel /\ y.entry = x.entry /\ y.rest = x.rest
      /\ y.slot = IF x.wheel = "second" THEN x.slot - 1 ELSE x.slot
  BY <1>1, MovedIs
<1>3. y \in Cells1
  BY Cells1Is DEF Cells1
<1>4. x.slot \in Nat
  BY <1>1, FitsIs
<1> HIDE DEF y
<1>5. ASSUME Moves(x)
      PROVE  Mid(y) = Expiry(x, tick)
  <2>1. CASE x.wheel = "second"
    <3>1. Mid(y) = T + y.slot + 1 /\ Expiry(x, tick) = tick + x.slot + 1
      BY <2>1, <1>2 DEF Mid, Expiry
    <3>2. y.slot = x.slot - 1
      BY <2>1, <1>2
    <3> QED
      BY <3>1, <3>2, <1>1, <1>4 DEF T
  <2>2. CASE x.wheel = "minute"
    BY <2>2, <1>2 DEF Mid, Expiry
  <2> QED
    BY <1>5, <2>1, <2>2 DEF Moves
<1> QED
  BY <1>2, <1>3, <1>5 DEF y

\* After the second wheel has moved.
LEMMA MidTick ==
  ASSUME TypeInv, TimeInv, ~halted
  PROVE  /\ \A c \in Cells1 : Moves(c) =>
               Mid(c) \in Int /\ T <= Mid(c) /\ Mid(c) <= Due1[c.entry]
         /\ \A e \in Entries :
               (\E c \in Cells1 : c.entry = e) /\ (\A c \in Cells1 : c.entry = e => Moves(c)) =>
                   \E c \in Cells1 : c.entry = e /\ Due1[e] <= Mid(c) + kTimingMinute
         /\ \A e \in Ran1 : T <= deadline[e] /\ deadline[e] <= T + kTimingMinute
<1>1. /\ tick \in Nat /\ T = tick + 1 /\ T \in Nat /\ kTimingMinute \in Nat \ {0}
  BY Constants DEF TypeInv, T
<1>2. \A c \in Cells1 : Fits(c)
  BY Cells1Is
<1>3. \A c \in Cells1 : Mid(c) \in Int /\ T <= Mid(c)
  <2> SUFFICES ASSUME NEW c \in Cells1
               PROVE  Mid(c) \in Int /\ T <= Mid(c)
    OBVIOUS
  <2>1. Expiry(c, T) \in Int /\ T + 1 <= Expiry(c, T)
    BY <1>1, <1>2, ExpiryIs
  <2>2. Expiry(c, tick) \in Int /\ tick + 1 <= Expiry(c, tick)
    BY <1>1, <1>2, ExpiryIs
  <2> QED
    BY <1>1, <2>1, <2>2 DEF Mid
<1>4. Ran1 \in SUBSET Entries
  BY Cells1Is
<1>5. \A e \in Entries : deadline[e] \in Nat
  BY DEF TypeInv
<1>6. /\ \A e \in Entries \ Ran1 : Due1[e] = deadline[e]
      /\ \A e \in Ran1 : again[e] > 0 => Due1[e] = T + again[e]
  BY <1>4 DEF Due1
<1>7. \A c \in Rearm(Ran1) : Moves(c) =>
         Mid(c) <= Due1[c.entry] /\ Due1[c.entry] <= Mid(c) + kTimingMinute
  <2> SUFFICES ASSUME NEW c \in Rearm(Ran1), Moves(c)
               PROVE  Mid(c) <= Due1[c.entry] /\ Due1[c.entry] <= Mid(c) + kTimingMinute
    OBVIOUS
  <2> DEFINE e == c.entry
             d == again[e]
  <2>1. e \in Ran1 /\ d > 0 /\ c \in Place(e, d) /\ d \in Intervals /\ Fits(c)
    BY <1>4, RearmIs
  <2>2. d \in Nat /\ e \in Entries
    BY <2>1, <1>4, Constants
  <2>3. Due1[e] = T + d
    BY <2>1, <1>6
  <2> HIDE DEF d, e
  <2>4. /\ tick + d + 1 <= Expiry(c, tick) + kTimingMinute /\ Expiry(c, tick) <= tick + d
        /\ T + d + 1 <= Expiry(c, T) + kTimingMinute /\ Expiry(c, T) <= T + d
    BY <1>1, <2>1, <2>2, PlaceExpiry
  <2>5. Expiry(c, tick) \in Int /\ Expiry(c, T) \in Int
    BY <1>1, <2>1, ExpiryIs
  <2>6. Mid(c) = Expiry(c, T) \/ Mid(c) = Expiry(c, tick)
    BY DEF Mid
  <2>7. Mid(c) <= T + d /\ T + d <= Mid(c) + kTimingMinute
    BY <1>1, <2>2, <2>4, <2>5, <2>6
  <2> QED
    BY <2>3, <2>7 DEF e
<1>8. \A c \in Second : /\ c.entry \notin Ran1 /\ c.entry \in Entries
                        /\ Moves(c) => Mid(c) <= Due1[c.entry]
  <2> SUFFICES ASSUME NEW c \in Second
               PROVE  /\ c.entry \notin Ran1 /\ c.entry \in Entries
                      /\ Moves(c) => Mid(c) <= Due1[c.entry]
    OBVIOUS
  <2>1. PICK x \in cells : c = Moved(x, "second") /\ c.entry = x.entry
                           /\ ~(x.wheel = "second" /\ x.slot = 0)
    BY Cells1Is
  <2>2. c.entry \notin Ran1 /\ c.entry \in Entries
    BY Cells1Is, FitsIs DEF Ran1, Entered
  <2>3. Moves(c) => Moves(x) /\ Mid(c) = Expiry(x, tick)
    BY <2>1, SecondMoves DEF Moves
  <2>4. Moves(x) => Expiry(x, tick) <= deadline[x.entry]
    BY DEF TimeInv
  <2> QED
    BY <2>1, <2>2, <2>3, <2>4, <1>6
<1>9. ASSUME NEW e \in Ran1
      PROVE  T <= deadline[e] /\ deadline[e] <= T + kTimingMinute
  <2>1. e \in Entries
    BY <1>4
  <2>2. \A x \in cells : x.entry = e => x.wheel = "second" /\ x.slot = 0
    BY SecondMoves, Cells1Is, <1>9 DEF Ran1, Entered
  <2>3. \E x \in cells : x.entry = e
    BY <1>9 DEF Ran1, Entered, Front
  <2>4. Armed(e) /\ ~Stuck(e)
    BY <2>2, <2>3 DEF Armed, Holds, Stuck
  <2>5. PICK x \in cells : x.entry = e /\ deadline[e] <= Expiry(x, tick) + kTimingMinute
    BY <2>1, <2>4 DEF TimeInv
  <2>6. Expiry(x, tick) = T /\ Expiry(x, tick) <= deadline[e]
    <3>1. x.wheel = "second" /\ x.slot = 0
      BY <2>2, <2>5
    <3>2. Expiry(x, tick) = tick + 0 + 1
      BY <3>1 DEF Expiry
    <3>3. Expiry(x, tick) <= deadline[e]
      BY <3>1, <2>5 DEF TimeInv, Moves
    <3> QED
      BY <3>2, <3>3, <1>1
  <2> QED
    BY <2>5, <2>6
<1>10. ASSUME NEW e \in Entries, \E c \in Cells1 : c.entry = e,
              \A c \in Cells1 : c.entry = e => Moves(c)
       PROVE  \E c \in Cells1 : c.entry = e /\ Due1[e] <= Mid(c) + kTimingMinute
  <2>1. CASE e \in Ran1
    <3>1. PICK c \in Cells1 : c.entry = e
      BY <1>10
    <3>2. c \in Rearm(Ran1)
      BY <2>1, <3>1, <1>8 DEF Cells1
    <3> QED
      BY <3>1, <3>2, <1>7, <1>10
  <2>2. CASE e \notin Ran1
    <3>1. PICK c \in Second : c.entry = e
      BY <2>2, <1>4, <1>10, RearmIs DEF Cells1
    <3>2. PICK y \in cells : y.entry = e
      BY <3>1, Cells1Is
    <3>3. Armed(e)
      BY <3>2 DEF Armed, Holds
    <3>4. ~Stuck(e)
      <4> SUFFICES ASSUME NEW x \in cells, x.entry = e, x.wheel \in {"hour", "day"}
                   PROVE  FALSE
        BY DEF Stuck
      <4>1. Moved(x, "second") \in Cells1 /\ Moved(x, "second").entry = e
            /\ Moved(x, "second").wheel = x.wheel
        BY SecondMoves
      <4> QED
        BY <4>1, <1>10 DEF Moves
    <3>5. PICK x \in cells : x.entry = e /\ deadline[e] <= Expiry(x, tick) + kTimingMinute
      BY <3>3, <3>4 DEF TimeInv
    <3>6. CASE x.wheel = "second" /\ x.slot = 0
      <4>1. Expiry(x, tick) = tick + 0 + 1
        BY <3>6 DEF Expiry
      <4>2. c \in Cells1 /\ Mid(c) \in Int /\ T <= Mid(c)
        BY <3>1, <1>3 DEF Cells1
      <4>3. Due1[e] \in Nat /\ Due1[e] = deadline[e]
        BY <2>2, <1>5, <1>6
      <4>4. Due1[e] <= Mid(c) + kTimingMinute
        BY <4>1, <4>2, <4>3, <3>5, <1>1
      <4> QED
        BY <3>1, <4>2, <4>4
    <3>7. CASE ~(x.wheel = "second" /\ x.slot = 0)
      <4>1. Moves(x)
        <5>1. x.wheel \in Wheels
          BY FitsIs DEF TypeInv
        <5> QED
          BY <5>1, <3>4, <3>5 DEF Stuck, Moves, Wheels
      <4>2. /\ Moved(x, "second") \in Cells1 /\ Moved(x, "second").entry = e
            /\ Mid(Moved(x, "second")) = Expiry(x, tick)
        BY <3>5, <3>7, <4>1, SecondMoves
      <4> QED
        BY <4>2, <3>5, <2>2, <1>6
    <3> QED
      BY <3>6, <3>7
  <2> QED
    BY <2>1, <2>2
<1>11. \A c \in Cells1 : Moves(c) => Mid(c) <= Due1[c.entry]
  BY <1>7, <1>8 DEF Cells1
<1> QED
  BY <1>3, <1>9, <1>10, <1>11

\* A cell that the slow wheel does not let go lets go when it would have.
LEMMA MovedExpiry ==
  ASSUME TypeInv, NEW x \in Cells1, x \notin Gone
  PROVE  LET y == Moved(x, SlowWheel(T)) IN
         /\ y \in Cells2 /\ y.entry = x.entry /\ y.wheel = x.wheel
         /\ Moves(x) => Expiry(y, T) = Mid(x)
         /\ ~Moves(x) => y = x
<1>1. /\ tick \in Nat /\ T = tick + 1 /\ T \in Nat
  BY DEF TypeInv, T
<1>2. Fits(x) /\ x.slot \in Nat /\ x.rest \in Nat /\ x.wheel \in Wheels /\ x.entry \in Entries
  BY Cells1Is, FitsIs
<1> DEFINE w == SlowWheel(T)
           y == Moved(x, w)
<1>3. w = IF T % kTimingMinute = 0 THEN "minute" ELSE "none"
  BY <1>1, SlowWheelIs
<1>4. ~(x.wheel = w /\ x.slot = 0)
  BY DEF Gone, Front
<1>5. y \in Cells2
  BY <1>4, PopUpIs DEF Cells2
<1>6. /\ y.wheel = x.wheel /\ y.entry = x.entry /\ y.rest = x.rest
      /\ y.slot = IF x.wheel = w THEN x.slot - 1 ELSE x.slot
  BY <1>2, <1>4, MovedIs
<1>7. ~Moves(x) => y = x
  BY <1>2, <1>3 DEF Moved, Moves, Wheels
<1>8. ASSUME x.wheel = "second"
      PROVE  Expiry(y, T) = Mid(x)
  <2>1. y.slot = x.slot
    BY <1>3, <1>6, <1>8
  <2> QED
    BY <2>1, <1>6, <1>8 DEF Mid, Expiry
<1>9. ASSUME x.wheel = "minute"
      PROVE  Expiry(y, T) = Mid(x)
  <2> DEFINE m == kTimingMinute
             s == x.slot
  <2>1. m \in Nat \ {0}
    BY Constants
  <2>2. Mid(x) = Turnover(tick) + s * m + x.rest
    BY <1>9 DEF Mid, Expiry
  <2>3. Expiry(y, T) = Turnover(T) + y.slot * m + x.rest
    BY <1>6, <1>9 DEF Expiry
  <2>4. Turnover(tick) \in Nat
    BY <1>1, TurnIs
  <2>5. CASE T % kTimingMinute = 0
    <3>1. y.slot = s - 1
      BY <2>5, <1>3, <1>6, <1>9
    <3>2. Turnover(tick) = T /\ Turnover(T) = T + m
      BY <2>5, <1>1, TurnIs
    <3> HIDE DEF m, s
    <3>3. s \in Nat
      BY <1>2 DEF s
    <3>4. (s - 1) * m = s * m - m
      BY <3>3, <2>1
    <3>5. s * m \in Nat
      BY <3>3, <2>1
    <3> QED
      BY <3>1, <3>2, <3>4, <3>5, <2>1, <2>2, <2>3, <1>1, <1>2
  <2>6. CASE T % kTimingMinute # 0
    <3>1. y.slot = s
      BY <2>6, <1>3, <1>6, <1>9
    <3>2. Turnover(T) = Turnover(tick)
      BY <2>6, <1>1, TurnIs
    <3> QED
      BY <3>1, <3>2, <2>2, <2>3
  <2> QED
    BY <2>5, <2>6
<1> QED
  BY <1>5, <1>6, <1>7, <1>8, <1>9 DEF Moves

\* A cell that it lets go is of the minute wheel, and its time has come but for the rest.
LEMMA GoneExpiry ==
  ASSUME TypeInv, NEW x \in Gone
  PROVE  /\ Moves(x) /\ x \in Cells1 /\ Fits(x)
         /\ Mid(x) = T + x.rest /\ x.rest \in Nat /\ x.rest < kTimingMinute
<1>1. /\ tick \in Nat /\ T = tick + 1 /\ T \in Nat
  BY DEF TypeInv, T
<1>2. Fits(x) /\ x.slot \in Nat /\ x.rest \in Nat /\ x.wheel \in Wheels /\ x.entry \in Entries
  BY Cells1Is, FitsIs DEF Gone, Front
<1> DEFINE w == SlowWheel(T)
<1>3. w = IF T % kTimingMinute = 0 THEN "minute" ELSE "none"
  BY <1>1, SlowWheelIs
<1>4. x.wheel = w /\ x.slot = 0
  BY DEF Gone, Front
<1>5. T % kTimingMinute = 0 /\ x.wheel = "minute"
  BY <1>4, <1>2, <1>3 DEF Wheels
<1>6. Turnover(tick) = T
  BY <1>5, <1>1, TurnIs
<1>7. 0 * kTimingMinute = 0
  BY Constants
<1>8. Mid(x) = Turnover(tick) + 0 * kTimingMinute + x.rest
  BY <1>4, <1>5 DEF Mid, Expiry
<1>9. Mid(x) = T + x.rest
  BY <1>1, <1>2, <1>6, <1>7, <1>8
<1>10. x.rest \in 0 .. kTimingMinute - 1
  BY <1>2, <1>5 DEF Fits, Unit
<1>11. x.rest < kTimingMinute
  BY <1>10, Constants
<1> QED
  BY <1>2, <1>5, <1>9, <1>11 DEF Moves, Gone, Front

\* The minute wheel moves, or none: what was in a cell lets go when it would have, and
\* what the minute wheel lets go now goes on in the second wheel, unless nothing is left.
LEMMA SlowMoves ==
  ASSUME TypeInv, NEW x \in Cells1
  PROVE  /\ Moves(x) => \/ x \in Gone /\ Mid(x) = T
                        \/ \E c \in Cells2 : /\ c.entry = x.entry /\ Moves(c)
                                             /\ Expiry(c, T) = Mid(x)
         /\ ~Moves(x) => x \in Cells2
         /\ x \in Gone => Moves(x)
<1>1. T \in Nat /\ Fits(x) /\ x.entry \in Entries
  BY Cells1Is, FitsIs DEF TypeInv, T
<1>2. ASSUME x \in Gone, Mid(x) # T
      PROVE  \E c \in Cells2 : /\ c.entry = x.entry /\ Moves(c)
                               /\ Expiry(c, T) = Mid(x)
  <2>1. Mid(x) = T + x.rest /\ x.rest \in Nat /\ x.rest < kTimingMinute
    BY <1>2, GoneExpiry
  <2>2. x.rest # 0
    BY <1>1, <1>2, <2>1
  <2>3. Taken(x.rest)
    <3>1. x.rest < kTimingDay
      BY <2>1, Constants
    <3>2. x.rest \div kTimingDay = 0
      BY <3>1, <2>1, DivSmall, Constants
    <3> QED
      BY <3>2, Constants DEF Taken
  <2>4. PICK c \in Place(x.entry, x.rest) : TRUE
    BY <1>1, <2>1, <2>2, <2>3, PlaceIs
  <2>5. c.entry = x.entry /\ c.wheel = "second"
    BY <1>1, <2>1, PlaceIs
  <2>6. Expiry(c, T) = T + x.rest
    BY <1>1, <2>1, <2>5, PlaceExpiry DEF Moves
  <2>7. c \in Cells2
    BY <1>2 DEF Cells2, Cascade
  <2> QED
    BY <2>1, <2>5, <2>6, <2>7 DEF Moves
<1>3. CASE x \in Gone
  BY <1>2, <1>3, GoneExpiry
<1>4. CASE x \notin Gone
  <2> DEFINE y == Moved(x, SlowWheel(T))
  <2>1. /\ y \in Cells2 /\ y.entry = x.entry /\ y.wheel = x.wheel
        /\ Moves(x) => Expiry(y, T) = Mid(x)
        /\ ~Moves(x) => y = x
    BY <1>4, MovedExpiry
  <2> HIDE DEF y
  <2> QED
    BY <1>4, <2>1 DEF Moves
<1> QED
  BY <1>3, <1>4

\* And every cell that is there after that lets go when one from before would have.
LEMMA SlowMoved ==
  ASSUME TypeInv, NEW c \in Cells2, Moves(c)
  PROVE  \E x \in Cells1 : x.entry = c.entry /\ Moves(x) /\ Expiry(c, T) = Mid(x)
<1>1. CASE c \in PopUp(Cells1, SlowWheel(T))
  <2>1. PICK x \in Cells1 : /\ c = Moved(x, SlowWheel(T))
                            /\ ~(x.wheel = SlowWheel(T) /\ x.slot = 0)
    BY <1>1, PopUpIs
  <2>2. c.wheel = x.wheel /\ c.entry = x.entry /\ Fits(x)
    BY <2>1, MovedIs, Cells1Is
  <2>3. Moves(x) /\ x \notin Gone
    BY <2>1, <2>2 DEF Moves, Gone, Front
  <2>4. Expiry(c, T) = Mid(x)
    BY <2>1, <2>3, MovedExpiry
  <2> QED
    BY <2>2, <2>3, <2>4
<1>2. CASE c \in Cascade(Gone)
  <2>1. PICK x \in Gone : c \in Place(x.entry, x.rest)
    BY <1>2 DEF Cascade
  <2>2. x \in Cells1 /\ Fits(x)
    BY <2>1, Cells1Is DEF Gone, Front
  <2>3. x.entry \in Entries /\ x.rest \in Nat
    BY <2>2, FitsIs
  <2>4. Moves(x) /\ Mid(x) = T + x.rest /\ x.rest < kTimingMinute
    BY <2>2, GoneExpiry
  <2>5. c.entry = x.entry /\ c.wheel = "second"
    BY <2>1, <2>3, <2>4, PlaceIs
  <2>6. Expiry(c, T) = T + x.rest
    <3>1. T \in Nat
      BY DEF TypeInv, T
    <3> QED
      BY <3>1, <2>1, <2>3, <2>5, PlaceExpiry DEF Moves
  <2> QED
    BY <2>2, <2>4, <2>5, <2>6
<1> QED
  BY <1>1, <1>2 DEF Cells2

\* A call of RunAfter, RunEvery or ExtendLife keeps the cells in time.
LEMMA CallTime ==
  ASSUME TypeInv, TimeInv, ~halted, NEW e \in Entries, NEW d \in Nat, Taken(d),
         InsertEntry(e, d), tick' = tick
  PROVE  TimeInv'
<1> DEFINE M == kTimingMinute
<1>1. /\ tick \in Nat /\ M \in Nat \ {0}
      /\ \A y \in Entries : deadline[y] \in Nat
      /\ \A c \in cells : Fits(c)
  BY Constants DEF TypeInv
<1>2. cells' = cells \cup Place(e, d)
  BY DEF InsertEntry
<1>3. /\ \A y \in Entries \ {e} : deadline'[y] = deadline[y]
      /\ deadline'[e] = tick + d \/ (Armed(e) /\ deadline'[e] = deadline[e])
      /\ Armed(e) => deadline[e] <= deadline'[e]
      /\ tick + d <= deadline'[e]
      /\ deadline'[e] \in Nat
  <2>1. deadline' = [deadline EXCEPT ![e] = IF Armed(e) THEN Later(deadline[e], tick + d)
                                                        ELSE tick + d]
    BY DEF InsertEntry
  <2>2. deadline \in [Entries -> Nat]
    BY DEF TypeInv
  <2>3. /\ \A y \in Entries \ {e} : deadline'[y] = deadline[y]
        /\ deadline'[e] = IF Armed(e) THEN Later(deadline[e], tick + d) ELSE tick + d
    BY <2>1, <2>2
  <2> QED
    BY <2>3, <1>1 DEF Later
<1>4. \A c \in Place(e, d) : /\ c.entry = e /\ Fits(c)
                             /\ Moves(c) => tick + d + 1 <= Expiry(c, tick) + M
                                            /\ Expiry(c, tick) <= tick + d
                                            /\ Expiry(c, tick) \in Int
  BY <1>1, PlaceIs, PlaceExpiry, ExpiryIs
<1>5. \A c \in cells : Expiry(c, tick) \in Int /\ tick + 1 <= Expiry(c, tick)
  BY <1>1, ExpiryIs
<1>6. \A c \in cells : c.entry \in Entries /\ Armed(c.entry)
  BY <1>1, FitsIs DEF Armed, Holds
<1>7. ASSUME NEW c \in cells', Moves(c)
      PROVE  Expiry(c, tick) <= deadline'[c.entry]
  <2>1. CASE c \in cells
    <3>1. Expiry(c, tick) <= deadline[c.entry]
      BY <1>7, <2>1 DEF TimeInv
    <3>2. deadline[c.entry] \in Nat /\ deadline'[c.entry] \in Nat
          /\ deadline[c.entry] <= deadline'[c.entry]
      BY <2>1, <1>1, <1>3, <1>6
    <3> QED
      BY <2>1, <3>1, <3>2, <1>5
  <2>2. CASE c \in Place(e, d)
    BY <2>2, <1>1, <1>3, <1>4, <1>7
  <2> QED
    BY <2>1, <2>2, <1>2
<1>8. ASSUME NEW y \in Entries, Armed(y)', ~Stuck(y)'
      PROVE  \E c \in cells' : c.entry = y /\ deadline'[y] <= Expiry(c, tick) + M
  <2>1. ~Stuck(y)
    BY <1>2, <1>8 DEF Stuck
  <2>2. Armed(y) => \E c \in cells : c.entry = y /\ deadline[y] <= Expiry(c, tick) + M
    BY <2>1 DEF TimeInv
  <2>3. CASE y # e
    <3>1. Armed(y)
      BY <2>3, <1>2, <1>4, <1>8 DEF Armed, Holds
    <3> QED
      BY <2>2, <2>3, <3>1, <1>2, <1>3
  <2>4. CASE y = e /\ d # 0
    <3>1. PICK c \in Place(e, d) : c.entry = e /\ Fits(c)
      BY <2>4, PlaceIs
    <3>2. Moves(c)
      <4>1. c.wheel \in Wheels
        BY <3>1, FitsIs
      <4> QED
        BY <4>1, <3>1, <2>4, <1>2, <1>8 DEF Stuck, Moves, Wheels
    <3>3. tick + d <= Expiry(c, tick) + M /\ c \in cells'
      BY <3>2, <1>1, <1>2, <1>4
    <3>4. CASE deadline'[e] = tick + d
      BY <2>4, <3>1, <3>3, <3>4
    <3>5. CASE Armed(e) /\ deadline'[e] = deadline[e]
      BY <2>2, <2>4, <3>5, <1>2
    <3> QED
      BY <3>4, <3>5, <1>3
  <2>5. CASE y = e /\ d = 0
    <3>1. Armed(e)
      BY <2>5, <1>2, <1>8, PlaceIs DEF Armed, Holds
    <3>2. PICK c \in cells : c.entry = e /\ deadline[e] <= Expiry(c, tick) + M
      BY <2>2, <2>5, <3>1
    <3>3. deadline'[e] <= Expiry(c, tick) + M
      BY <2>5, <3>2, <1>1, <1>3, <1>5
    <3> QED
      BY <2>5, <3>2, <3>3, <1>2
  <2> QED
    BY <2>3, <2>4, <2>5
<1>9. ASSUME NEW f \in fired'
      PROVE  tick <= f.due /\ f.due <= tick + M
  <2>1. f.due = tick + d /\ ~Holds(cells', e)
    BY <1>9, InsertIs
  <2>2. Place(e, d) = {}
    BY <2>1, <1>2, <1>4 DEF Holds
  <2>3. d = 0
    BY <2>2, PlaceIs
  <2> QED
    BY <2>1, <2>3, <1>1
<1> QED
  BY <1>7, <1>8, <1>9 DEF TimeInv

\* A tick keeps the cells in time, and runs what is due.
LEMMA TickTime ==
  ASSUME TypeInv, TimeInv, ~halted, Tick
  PROVE  TimeInv'
<1> DEFINE M == kTimingMinute
<1>1. /\ tick \in Nat /\ T \in Nat /\ M \in Nat \ {0} /\ tick' = T
      /\ cells' = Cells2 \cup Rearm(Ran2)
  BY Constants, TickIs DEF TypeInv, T
<1>2. /\ Ran1 \in SUBSET Entries /\ Ran2 \in SUBSET Entries
      /\ \A c \in Cells1 : Fits(c) /\ c.entry \in Entries
      /\ \A c \in Cells2 : Fits(c) /\ c.entry \in Entries /\ c.entry \notin Ran2
  BY Cells1Is, Cells2Is, FitsIs DEF Ran2, Entered
<1>3. \A e \in Entries : Due1[e] \in Nat
  <2>1. \A e \in Entries : deadline[e] \in Nat
    BY DEF TypeInv
  <2>2. \A e \in Entries : again[e] > 0 => T + again[e] \in Nat
    <3> SUFFICES ASSUME NEW e \in Entries, again[e] > 0
                 PROVE  T + again[e] \in Nat
      OBVIOUS
    <3>1. again[e] \in Intervals
      <4>1. again[e] \in {0} \cup Intervals
        BY DEF TypeInv
      <4>2. again[e] # 0
        OBVIOUS
      <4> QED
        BY <4>1, <4>2
    <3>2. again[e] \in Nat
      BY <3>1, Constants
    <3> QED
      BY <3>2, <1>1
  <2> QED
    BY <2>1, <2>2 DEF Due1
<1>4. /\ \A e \in Entries \ Ran2 : deadline'[e] = Due1[e]
      /\ \A e \in Ran2 : again[e] > 0 => deadline'[e] = T + again[e]
  BY <1>2, TickIs
<1>5. \A c \in Rearm(Ran2) : /\ c.entry \in Ran2
                             /\ Moves(c) => /\ Expiry(c, T) <= deadline'[c.entry]
                                            /\ deadline'[c.entry] <= Expiry(c, T) + M
  <2> SUFFICES ASSUME NEW c \in Rearm(Ran2)
               PROVE  /\ c.entry \in Ran2
                      /\ Moves(c) => /\ Expiry(c, T) <= deadline'[c.entry]
                                     /\ deadline'[c.entry] <= Expiry(c, T) + M
    OBVIOUS
  <2> DEFINE e == c.entry
             d == again[e]
  <2>1. e \in Ran2 /\ d > 0 /\ c \in Place(e, d) /\ d \in Intervals /\ Fits(c)
    BY <1>2, RearmIs
  <2>2. d \in Nat /\ e \in Entries
    BY <2>1, <1>2, Constants
  <2>3. deadline'[e] = T + d
    BY <2>1, <1>4
  <2> HIDE DEF d
  <2>4. Moves(c) => T + d + 1 <= Expiry(c, T) + M /\ Expiry(c, T) <= T + d
    BY <1>1, <2>1, <2>2, PlaceExpiry
  <2>5. Expiry(c, T) \in Int
    BY <1>1, <2>1, ExpiryIs
  <2> QED
    BY <1>1, <2>1, <2>2, <2>3, <2>4, <2>5
<1>6. ASSUME NEW c \in cells', Moves(c)
      PROVE  Expiry(c, T) <= deadline'[c.entry]
  <2>1. CASE c \in Cells2
    <3>1. PICK x \in Cells1 : x.entry = c.entry /\ Moves(x) /\ Expiry(c, T) = Mid(x)
      BY <1>6, <2>1, SlowMoved
    <3>2. Mid(x) <= Due1[x.entry]
      BY <3>1, MidTick
    <3> QED
      BY <2>1, <3>1, <3>2, <1>2, <1>4
  <2> QED
    BY <2>1, <1>1, <1>5, <1>6
<1>7. ASSUME NEW e \in Entries, \E x \in Cells1 : x.entry = e,
             \A c \in Cells2 : c.entry = e => Moves(c)
      PROVE  \E x \in Cells1 : /\ x.entry = e /\ Moves(x)
                               /\ Due1[e] <= Mid(x) + M
  <2>1. \A x \in Cells1 : x.entry = e => Moves(x)
    BY <1>7, SlowMoves
  <2> QED
    BY <1>7, <2>1, MidTick
<1>8. ASSUME NEW e \in Entries, Armed(e)', ~Stuck(e)'
      PROVE  \E c \in cells' : c.entry = e /\ deadline'[e] <= Expiry(c, T) + M
  <2>1. \A c \in cells' : c.entry = e => Moves(c)
    <3> SUFFICES ASSUME NEW c \in cells', c.entry = e
                 PROVE  Moves(c)
      OBVIOUS
    <3>1. c.wheel \in Wheels
      BY TickTypes, FitsIs
    <3> QED
      BY <3>1, <1>8 DEF Stuck, Moves, Wheels
  <2>2. PICK c \in cells' : c.entry = e
    BY <1>8 DEF Armed, Holds
  <2>3. CASE e \in Ran2
    <3>1. c \in Rearm(Ran2)
      BY <2>2, <2>3, <1>1, <1>2
    <3> QED
      BY <2>1, <2>2, <3>1, <1>5
  <2>4. CASE e \notin Ran2
    <3>1. c \in Cells2
      BY <2>2, <2>4, <1>1, <1>5
    <3>2. \E x \in Cells1 : x.entry = e
      BY <2>2, <3>1, Cells2Is
    <3>3. PICK x \in Cells1 : x.entry = e /\ Moves(x) /\ Due1[e] <= Mid(x) + M
      BY <3>2, <2>1, <1>1, <1>7
    <3>4. deadline'[e] = Due1[e]
      BY <2>4, <1>4
    <3>5. CASE x \in Gone /\ Mid(x) = T
      <4>1. Expiry(c, T) \in Int /\ T + 1 <= Expiry(c, T)
        BY <3>1, <1>1, <1>2, ExpiryIs
      <4>2. deadline'[e] <= Expiry(c, T) + M
        BY <4>1, <3>3, <3>4, <3>5, <1>1, <1>3
      <4> QED
        BY <2>2, <4>2
    <3>6. CASE \E y \in Cells2 : y.entry = e /\ Moves(y) /\ Expiry(y, T) = Mid(x)
      BY <3>3, <3>4, <3>6, <1>1
    <3> QED
      BY <3>3, <3>5, <3>6, SlowMoves
  <2> QED
    BY <2>3, <2>4
<1>9. ASSUME NEW e \in Ran2
      PROVE  T <= Due1[e] /\ Due1[e] <= T + M
  <2>1. \A c \in Cells2 : c.entry # e
    BY <1>9, <1>2
  <2>2. PICK z \in Cells1 : z.entry = e
    BY <1>9 DEF Ran2, Entered, Gone, Front
  <2>3. \A x \in Cells1 : x.entry = e => Moves(x) /\ Mid(x) = T
    BY <2>1, SlowMoves
  <2>4. PICK x \in Cells1 : x.entry = e /\ Moves(x) /\ Due1[e] <= Mid(x) + M
    BY <2>1, <2>2, <1>2, <1>7
  <2>5. Mid(z) <= Due1[e]
    BY <2>2, <2>3, MidTick
  <2> QED
    BY <2>2, <2>3, <2>4, <2>5
<1>10. ASSUME NEW f \in fired'
       PROVE  T <= f.due /\ f.due <= T + M
  <2>1. \/ \E e \in Ran1 : f = [entry |-> e, due |-> deadline[e]]
        \/ \E e \in Ran2 : f = [entry |-> e, due |-> Due1[e]]
    BY TickIs
  <2>2. CASE \E e \in Ran1 : f = [entry |-> e, due |-> deadline[e]]
    BY <2>2, MidTick
  <2>3. CASE \E e \in Ran2 : f = [entry |-> e, due |-> Due1[e]]
    BY <2>3, <1>9
  <2> QED
    BY <2>1, <2>2, <2>3
<1> QED
  BY <1>1, <1>6, <1>8, <1>10 DEF TimeInv

\* A timer that waits is not past its deadline, and a callback runs at its deadline or
\* at most kTimingMinute ticks before it, for wheels of all sizes and all delays that
\* InsertEntry takes: neither a cascade nor a turn of the wheels with a timer between
\* them makes one late (TimingWheel.cc:20-24, 85-97).
THEOREM NothingIsLate ==
  ASSUME \A d \in Delays : Taken(d)
  PROVE  LoopSpec => []NeverLate
<1>1. LoopInit => TimeInv
  BY DEF LoopInit, Init, TimeInv, Armed, Holds
<1>2. TypeInv /\ TimeInv /\ [LoopNext]_allVars => TimeInv'
  <2> SUFFICES ASSUME TypeInv, TimeInv, [LoopNext]_allVars
               PROVE  TimeInv'
    OBVIOUS
  <2>1. ASSUME NEW e \in Entries, NEW d \in Delays, ~halted, InsertEntry(e, d), tick' = tick
        PROVE  TimeInv'
    BY <2>1, CallTime, Constants
  <2>2. ASSUME NEW e \in Entries, NEW p \in Intervals, ~halted, InsertEntry(e, p), tick' = tick
        PROVE  TimeInv'
    BY <2>2, CallTime, Constants
  <2>3. ASSUME ~halted, Tick
        PROVE  TimeInv'
    BY <2>3, TickTime
  <2>4. ASSUME fired' = {}, UNCHANGED <<tick, cells, deadline, halted, again>>
        PROVE  TimeInv'
    BY <2>4 DEF TimeInv, Armed, Holds, Stuck
  <2>5. ASSUME UNCHANGED vars
        PROVE  TimeInv'
    BY <2>5 DEF vars, TimeInv, Armed, Holds, Stuck
  <2> QED
    BY <2>1, <2>2, <2>3, <2>4, <2>5, LoopStep, Zenon
<1>3. TypeInv /\ TimeInv => NeverLate
  <2> SUFFICES ASSUME TypeInv, TimeInv, ~halted, NEW e \in Entries, Armed(e), ~Stuck(e)
               PROVE  tick < deadline[e]
    BY DEF NeverLate, TimeInv
  <2>1. PICK c \in cells : c.entry = e
    BY DEF Armed, Holds
  <2>2. Fits(c) /\ c.wheel \in Wheels /\ tick \in Nat /\ deadline[e] \in Nat
    BY FitsIs DEF TypeInv
  <2>3. Moves(c)
    BY <2>1, <2>2 DEF Stuck, Moves, Wheels
  <2>4. Expiry(c, tick) <= deadline[e]
    BY <2>1, <2>3 DEF TimeInv
  <2>5. Expiry(c, tick) \in Int /\ tick + 1 <= Expiry(c, tick)
    BY <2>2, ExpiryIs
  <2> QED
    BY <2>2, <2>4, <2>5
<1>4. LoopSpec => []TypeInv
  BY TypesInit, TypesKept, PTL DEF LoopSpec
<1> QED
  BY <1>1, <1>2, <1>3, <1>4, PTL DEF LoopSpec

-----------------------------------------------------------------------------
(* Timers that are not early.                                               *)

\* The ticks that a delay promises, and the milliseconds until the next one, as far as
\* the clock of 16 bits can tell.
Steps(d) == Later(0, d - IF d < kTimingMinute THEN 1 ELSE kTimingMinute)
Elapsed == (clock - last_ts) % Values16
Left == Later(0, TickMs - Elapsed)

\* What OnTimer is handed.
Stamps == {NowMs(c) : c \in Bits16}

\* A timer does not owe more than what the ticks left to one of its cells still take.
Covers(c) == owed[c.entry] <= TickMs * (Expiry(c, tick) - tick - 1) + Left
EarlyInv ==
  /\ owed \in [Entries -> Nat]
  /\ last_ts \in Stamps
  /\ ~halted => \A e \in Entries : Armed(e) /\ ~Stuck(e) =>
                    \E c \in cells : c.entry = e /\ Covers(c)

\* Multiplication by the length of a tick keeps the order.
LEMMA MulMono ==
  ASSUME NEW m \in Nat, NEW a \in Int, NEW b \in Int, a <= b
  PROVE  m * a <= m * b
OBVIOUS

\* One tick less.
LEMMA MulLess ==
  ASSUME NEW m \in Nat, NEW a \in Int
  PROVE  m * a \in Int /\ m * (a - 1) = m * a - m
OBVIOUS

\* What is left of a tick is a number.
LEMMA LeftIs ==
  ASSUME TypeInv
  PROVE  Left \in Nat /\ TickMs \in Nat \ {0}
<1>1. TickMs \in Nat \ {0}
  BY DelayAssumption
<1>2. Elapsed \in Int
  <2>1. clock - last_ts \in Int
    <3>1. clock \in Int /\ last_ts \in Int
      BY ValuesIs DEF TypeInv, Bits16
    <3> QED
      BY <3>1
  <2> QED
    BY <2>1, ValuesIs DEF Elapsed
<1> QED
  BY <1>1, <1>2 DEF Left, Later

\* A delay promises no more than the ticks to the expiry of its cell.
LEMMA PromisedIs ==
  ASSUME NEW e \in Entries, NEW d \in Nat, NEW c \in Place(e, d), Moves(c), NEW k \in Nat
  PROVE  Steps(d) \in Nat /\ Steps(d) <= Expiry(c, k) - k - 1
<1>1. kTimingMinute \in Nat \ {0} /\ Fits(c) /\ d # 0
  BY Constants, PlaceIs
<1>2. Expiry(c, k) \in Int /\ k + 1 <= Expiry(c, k)
  BY <1>1, ExpiryIs
<1>3. d < kTimingMinute => Expiry(c, k) = k + d
  BY PlaceIs, PlaceExpiry
<1>4. k + d + 1 <= Expiry(c, k) + kTimingMinute
  BY PlaceExpiry
<1> QED
  BY <1>1, <1>2, <1>3, <1>4 DEF Steps, Later

\* In milliseconds.
LEMMA PromisedMs ==
  ASSUME NEW d \in Nat
  PROVE  Promised(d) = TickMs * Steps(d) /\ Promised(d) \in Nat /\ (d = 0 => Promised(d) = 0)
<1>1. TickMs \in Nat /\ kTimingMinute \in Nat \ {0}
  BY DelayAssumption, Constants
<1>2. Steps(d) \in Nat /\ (d = 0 => Steps(d) = 0)
  BY <1>1 DEF Steps, Later
<1>3. Promised(d) = TickMs * Steps(d)
  BY DEF Promised, Steps
<1>4. TickMs * Steps(d) \in Nat /\ TickMs * 0 = 0
  BY <1>1, <1>2
<1> QED
  BY <1>2, <1>3, <1>4

\* A call of RunAfter, RunEvery or ExtendLife.
LEMMA CallEarly ==
  ASSUME TypeInv, EarlyInv, ~halted, NEW e \in Entries, NEW d \in Nat, Taken(d),
         InsertEntry(e, d), tick' = tick, Left' = Left, last_ts' = last_ts,
         owed' \in [Entries -> Nat],
         \A y \in Entries \ {e} : owed'[y] = owed[y],
         owed'[e] = Promised(d) \/ (Armed(e) /\ owed'[e] = owed[e])
  PROVE  EarlyInv'
<1>1. tick \in Nat /\ Left \in Nat /\ TickMs \in Nat /\ \A c \in cells : Fits(c)
  BY LeftIs DEF TypeInv
<1>2. cells' = cells \cup Place(e, d)
  BY DEF InsertEntry
<1>3. \A c \in Place(e, d) : c.entry = e /\ Fits(c)
  BY PlaceIs
<1>4. ASSUME NEW y \in Entries, Armed(y)', ~Stuck(y)'
      PROVE  \E c \in cells' : c.entry = y /\ owed'[y] <= TickMs * (Expiry(c, tick) - tick - 1) + Left
  <2>1. ~Stuck(y)
    BY <1>2, <1>4 DEF Stuck
  <2>2. Armed(y) => \E c \in cells : c.entry = y
                                     /\ owed[y] <= TickMs * (Expiry(c, tick) - tick - 1) + Left
    BY <2>1 DEF EarlyInv, Covers
  <2>3. CASE y # e
    <3>1. Armed(y)
      BY <2>3, <1>2, <1>3, <1>4 DEF Armed, Holds
    <3> QED
      BY <2>2, <2>3, <3>1, <1>2
  <2>4. CASE y = e /\ Armed(e) /\ owed'[e] = owed[e]
    BY <2>2, <2>4, <1>2
  <2>5. CASE y = e /\ owed'[e] = Promised(d) /\ d # 0
    <3>1. PICK c \in Place(e, d) : c.entry = e /\ Fits(c)
      BY <2>5, PlaceIs
    <3>2. Moves(c)
      <4>1. c.wheel \in Wheels
        BY <3>1, FitsIs
      <4> QED
        BY <4>1, <3>1, <2>5, <1>2, <1>4 DEF Stuck, Moves, Wheels
    <3>3. Steps(d) \in Nat /\ Steps(d) <= Expiry(c, tick) - tick - 1
      BY <3>2, <1>1, PromisedIs
    <3>4. Expiry(c, tick) - tick - 1 \in Int
      <4>1. Expiry(c, tick) \in Int
        BY <3>1, <1>1, ExpiryIs
      <4> QED
        BY <4>1, <1>1
    <3>5. TickMs * Steps(d) <= TickMs * (Expiry(c, tick) - tick - 1)
      BY <3>3, <3>4, <1>1, MulMono
    <3>6. TickMs * Steps(d) \in Int /\ TickMs * (Expiry(c, tick) - tick - 1) \in Int
      BY <3>3, <3>4, <1>1
    <3>7. owed'[y] <= TickMs * (Expiry(c, tick) - tick - 1) + Left
      BY <3>5, <3>6, <2>5, <1>1, PromisedMs
    <3> QED
      BY <3>1, <3>7, <2>5, <1>2
  <2>6. CASE y = e /\ owed'[e] = Promised(d) /\ d = 0
    <3>1. PICK c \in cells : c.entry = e
      BY <2>6, <1>2, <1>4, PlaceIs DEF Armed, Holds
    <3>2. Expiry(c, tick) \in Int /\ 0 <= Expiry(c, tick) - tick - 1
      <4>1. Expiry(c, tick) \in Int /\ tick + 1 <= Expiry(c, tick)
        BY <1>1, ExpiryIs
      <4> QED
        BY <4>1, <1>1
    <3>3. Expiry(c, tick) - tick - 1 \in Nat
      BY <3>2, <1>1
    <3>4. TickMs * (Expiry(c, tick) - tick - 1) \in Nat
      BY <3>3, <1>1
    <3>5. owed'[y] <= TickMs * (Expiry(c, tick) - tick - 1) + Left
      BY <3>4, <2>6, <1>1, PromisedMs
    <3> QED
      BY <3>1, <3>5, <2>6, <1>2
  <2> QED
    BY <2>3, <2>4, <2>5, <2>6
<1>5. last_ts' \in Stamps
  BY DEF EarlyInv
<1>6. \A y \in Entries : Armed(y)' /\ ~Stuck(y)' => \E c \in cells' : c.entry = y /\ Covers(c)'
  BY <1>4 DEF Covers
<1> QED
  BY <1>5, <1>6 DEF EarlyInv

\* A turn without a tick.
LEMMA IdleEarly ==
  ASSUME TypeInv, EarlyInv, UNCHANGED <<tick, cells, halted>>, NEW gap \in Nat,
         Left' \in Nat, Left <= Left' + gap, last_ts' \in Stamps,
         owed' \in [Entries -> Nat],
         \A e \in Entries : owed'[e] = Later(0, owed[e] - gap)
  PROVE  EarlyInv'
<1>1. tick \in Nat /\ Left \in Nat /\ TickMs \in Nat /\ \A c \in cells : Fits(c)
  BY LeftIs DEF TypeInv
<1>2. ASSUME NEW e \in Entries, NEW c \in cells, c.entry = e, Covers(c)
      PROVE  owed'[e] <= TickMs * (Expiry(c, tick) - tick - 1) + Left'
  <2>1. Expiry(c, tick) - tick - 1 \in Nat
    <3>1. Expiry(c, tick) \in Int /\ tick + 1 <= Expiry(c, tick)
      BY <1>1, ExpiryIs
    <3> QED
      BY <3>1, <1>1
  <2> DEFINE b == TickMs * (Expiry(c, tick) - tick - 1)
  <2>2. b \in Nat
    BY <2>1, <1>1
  <2>3. owed[e] <= b + Left
    BY <1>2 DEF Covers
  <2>4. owed[e] \in Nat /\ owed'[e] = Later(0, owed[e] - gap)
    BY DEF EarlyInv
  <2> HIDE DEF b
  <2>5. owed[e] - gap <= b + Left' /\ 0 <= b + Left'
    <3>1. PICK l \in Nat : l = Left' /\ Left <= l + gap
      OBVIOUS
    <3>2. PICK r \in Nat : r = Left /\ r <= l + gap
      BY <3>1, <1>1
    <3>3. PICK o \in Nat : o = owed[e] /\ o <= b + r
      BY <2>3, <2>4, <3>2
    <3>4. o - gap <= b + l /\ 0 <= b + l
      BY <2>2, <3>2, <3>3
    <3> QED
      BY <3>1, <3>3, <3>4
  <2>6. owed'[e] <= b + Left'
    BY <2>4, <2>5, Zenon DEF Later
  <2> QED
    BY <2>6 DEF b
<1>3. ASSUME ~halted
      PROVE  \A e \in Entries : Armed(e)' /\ ~Stuck(e)' =>
                 \E c \in cells' : c.entry = e /\ Covers(c)'
  <2> SUFFICES ASSUME NEW e \in Entries, Armed(e)', ~Stuck(e)'
               PROVE  \E c \in cells' : c.entry = e /\ Covers(c)'
    OBVIOUS
  <2>1. Armed(e) /\ ~Stuck(e)
    BY DEF Armed, Stuck
  <2>2. PICK c \in cells : c.entry = e /\ Covers(c)
    BY <1>3, <2>1 DEF EarlyInv
  <2>3. owed'[e] <= TickMs * (Expiry(c, tick) - tick - 1) + Left'
    BY <2>2, <1>2
  <2> QED
    BY <2>2, <2>3 DEF Covers
<1> QED
  BY <1>3 DEF EarlyInv

\* In the middle of a tick no cell of a timer is behind it.
LEMMA MidIs ==
  ASSUME TypeInv, NEW c \in Cells1
  PROVE  Mid(c) \in Int /\ T \in Nat /\ tick \in Nat /\ T = tick + 1 /\ T <= Mid(c)
<1>1. tick \in Nat /\ T = tick + 1 /\ T \in Nat /\ Fits(c)
  BY Cells1Is DEF TypeInv, T
<1>2. Expiry(c, T) \in Int /\ T + 1 <= Expiry(c, T)
  BY <1>1, ExpiryIs
<1>3. Expiry(c, tick) \in Int /\ tick + 1 <= Expiry(c, tick)
  BY <1>1, ExpiryIs
<1> QED
  BY <1>1, <1>2, <1>3 DEF Mid

\* A timer runs when the time of all its cells has come.
LEMMA FiredIsDue ==
  ASSUME TypeInv, NEW e \in Ran1 \cup Ran2
  PROVE  /\ e \in Entries /\ Armed(e)
         /\ \A x \in cells : x.entry = e => Moves(x) /\ Expiry(x, tick) = T
<1>1. e \in Entries /\ tick \in Nat /\ T = tick + 1
  BY Cells1Is, Cells2Is DEF TypeInv, T
<1>2. \A x \in cells : x.wheel = "second" /\ x.slot = 0 => Moves(x) /\ Expiry(x, tick) = T
  BY <1>1 DEF Expiry, Moves
<1>3. CASE e \in Ran1
  <2>1. \A x \in cells : x.entry = e => x.wheel = "second" /\ x.slot = 0
    BY SecondMoves, Cells1Is, <1>3 DEF Ran1, Entered
  <2>2. \E x \in cells : x.entry = e
    BY <1>3 DEF Ran1, Entered, Front
  <2> QED
    BY <2>1, <2>2, <1>1, <1>2 DEF Armed, Holds
<1>4. CASE e \in Ran2 /\ e \notin Ran1
  <2>1. \A c \in Cells2 : c.entry # e
    BY <1>4 DEF Ran2, Entered
  <2>2. \A y \in Cells1 : y.entry = e => Moves(y) /\ Mid(y) = T
    BY <2>1, SlowMoves
  <2>3. ASSUME NEW x \in cells, x.entry = e
        PROVE  Moves(x) /\ Expiry(x, tick) = T
    <3>1. CASE x.wheel = "second" /\ x.slot = 0
      BY <3>1, <1>2
    <3>2. CASE ~(x.wheel = "second" /\ x.slot = 0)
      <4> DEFINE y == Moved(x, "second")
      <4>1. /\ y \in Cells1 /\ y.entry = e /\ y.wheel = x.wheel
            /\ Moves(x) => Mid(y) = Expiry(x, tick)
        BY <3>2, <2>3, SecondMoves
      <4> HIDE DEF y
      <4>2. Moves(y) /\ Mid(y) = T
        BY <4>1, <2>2
      <4> QED
        BY <4>1, <4>2 DEF Moves
    <3> QED
      BY <3>1, <3>2
  <2>4. PICK y \in Cells1 : y.entry = e
    BY <1>4 DEF Ran2, Entered, Gone, Front
  <2>5. y \in Second
    <3>1. Ran1 \in SUBSET Entries
      BY Cells1Is
    <3> QED
      BY <3>1, <2>4, <1>4, RearmIs DEF Cells1
  <2>6. \E x \in cells : x.entry = e
    BY <2>4, <2>5, Cells1Is
  <2> QED
    BY <1>1, <2>3, <2>6 DEF Armed, Holds
<1> QED
  BY <1>3, <1>4

\* It then owes no more than what was left until this tick.
LEMMA FiredOwes ==
  ASSUME TypeInv, EarlyInv, ~halted, NEW e \in Ran1 \cup Ran2
  PROVE  owed[e] <= Left
<1>1. e \in Entries /\ Armed(e) /\ \A x \in cells : x.entry = e => Moves(x) /\ Expiry(x, tick) = T
  BY FiredIsDue
<1>2. ~Stuck(e)
  BY <1>1 DEF Stuck, Moves
<1>3. PICK c \in cells : c.entry = e /\ Covers(c)
  BY <1>1, <1>2 DEF EarlyInv
<1>4. Expiry(c, tick) - tick - 1 = 0
  <2>1. tick \in Nat /\ T = tick + 1
    BY DEF TypeInv, T
  <2> QED
    BY <2>1, <1>1, <1>3
<1>5. TickMs * 0 = 0 /\ Left \in Nat
  BY LeftIs
<1>6. owed[e] <= TickMs * 0 + Left
  BY <1>3, <1>4 DEF Covers
<1> QED
  BY <1>5, <1>6

\* What owed becomes with a turn of the loop that ticks.
Paid(gap) ==
  /\ owed' \in [Entries -> Nat]
  /\ \A e \in Entries :
        /\ e \in Ran1 \cup Ran2 /\ again[e] > 0 => owed'[e] = Promised(again[e])
        /\ ~(e \in Ran1 \cup Ran2 /\ again[e] > 0) => owed'[e] = Later(0, owed[e] - gap)

\* The interval of a RunEvery timer that runs.
LEMMA IntervalIs ==
  ASSUME TypeInv, NEW e \in Entries, again[e] > 0
  PROVE  again[e] \in Intervals /\ again[e] \in Nat
<1>1. again[e] \in {0} \cup Intervals /\ again[e] # 0
  BY DEF TypeInv
<1> QED
  BY <1>1, Constants

\* In the middle of a tick, a timer that does not run now owes less than one of its
\* cells still takes.
LEMMA MidCovers ==
  ASSUME TypeInv, EarlyInv, ~halted, NEW gap \in Nat, Left <= gap, Paid(gap),
         NEW e \in Entries, e \notin Ran2, \E x \in Cells1 : x.entry = e,
         \A x \in Cells1 : x.entry = e => Moves(x)
  PROVE  \E x \in Cells1 : x.entry = e /\ owed'[e] <= TickMs * (Mid(x) - T)
<1>0. TickMs \in Nat /\ Left \in Nat /\ Ran1 \in SUBSET Entries
  BY LeftIs, Cells1Is
<1>1. CASE e \in Ran1
  <2>1. PICK x \in Cells1 : x.entry = e
    OBVIOUS
  <2>2. x \in Rearm(Ran1)
    BY <1>1, <2>1 DEF Cells1, Ran1, Entered
  <2> DEFINE d == again[e]
  <2>3. d > 0 /\ x \in Place(e, d) /\ d \in Intervals
    BY <2>1, <2>2, <1>0, RearmIs
  <2>4. d \in Nat
    BY <2>3, Constants
  <2>5. Moves(x) /\ Mid(x) \in Int /\ T \in Nat /\ tick \in Nat /\ T = tick + 1
    BY <2>1, MidIs
  <2>6. owed'[e] = Promised(d)
    BY <1>1, <2>3 DEF Paid
  <2> HIDE DEF d
  <2>7. /\ Steps(d) \in Nat /\ Steps(d) <= Expiry(x, tick) - tick - 1
        /\ Steps(d) <= Expiry(x, T) - T - 1
    BY <2>3, <2>4, <2>5, PromisedIs
  <2>8. Mid(x) - T \in Int /\ Steps(d) <= Mid(x) - T
    <3>1. Mid(x) = Expiry(x, T) \/ Mid(x) = Expiry(x, tick)
      BY DEF Mid
    <3> QED
      BY <3>1, <2>5, <2>7
  <2>9. TickMs * Steps(d) <= TickMs * (Mid(x) - T)
    BY <2>7, <2>8, <1>0, MulMono
  <2> QED
    BY <2>1, <2>4, <2>6, <2>9, PromisedMs
<1>2. CASE e \notin Ran1
  <2>1. PICK c \in Second : c.entry = e
    BY <1>2, <1>0, RearmIs DEF Cells1
  <2>2. PICK y \in cells : y.entry = e
    BY <2>1, Cells1Is
  <2>3. Armed(e)
    BY <2>2 DEF Armed, Holds
  <2>4. ~Stuck(e)
    <3> SUFFICES ASSUME NEW x \in cells, x.entry = e, x.wheel \in {"hour", "day"}
                 PROVE  FALSE
      BY DEF Stuck
    <3>1. Moved(x, "second") \in Cells1 /\ Moved(x, "second").entry = e
          /\ Moved(x, "second").wheel = x.wheel
      BY SecondMoves
    <3> QED
      BY <3>1 DEF Moves
  <2>5. PICK x \in cells : x.entry = e /\ Covers(x)
    BY <2>3, <2>4 DEF EarlyInv
  <2>6. owed'[e] = Later(0, owed[e] - gap) /\ owed[e] \in Nat
    BY <1>2 DEF Paid, EarlyInv
  <2>7. tick \in Nat /\ T = tick + 1 /\ Fits(x)
    BY DEF TypeInv, T
  <2>8. Expiry(x, tick) \in Int /\ tick + 1 <= Expiry(x, tick)
    BY <2>7, ExpiryIs
  <2> DEFINE b == TickMs * (Expiry(x, tick) - tick - 1)
  <2>9. b \in Nat
    <3>1. Expiry(x, tick) - tick - 1 \in Nat
      BY <2>7, <2>8
    <3> QED
      BY <3>1, <1>0
  <2>10. owed[e] <= b + Left
    BY <2>5 DEF Covers
  <2> HIDE DEF b
  <2>11. owed[e] - gap <= b
    BY <2>6, <2>9, <2>10, <1>0
  <2>12. owed'[e] <= b
    BY <2>6, <2>9, <2>11 DEF Later
  <2>13. CASE x.wheel = "second" /\ x.slot = 0
    <3>1. Expiry(x, tick) - tick - 1 = 0
      BY <2>13, <2>7 DEF Expiry
    <3>2. b = 0
      <4>1. b = TickMs * 0
        BY <3>1, Zenon DEF b
      <4> QED
        BY <4>1, <1>0
    <3>3. c \in Cells1 /\ Mid(c) - T \in Nat
      BY <2>1, MidIs DEF Cells1
    <3>4. TickMs * (Mid(c) - T) \in Nat
      BY <3>3, <1>0
    <3>5. owed'[e] <= TickMs * (Mid(c) - T)
      BY <3>2, <3>4, <2>6, <2>12 DEF Later
    <3> QED
      BY <2>1, <3>3, <3>5
  <2>14. CASE ~(x.wheel = "second" /\ x.slot = 0)
    <3>1. Moves(x)
      <4>1. x.wheel \in Wheels
        BY <2>7, FitsIs
      <4> QED
        BY <4>1, <2>4, <2>5 DEF Stuck, Moves, Wheels
    <3>2. PICK z \in Cells1 : z.entry = e /\ Mid(z) = Expiry(x, tick)
      BY <2>5, <2>14, <3>1, SecondMoves
    <3>3. Mid(z) - T = Expiry(x, tick) - tick - 1
      BY <3>2, <2>7, <2>8
    <3> QED
      BY <3>2, <3>3, <2>12 DEF b
  <2> QED
    BY <2>13, <2>14
<1> QED
  BY <1>1, <1>2

\* A turn of the loop that ticks.
LEMMA TickEarly ==
  ASSUME TypeInv, EarlyInv, ~halted, Tick, NEW gap \in Nat, Left <= gap, Paid(gap),
         Left' \in Nat, TickMs <= Left', last_ts' \in Stamps
  PROVE  EarlyInv'
<1>1. /\ tick \in Nat /\ T \in Nat /\ T = tick + 1 /\ TickMs \in Nat /\ tick' = T
      /\ cells' = Cells2 \cup Rearm(Ran2)
  BY LeftIs, TickIs DEF TypeInv, T
<1>2. /\ Ran2 \in SUBSET Entries
      /\ \A c \in Cells2 : Fits(c) /\ c.entry \notin Ran2
  BY Cells2Is DEF Ran2, Entered
<1>3. ASSUME NEW c \in cells'
      PROVE  Expiry(c, T) \in Int /\ T + 1 <= Expiry(c, T) /\ Expiry(c, T) - T - 1 \in Nat
             /\ TickMs * (Expiry(c, T) - T - 1) \in Nat
  <2>1. Fits(c)
    BY TickTypes
  <2>2. Expiry(c, T) \in Int /\ T + 1 <= Expiry(c, T)
    BY <2>1, <1>1, ExpiryIs
  <2>3. Expiry(c, T) - T - 1 \in Nat
    BY <2>2, <1>1
  <2> QED
    BY <2>2, <2>3, <1>1
<1>4. ASSUME NEW e \in Entries, Armed(e)', ~Stuck(e)'
      PROVE  \E c \in cells' : /\ c.entry = e
                               /\ owed'[e] <= TickMs * (Expiry(c, T) - T - 1) + TickMs
  <2>1. \A c \in cells' : c.entry = e => Moves(c)
    <3> SUFFICES ASSUME NEW c \in cells', c.entry = e
                 PROVE  Moves(c)
      OBVIOUS
    <3>1. c.wheel \in Wheels
      BY TickTypes, FitsIs
    <3> QED
      BY <3>1, <1>4 DEF Stuck, Moves, Wheels
  <2>2. PICK c \in cells' : c.entry = e
    BY <1>4 DEF Armed, Holds
  <2>3. CASE e \in Ran2
    <3>1. c \in Rearm(Ran2)
      BY <2>2, <2>3, <1>1, <1>2
    <3> DEFINE d == again[e]
    <3>2. d > 0 /\ c \in Place(e, d) /\ d \in Intervals
      BY <2>2, <3>1, <1>2, RearmIs
    <3>3. d \in Nat /\ owed'[e] = Promised(d)
      BY <3>2, <2>3, Constants DEF Paid
    <3> HIDE DEF d
    <3>4. Steps(d) \in Nat /\ Steps(d) <= Expiry(c, T) - T - 1
      BY <2>1, <2>2, <3>2, <3>3, <1>1, PromisedIs
    <3>5. TickMs * Steps(d) <= TickMs * (Expiry(c, T) - T - 1)
      BY <3>4, <1>1, <1>3, MulMono
    <3>6. TickMs * Steps(d) \in Nat
      BY <3>4, <1>1
    <3>7. Promised(d) = TickMs * Steps(d)
      BY <3>3, PromisedMs
    <3> QED
      BY <2>2, <3>3, <3>5, <3>6, <3>7, <1>1, <1>3
  <2>4. CASE e \notin Ran2
    <3>1. c \in Cells2
      BY <2>2, <2>4, <1>1, <1>2, RearmIs
    <3>2. \E x \in Cells1 : x.entry = e
      BY <2>2, <3>1, Cells2Is
    <3>3. \A x \in Cells1 : x.entry = e => Moves(x)
      BY <2>1, <1>1, SlowMoves
    <3>4. PICK x \in Cells1 : x.entry = e /\ owed'[e] <= TickMs * (Mid(x) - T)
      BY <3>2, <3>3, <2>4, MidCovers
    <3>5. owed'[e] \in Nat
      BY DEF Paid
    <3>6. CASE x \in Gone /\ Mid(x) = T
      <4>1. Mid(x) - T = 0 /\ TickMs * 0 = 0
        BY <3>6, <1>1
      <4>2. owed'[e] <= 0
        BY <3>4, <4>1
      <4>3. owed'[e] <= TickMs * (Expiry(c, T) - T - 1) + TickMs
        BY <4>2, <3>5, <1>1, <1>3
      <4> QED
        BY <2>2, <4>3
    <3>7. CASE \E y \in Cells2 : y.entry = e /\ Moves(y) /\ Expiry(y, T) = Mid(x)
      <4>1. PICK y \in Cells2 : y.entry = e /\ Expiry(y, T) = Mid(x)
        BY <3>7
      <4>2. y \in cells' /\ Expiry(y, T) - T \in Int
        BY <4>1, <1>1, <1>3
      <4>3. TickMs * ((Expiry(y, T) - T) - 1) = TickMs * (Expiry(y, T) - T) - TickMs
            /\ TickMs * (Expiry(y, T) - T) \in Int
        BY <4>2, <1>1, MulLess
      <4>4. owed'[e] <= TickMs * (Expiry(y, T) - T)
        BY <3>4, <4>1
      <4>5. owed'[e] <= TickMs * ((Expiry(y, T) - T) - 1) + TickMs
        BY <4>3, <4>4, <3>5, <1>1
      <4> QED
        BY <4>1, <4>2, <4>5
    <3> QED
      BY <3>3, <3>4, <3>6, <3>7, SlowMoves
  <2> QED
    BY <2>3, <2>4
<1>5. ASSUME NEW e \in Entries, Armed(e)', ~Stuck(e)'
      PROVE  \E c \in cells' : c.entry = e /\ Covers(c)'
  <2>1. PICK c \in cells' : /\ c.entry = e
                            /\ owed'[e] <= TickMs * (Expiry(c, T) - T - 1) + TickMs
    BY <1>4, <1>5
  <2>2. TickMs * (Expiry(c, T) - T - 1) \in Nat /\ owed'[e] \in Nat
    BY <1>3 DEF Paid
  <2>3. PICK l \in Nat : l = Left' /\ TickMs <= l
    OBVIOUS
  <2>4. owed'[e] <= TickMs * (Expiry(c, T) - T - 1) + l
    BY <2>1, <2>2, <2>3, <1>1
  <2> QED
    BY <2>1, <2>3, <2>4, <1>1 DEF Covers
<1> QED
  BY <1>5 DEF EarlyInv, Paid

\* A number of 16 bits.
LEMMA BitsIs ==
  ASSUME NEW b \in Bits16
  PROVE  b \in Nat /\ b < 65536
BY DEF Bits16, Values16

\* A bound with the gap added is one still.
LEMMA AddGap ==
  ASSUME NEW x \in Nat, NEW y \in Nat, NEW gap \in Nat, x <= y
  PROVE  x <= y + gap
OBVIOUS

\* The arithmetic of the clock: the time that seems to have passed since l never goes
\* up by more than what has passed, and a difference of two readings is never more.
LEMMA ClockIs ==
  ASSUME NEW c \in Bits16, NEW l \in Stamps, NEW gap \in Nat, NEW n \in Bits16,
         n = (c + gap) % Values16
  PROVE  /\ (n - l) % Values16 \in Nat /\ (c - l) % Values16 \in Nat
         /\ (n - l) % Values16 <= ((c - l) % Values16) + gap
         /\ \A m \in Nat \ {0} : NowMs(n) - l >= m => ((c - l) % Values16) + gap >= m
         /\ (n - NowMs(n)) % Values16 = 0
         /\ NowMs(n) \in Stamps /\ NowMs(n) \in Int
<1>1. c \in Nat /\ c < 65536 /\ n \in Nat /\ n < 65536 /\ n = (c + gap) % 65536
  BY BitsIs DEF Values16
<1>2. l \in Int /\ 0 <= l + 32768 /\ l < 32768
  <2>1. PICK b \in Bits16 : l = NowMs(b)
    BY DEF Stamps
  <2>2. b \in Nat /\ b < 65536
    BY BitsIs
  <2>3. NowMs(b) = IF b < 32768 THEN b ELSE b - 65536
    BY DEF Values16, NowMs
  <2> QED
    BY <2>1, <2>2, <2>3
<1>3. NowMs(n) \in Int /\ (NowMs(n) = n \/ NowMs(n) = n - 65536) /\ NowMs(n) < 32768
  BY <1>1 DEF NowMs, Values16
<1>4. (n - l) % 65536 \in Nat /\ (c - l) % 65536 \in Nat
  BY <1>1, <1>2
<1>5. (n - l) % 65536 <= ((c - l) % 65536) + gap
  BY <1>1, <1>2
<1>6. ASSUME NEW m \in Nat \ {0}, NowMs(n) - l >= m
      PROVE  ((c - l) % 65536) + gap >= m
  <2>1. (n - l) % 65536 = NowMs(n) - l
    BY <1>1, <1>2, <1>3, <1>6
  <2> QED
    BY <1>3, <1>4, <1>5, <1>6, <2>1, <1>2
<1>7. (n - NowMs(n)) % 65536 = 0
  BY <1>1, <1>3
<1> QED
  BY <1>3, <1>4, <1>5, <1>6, <1>7 DEF Values16, Stamps

\* A turn ticks only when the time since the last tick, as far as the clock can tell, and
\* the gap make a tick.
LEMMA TurnClock ==
  ASSUME TypeInv, EarlyInv, NEW gap \in Nat, clock' \in Bits16,
         clock' = (clock + gap) % Values16, OnTimer(NowMs(clock'))
  PROVE  /\ last_ts' \in Stamps /\ Left' \in Nat
         /\ \/ Tick /\ Left <= gap /\ TickMs <= Left'
            \/ fired' = {} /\ UNCHANGED <<tick, cells, halted>> /\ Left <= Left' + gap
<1> DEFINE now == NowMs(clock')
<1>1. clock \in Bits16 /\ last_ts \in Stamps /\ TickMs \in Nat \ {0} /\ Left \in Nat
  BY LeftIs DEF TypeInv, EarlyInv
<1>2. PICK n \in Bits16 : n = clock' /\ n = (clock + gap) % Values16
  OBVIOUS
<1>3. /\ (n - last_ts) % Values16 \in Nat /\ Elapsed \in Nat
      /\ (n - last_ts) % Values16 <= Elapsed + gap
      /\ NowMs(n) - last_ts >= TickMs => Elapsed + gap >= TickMs
      /\ (n - NowMs(n)) % Values16 = 0
      /\ NowMs(n) \in Stamps /\ NowMs(n) \in Int
  BY <1>1, <1>2, ClockIs DEF Elapsed
<1>4. ASSUME last_ts' = last_ts
      PROVE  Left' \in Nat /\ Left <= Left' + gap
  <2>1. Left' = Later(0, TickMs - ((n - last_ts) % Values16))
    BY <1>2, <1>4, Zenon DEF Left, Elapsed
  <2>2. Left = Later(0, TickMs - Elapsed)
    BY DEF Left
  <2>3. PICK u \in Nat : u = (n - last_ts) % Values16 /\ u <= Elapsed + gap
    BY <1>3
  <2>4. Left' = Later(0, TickMs - u)
    BY <2>1, <2>3
  <2> QED
    BY <2>2, <2>3, <2>4, <1>1, <1>3 DEF Later
<1>5. ASSUME last_ts' = NowMs(n)
      PROVE  Left' \in Nat /\ TickMs <= Left'
  <2>1. Left' = Later(0, TickMs - ((n - NowMs(n)) % Values16))
    BY <1>2, <1>5, Zenon DEF Left, Elapsed
  <2>2. Left' = Later(0, TickMs - 0)
    BY <2>1, <1>3, Zenon
  <2> QED
    BY <2>2, <1>1 DEF Later
<1>6. ASSUME Elapsed + gap >= TickMs
      PROVE  Left <= gap
  BY <1>1, <1>3, <1>6 DEF Left, Later
<1>7. OnTimer(NowMs(n))
  BY <1>2
<1>8. CASE last_ts = 0
  <2>1. NowMs(n) - NowMs(n) < TickMs
    BY <1>1, <1>3
  <2>2. fired' = {} /\ UNCHANGED <<tick, cells, halted>> /\ last_ts' = NowMs(n)
    BY <1>7, <1>8, <2>1 DEF OnTimer
  <2>3. Left <= TickMs
    BY <1>1, <1>3 DEF Left, Later
  <2>4. PICK l \in Nat : l = Left' /\ TickMs <= l
    BY <2>2, <1>5
  <2>5. Left <= l + gap
    <3>1. Left <= l
      BY <2>3, <2>4, <1>1
    <3> QED
      BY <3>1, <2>4, <1>1, AddGap
  <2> QED
    BY <2>2, <2>4, <2>5, <1>3
<1>9. CASE last_ts # 0 /\ NowMs(n) - last_ts < TickMs
  <2>1. fired' = {} /\ UNCHANGED <<tick, cells, halted>> /\ last_ts' = last_ts
    BY <1>7, <1>9 DEF OnTimer
  <2> QED
    BY <2>1, <1>1, <1>4
<1>10. CASE last_ts # 0 /\ ~(NowMs(n) - last_ts < TickMs)
  <2>1. Tick /\ last_ts' = NowMs(n)
    BY <1>7, <1>10, Zenon DEF OnTimer
  <2>2. NowMs(n) - last_ts >= TickMs
    <3>1. last_ts \in Int
      BY DEF TypeInv
    <3> QED
      BY <3>1, <1>1, <1>3, <1>10
  <2> QED
    BY <2>1, <2>2, <1>3, <1>5, <1>6
<1> QED
  BY <1>8, <1>9, <1>10

\* A turn of the loop, and what it says of the timers that run.
LEMMA TurnEarly ==
  ASSUME TypeInv, EarlyInv, NEW gap \in Gaps, Turn(gap)
  PROVE  EarlyInv' /\ \A f \in fired' : owed[f.entry] <= gap
<1>1. gap \in Nat /\ clock' = (clock + gap) % Values16 /\ clock \in Bits16
      /\ OnTimer(NowMs(clock')) /\ ~halted /\ again' = again
  BY ClockAssumption DEF Turn, OnTimer, TypeInv
<1>2. clock' \in Bits16
  BY <1>1, ClockWraps
<1>3. /\ last_ts' \in Stamps /\ Left' \in Nat /\ Left \in Nat
      /\ \/ Tick /\ Left <= gap /\ TickMs <= Left'
         \/ fired' = {} /\ UNCHANGED <<tick, cells, halted>> /\ Left <= Left' + gap
  BY <1>1, <1>2, TurnClock, LeftIs
<1>4. owed' = [e \in Entries |->
                 IF e \in {f.entry : f \in fired'} /\ again[e] > 0 THEN Promised(again[e])
                 ELSE Later(0, owed[e] - gap)]
  BY DEF Turn
<1>5. \A e \in Entries : again[e] > 0 => Promised(again[e]) \in Nat
  BY IntervalIs, PromisedMs
<1>6. \A e \in Entries : Later(0, owed[e] - gap) \in Nat
  BY <1>1 DEF EarlyInv, Later
<1>7. owed' \in [Entries -> Nat]
  BY <1>4, <1>5, <1>6
<1>8. CASE Tick /\ Left <= gap /\ TickMs <= Left'
  <2>1. {f.entry : f \in fired'} = Ran1 \cup Ran2
    <3>1. \A x \in Ran1 : [entry |-> x, due |-> deadline[x]] \in fired'
      BY <1>8, TickIs
    <3>2. \A x \in Ran2 : [entry |-> x, due |-> Due1[x]] \in fired'
      BY <1>8, TickIs
    <3>3. \A x, d : [entry |-> x, due |-> d].entry = x
      OBVIOUS
    <3>4. \A f \in fired' : f.entry \in Ran1 \cup Ran2
      BY <1>8, TickIs
    <3> QED
      BY <3>1, <3>2, <3>3, <3>4, Zenon
  <2>2. Paid(gap)
    BY <2>1, <1>4, <1>7 DEF Paid
  <2>3. EarlyInv'
    BY <2>2, <1>1, <1>3, <1>8, TickEarly
  <2>4. \A e \in Ran1 \cup Ran2 : owed[e] <= Left /\ owed[e] \in Nat
    BY <1>1, FiredOwes, FiredIsDue DEF EarlyInv
  <2>5. \A f \in fired' : f.entry \in Ran1 \cup Ran2
    BY <2>1
  <2> QED
    BY <2>3, <2>4, <2>5, <1>1, <1>3, <1>8
<1>9. CASE fired' = {} /\ UNCHANGED <<tick, cells, halted>> /\ Left <= Left' + gap
  <2>1. \A e \in Entries : owed'[e] = Later(0, owed[e] - gap)
    BY <1>4, <1>9
  <2> QED
    BY <2>1, <1>1, <1>3, <1>7, <1>9, IdleEarly
<1> QED
  BY <1>3, <1>8, <1>9

\* A timer never runs before what its delay promises has passed in true time, wherever
\* the clock wraps and however long a turn takes: a tick needs TickMs since the last
\* one, less can only seem to have passed (TTime.cc:8-13, TimingWheel.cc:74-84).
THEOREM NothingIsEarly ==
  ASSUME \A d \in Delays : Taken(d)
  PROVE  LoopSpec => NeverEarly
<1>1. LoopInit => EarlyInv
  <2> SUFFICES ASSUME LoopInit PROVE EarlyInv
    OBVIOUS
  <2>1. owed \in [Entries -> Nat] /\ cells = {} /\ last_ts = 0
    BY DEF LoopInit, Init
  <2>2. 0 \in Stamps
    <3>1. 0 \in Bits16 /\ NowMs(0) = 0
      BY DEF Bits16, Values16, NowMs
    <3> QED
      BY <3>1 DEF Stamps
  <2> QED
    BY <2>1, <2>2 DEF EarlyInv, Armed, Holds
<1>2. TypeInv /\ EarlyInv /\ [LoopNext]_allVars => EarlyInv'
  <2> SUFFICES ASSUME TypeInv, EarlyInv, [LoopNext]_allVars
               PROVE  EarlyInv'
    OBVIOUS
  <2>1. ASSUME NEW e \in Entries, NEW d \in Delays, LoopRunAfter(e, d)
        PROVE  EarlyInv'
    <3>1. d \in Nat /\ Taken(d) /\ Promised(d) \in Nat
      BY Constants, PromisedMs
    <3>2. ~halted /\ InsertEntry(e, d) /\ UNCHANGED <<tick, last_ts, clock>>
      BY <2>1 DEF LoopRunAfter, RunAfter
    <3>3. owed' \in [Entries -> Nat] /\ owed'[e] = Promised(d)
          /\ \A y \in Entries \ {e} : owed'[y] = owed[y]
      BY <2>1, <3>1 DEF LoopRunAfter, EarlyInv
    <3>4. Left' = Left
      BY <3>2, Zenon DEF Left, Elapsed
    <3> QED
      BY <3>1, <3>2, <3>3, <3>4, CallEarly
  <2>2. ASSUME NEW e \in Entries, NEW d \in Delays, LoopExtendLife(e, d)
        PROVE  EarlyInv'
    <3>1. d \in Nat /\ Taken(d) /\ Promised(d) \in Nat
      BY Constants, PromisedMs
    <3>2. ~halted /\ InsertEntry(e, d) /\ Armed(e) /\ UNCHANGED <<tick, last_ts, clock>>
      BY <2>2 DEF LoopExtendLife, ExtendLife
    <3>3. Later(owed[e], Promised(d)) = owed[e] \/ Later(owed[e], Promised(d)) = Promised(d)
      BY DEF Later
    <3>4. /\ owed' \in [Entries -> Nat]
          /\ owed'[e] = Promised(d) \/ (Armed(e) /\ owed'[e] = owed[e])
          /\ \A y \in Entries \ {e} : owed'[y] = owed[y]
      <4>1. owed' = [owed EXCEPT ![e] = Later(owed[e], Promised(d))]
        BY <2>2 DEF LoopExtendLife
      <4>2. owed \in [Entries -> Nat]
        BY DEF EarlyInv
      <4> QED
        BY <4>1, <4>2, <3>1, <3>2, <3>3
    <3>5. Left' = Left
      BY <3>2, Zenon DEF Left, Elapsed
    <3> QED
      BY <3>1, <3>2, <3>4, <3>5, CallEarly
  <2>3. ASSUME NEW e \in Entries, NEW p \in Intervals, LoopRunEvery(e, p)
        PROVE  EarlyInv'
    <3>1. p \in Nat /\ Taken(p) /\ Promised(p) \in Nat
      BY Constants, PromisedMs
    <3>2. ~halted /\ InsertEntry(e, p) /\ UNCHANGED <<tick, last_ts, clock>>
      BY <2>3 DEF LoopRunEvery, RunEvery
    <3>3. owed' \in [Entries -> Nat] /\ owed'[e] = Promised(p)
          /\ \A y \in Entries \ {e} : owed'[y] = owed[y]
      BY <2>3, <3>1 DEF LoopRunEvery, EarlyInv
    <3>4. Left' = Left
      BY <3>2, Zenon DEF Left, Elapsed
    <3> QED
      BY <3>1, <3>2, <3>3, <3>4, CallEarly
  <2>4. ASSUME NEW gap \in Gaps, Turn(gap)
        PROVE  EarlyInv'
    BY <2>4, TurnEarly
  <2>5. ASSUME UNCHANGED allVars
        PROVE  EarlyInv'
    <3>1. UNCHANGED <<last_ts, tick, cells, halted, clock, owed>>
      BY <2>5 DEF allVars, vars
    <3>2. Left' = Left
      BY <3>1, Zenon DEF Left, Elapsed
    <3> QED
      BY <3>1, <3>2 DEF EarlyInv, Armed, Stuck, Covers
  <2> QED
    BY <2>1, <2>2, <2>3, <2>4, <2>5 DEF LoopNext
<1>3. TypeInv /\ EarlyInv /\ [LoopNext]_allVars =>
        [\A gap \in Gaps : Turn(gap) => \A f \in fired' : owed[f.entry] <= gap]_allVars
  BY TurnEarly
<1>4. LoopSpec => []TypeInv
  BY TypesInit, TypesKept, PTL DEF LoopSpec
<1> QED
  BY <1>1, <1>2, <1>3, <1>4, PTL DEF LoopSpec, NeverEarly
=============================================================================
