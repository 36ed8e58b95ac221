---------------------------- MODULE PropAreaProofs ----------------------------
(***************************************************************************)
(* wait_property loses no wake-up and reads what was last set, for every   *)
(* set of properties and values.                                           *)
(*                                                                         *)
(* NoLostWake is not inductive: it does not say why a thread that is about *)
(* to sleep has seen the area as it is.  IInv adds that what the reader    *)
(* has copied is still what the area holds, as long as the serial is the   *)
(* one it loaded and no set is under way.  A set that overlaps the copy    *)
(* stays under way until it has bumped the serial, so it never matters     *)
(* which of its stores the copy caught.                                    *)
(***************************************************************************)
EXTENDS PropArea, TLAPS

\* No set is under way, or it has only its wake left to do.
Quiet == wpc \in {"idle", "wake"}

\* The serial is the one that was loaded, and no set is on its way to it.
Current == expected = global /\ Quiet

Same(l) ==
    /\ l[1] = "link" => snap.link = link[Name]
    /\ l[1] = "serial" => snap.serial = serial[Name]
    /\ l[1] = "backup" => snap.backup = backup
    /\ l[1] = "cell" => snap.cells[l[2]] = cells[Name][l[2]]

IInv ==
    /\ TypeOK
    /\ wpc \in {"idle", "bump", "wake"} => todo = {}
    /\ expected <= global
    /\ rpc = "compare" => left = {}
    /\ rpc \in {"copy", "compare"} /\ Current =>
          \A l \in Place \ left : Same(l)
    /\ rpc \in {"wait", "sleep", "asleep"} /\ Current => Get(Memory) # Want
    /\ rpc = "asleep" => expected = global \/ wpc = "wake"

USE PropAreaAssumption

(* The places are what their names say, and a cell's index is one.          *)
LEMMA PlaceKinds ==
    ASSUME NEW l \in Place
    PROVE  /\ l[1] \in {"link", "serial", "backup", "cell"}
           /\ l[1] = "cell" => l[2] \in Cell
  BY DEF Place

(* Every value's stores are places of the area, its NUL included.           *)
LEMMA StoresFit ==
    ASSUME NEW v \in Value
    PROVE  ValueStores(v) \subseteq Place /\ Len(v) \in 0..Width
  BY DEF ValueStores, Place, Cell

(* A copy that agrees with the area place by place is the area.             *)
LEMMA SameAll ==
    ASSUME TypeOK, \A l \in Place : Same(l)
    PROVE  snap = Memory
  <1>1. snap.link = link[Name] /\ snap.serial = serial[Name]
        /\ snap.backup = backup
    <2>1. <<"link", 0>> \in Place /\ <<"serial", 0>> \in Place
          /\ <<"backup", 0>> \in Place
      BY DEF Place
    <2>2. Same(<<"link", 0>>) /\ Same(<<"serial", 0>>) /\ Same(<<"backup", 0>>)
      BY <2>1
    <2> QED BY <2>2 DEF Same
  <1>2. ASSUME NEW i \in Cell PROVE snap.cells[i] = cells[Name][i]
    <2>1. <<"cell", i>> \in Place BY DEF Place
    <2>2. Same(<<"cell", i>>) BY <2>1
    <2> QED BY <2>2 DEF Same
  <1>3. snap.cells = cells[Name] BY <1>2 DEF TypeOK, Cells
  <1> QED BY <1>1, <1>3 DEF TypeOK, Memory

(* The area starts with nothing copied and nothing under way.               *)
LEMMA InitInv == Init => IInv
  <1> SUFFICES ASSUME Init PROVE IInv OBVIOUS
  <1>1. Blank \in Cells BY DEF Blank, Cells
  <1>2. TypeOK BY <1>1 DEF Init, TypeOK, NoCopy, Serial, None
  <1> QED BY <1>2 DEF Init, IInv

(* Types are kept by every step.                                            *)
LEMMA TypeStep ==
    ASSUME IInv, [Next]_vars
    PROVE  TypeOK'
  <1> USE DEF TypeOK
  <1>t. TypeOK BY DEF IInv
  <1>1. ASSUME NEW p \in Prop, NEW v \in Value, PropertySet(p, v) PROVE TypeOK'
    <2>1. ValueStores(v) \subseteq Place BY StoresFit
    <2>2. <<"backup", 0>> \in Place BY DEF Place
    <2>3. todo' \subseteq Place BY <1>1, <2>1, <2>2 DEF PropertySet
    <2> QED BY <1>t, <1>1, <2>3 DEF PropertySet, area, reader
  <1>2. ASSUME NEW l \in todo, Store(l) PROVE TypeOK'
    <2>1. l \in Place BY <1>t
    <2>2. backup' \in Cells
      <3>1. \A i \in Cell : cells[name][i] \in Nat /\ backup[i] \in Nat
        BY <1>t DEF Cells
      <3> QED BY <1>t, <1>2, <3>1 DEF Store, Cells
    <2>3. cells' \in [Prop -> Cells]
      <3>1. CASE l[1] = "cell"
        <4>1. l[2] \in Cell BY <2>1, <3>1, PlaceKinds
        <4>2. Padded(value)[l[2]] \in Nat
          <5>1. CASE value = None
            <6>1. Len(value) = 0 BY <5>1 DEF None
            <6>2. ~(l[2] <= Len(value)) BY <4>1, <6>1 DEF Cell
            <6> QED BY <4>1, <6>2 DEF Padded
          <5>2. CASE value \in Value
            <6>1. value \in Seq(Nat \ {0}) BY <5>2
            <6>2. \A i \in 1..Len(value) : value[i] \in Nat BY <6>1
            <6> QED BY <4>1, <6>1, <6>2 DEF Padded, Cell
          <5> QED BY <1>t, <5>1, <5>2
        <4> QED BY <1>t, <1>2, <3>1, <4>1, <4>2 DEF Store, Cells
      <3>2. CASE l[1] # "cell" BY <1>t, <1>2, <3>2 DEF Store
      <3> QED BY <3>1, <3>2
    <2>4. serial' \in [Prop -> Serial]
      <3>1. Len(value) \in 0..Width BY <1>t, StoresFit DEF None
      <3> QED BY <1>t, <1>2, <3>1 DEF Store, Serial
    <2> QED BY <1>t, <1>2, <2>2, <2>3, <2>4 DEF Store, reader
  <1>3. CASE BackedUp
    <2>1. value \in Value => ValueStores(value) \subseteq Place BY StoresFit
    <2>2. ValueStores(None) \subseteq Place
      <3>1. Width > 1 OBVIOUS
      <3>2. Len(None) + 1 = 1 BY DEF None
      <3>3. 1 \in Cell BY <3>1 DEF Cell
      <3>4. ASSUME NEW l \in ValueStores(None) PROVE l \in Place
        <4>1. l = <<"serial", 0>> \/ \E i \in 1..1 : l = <<"cell", i>>
          BY <3>2, <3>4 DEF ValueStores
        <4>2. l = <<"serial", 0>> \/ l = <<"cell", 1>> BY <4>1
        <4> QED BY <3>3, <4>2 DEF Place
      <3> QED BY <3>4
    <2> QED BY <1>t, <1>3, <2>1, <2>2 DEF BackedUp, area, reader
  <1>4. CASE Publish
    <2>1. Len(value) \in 0..Width BY <1>t, StoresFit DEF None
    <2>2. serial' \in [Prop -> Serial] BY <1>t, <1>4, <2>1 DEF Publish, Serial
    <2> QED BY <1>t, <1>4, <2>2 DEF Publish, reader
  <1>5. CASE Link BY <1>t, <1>5 DEF Link, reader
  <1>6. CASE Bump BY <1>t, <1>6 DEF Bump, area, reader
  <1>7. CASE WakeAll BY <1>t, <1>7 DEF WakeAll, area
  <1>8. CASE Load BY <1>t, <1>8 DEF Load, area, writer
  <1>9. ASSUME NEW l \in left, Copy(l) PROVE TypeOK'
    <2>1. l \in Place BY <1>t
    <2>2. snap' \in [link : BOOLEAN, serial : Serial, cells : Cells, backup : Cells]
      <3>1. CASE l[1] = "link" BY <1>t, <1>9, <3>1 DEF Copy
      <3>2. CASE l[1] = "serial" BY <1>t, <1>9, <3>2 DEF Copy
      <3>3. CASE l[1] = "backup" BY <1>t, <1>9, <3>3 DEF Copy
      <3>4. CASE l[1] = "cell"
        <4>1. l[2] \in Cell BY <2>1, <3>4, PlaceKinds
        <4>2. cells[Name][l[2]] \in Nat BY <1>t, <4>1 DEF Cells
        <4>3. [snap.cells EXCEPT ![l[2]] = cells[Name][l[2]]] \in Cells
          BY <1>t, <4>1, <4>2 DEF Cells
        <4>4. snap' = [snap EXCEPT !.cells = [@ EXCEPT ![l[2]] = cells[Name][l[2]]]]
          BY <1>9, <3>4 DEF Copy
        <4> QED BY <1>t, <4>3, <4>4
      <3> QED BY <2>1, <3>1, <3>2, <3>3, <3>4, PlaceKinds
    <2> QED BY <1>t, <1>9, <2>2 DEF Copy, area, writer
  <1>10. ASSUME snap' = NoCopy, UNCHANGED <<area, global, writer, expected, left>>,
                rpc' \in {"idle", "wait"}
         PROVE  TypeOK'
    <2>1. Blank \in Cells BY DEF Blank, Cells
    <2>2. NoCopy \in [link : BOOLEAN, serial : Serial, cells : Cells, backup : Cells]
      BY <2>1 DEF NoCopy, Serial
    <2> QED BY <1>t, <1>10, <2>2 DEF area, writer
  <1>11. CASE Compare BY <1>10, <1>11 DEF Compare
  <1>12. CASE GiveUp BY <1>10, <1>12 DEF GiveUp
  <1>13. CASE Wait BY <1>t, <1>13 DEF Wait, area, writer
  <1>14. CASE Sleep BY <1>t, <1>14 DEF Sleep, area, writer
  <1>15. CASE Call BY <1>t, <1>15 DEF Call, area, writer
  <1>16. CASE Return BY <1>t, <1>16 DEF Return, area, writer
  <1>17. CASE UNCHANGED vars BY <1>t, <1>17 DEF vars, area, writer, reader
  <1> QED BY <1>1, <1>2, <1>3, <1>4, <1>5, <1>6, <1>7, <1>8, <1>9, <1>11, <1>12,
             <1>13, <1>14, <1>15, <1>16, <1>17 DEF Next, SetStep, WaitStep

(* IInv is inductive: one case for each action.                             *)
LEMMA StepInv ==
    ASSUME IInv, [Next]_vars
    PROVE  IInv'
  <1>t. TypeOK /\ TypeOK' BY TypeStep DEF IInv
  <1>n. expected \in Nat /\ global \in Nat BY <1>t DEF TypeOK
  <1>1. ASSUME NEW p \in Prop, NEW v \in Value, PropertySet(p, v) PROVE IInv'
    <2>1. wpc' \in {"backup", "add"} BY <1>1 DEF PropertySet
    <2> QED BY <1>t, <1>1, <2>1 DEF PropertySet, IInv, Current, Quiet, reader
  <1>2. ASSUME NEW l \in todo, Store(l) PROVE IInv'
    <2>1. wpc \notin {"idle", "bump", "wake"} BY DEF IInv
    <2> QED BY <1>t, <1>2, <2>1 DEF Store, IInv, Current, Quiet, reader
  <1>3. CASE BackedUp
    BY <1>t, <1>3 DEF BackedUp, IInv, Current, Quiet, reader
  <1>4. CASE Publish
    BY <1>t, <1>4 DEF Publish, IInv, Current, Quiet, reader
  <1>5. CASE Link
    BY <1>t, <1>5 DEF Link, IInv, Current, Quiet, reader
  <1>6. CASE Bump
    <2>1. expected' # global' /\ expected' <= global'
      BY <1>n, <1>6 DEF Bump, IInv, reader
    <2> QED BY <1>t, <1>6, <2>1 DEF Bump, IInv, Current, Quiet, reader
  <1>7. ASSUME UNCHANGED <<area, global, todo, expected, left, snap>>,
               wpc' = wpc \/ (wpc = "wake" /\ wpc' = "idle" /\ rpc # "asleep"),
               rpc' = rpc
        PROVE  IInv'
    <2>1. Current' => Current BY <1>7 DEF Current, Quiet
    <2>2. \A l : Same(l)' = Same(l) BY <1>7 DEF Same, area
    <2>3. Get(Memory)' = Get(Memory) BY <1>7 DEF Get, Memory, area
    <2> QED BY <1>t, <1>7, <2>1, <2>2, <2>3 DEF IInv
  <1>8. ASSUME UNCHANGED <<area, global, todo, expected>>, wpc' \in {wpc, "idle"},
               wpc \in {"idle", "bump", "wake"} \/ wpc' = wpc,
               rpc' \in {"load", "idle"}
        PROVE  IInv'
    BY <1>t, <1>8 DEF IInv
  <1>9. CASE WakeAll
    <2>1. CASE rpc = "asleep" BY <1>8, <1>9, <2>1 DEF WakeAll
    <2>2. CASE rpc # "asleep" BY <1>7, <1>9, <2>2 DEF WakeAll
    <2> QED BY <2>1, <2>2
  <1>10. CASE Load
    <2>1. Place \ left' = {} BY <1>10 DEF Load
    <2> QED BY <1>t, <1>n, <1>10, <2>1 DEF Load, IInv, area, writer
  <1>11. ASSUME NEW l \in left, Copy(l) PROVE IInv'
    <2>1. Current' = Current BY <1>11 DEF Copy, Current, Quiet, writer
    <2>2. ASSUME Current, NEW k \in Place \ left' PROVE Same(k)'
      <3>1. CASE k = l
        <4>1. l \in Place BY <3>1
        <4> QED BY <1>t, <1>11, <3>1, <4>1, PlaceKinds
                DEF Copy, Same, area, TypeOK, Cells
      <3>2. CASE k # l
        <4>1. k \in Place \ left BY <1>11, <2>2, <3>2 DEF Copy
        <4>2. Same(k) BY <1>11, <2>2, <4>1 DEF IInv, Copy
        <4>3. CASE l[1] = "cell"
          <5>1. snap' = [snap EXCEPT !.cells = [@ EXCEPT ![l[2]] = cells[Name][l[2]]]]
            BY <1>11, <4>3 DEF Copy
          <5>2. /\ snap'.link = snap.link /\ snap'.serial = snap.serial
                /\ snap'.backup = snap.backup
                /\ snap'.cells = [snap.cells EXCEPT ![l[2]] = cells[Name][l[2]]]
            BY <1>t, <5>1 DEF TypeOK
          <5>3. UNCHANGED <<link, serial, cells, backup>>
            BY <1>11 DEF Copy, area
          <5>4. CASE k[1] = "cell"
            <6>1. k[2] \in Cell /\ l[2] \in Cell
              BY <1>t, <4>1, <4>3, <5>4, PlaceKinds DEF TypeOK
            <6>2. snap'.cells[k[2]] = IF k[2] = l[2] THEN cells[Name][l[2]]
                                      ELSE snap.cells[k[2]]
              BY <1>t, <5>2, <6>1 DEF TypeOK, Cells
            <6>3. snap.cells[k[2]] = cells[Name][k[2]] BY <4>2, <5>4 DEF Same
            <6> QED BY <5>3, <5>4, <6>2, <6>3 DEF Same
          <5>5. CASE k[1] # "cell" BY <4>2, <5>2, <5>3, <5>5 DEF Same
          <5> QED BY <5>4, <5>5
        <4>4. CASE l[1] # "cell"
          <5>1. l[1] \in {"link", "serial", "backup"}
            BY <1>t, <4>4, PlaceKinds DEF TypeOK
          <5> QED BY <1>t, <1>11, <4>2, <5>1 DEF Same, Copy, area, TypeOK
        <4> QED BY <4>3, <4>4
      <3> QED BY <3>1, <3>2
    <2>3. rpc' \in {"copy", "compare"} /\ (rpc' = "compare" => left' = {})
      BY <1>11 DEF Copy
    <2>4. UNCHANGED <<wpc, todo, expected, global>> BY <1>11 DEF Copy, writer
    <2> QED BY <1>t, <2>1, <2>2, <2>3, <2>4 DEF IInv
  <1>12. CASE Compare
    <2>1. CASE Get(snap) = Want
      BY <1>8, <1>12, <2>1 DEF Compare, writer
    <2>2. CASE Get(snap) # Want
      <3>1. Current' = Current BY <1>12 DEF Compare, Current, Quiet, writer
      <3>2. Current => Get(Memory) # Want
        <4>1. SUFFICES ASSUME Current PROVE Get(Memory) # Want OBVIOUS
        <4>2. \A l \in Place : Same(l) BY <1>12, <4>1 DEF Compare, IInv
        <4> QED BY <1>t, <2>2, <4>2, SameAll
      <3>3. Get(Memory)' = Get(Memory) BY <1>12 DEF Compare, Get, Memory, area
      <3>4. rpc' = "wait" BY <1>12, <2>2 DEF Compare
      <3>5. UNCHANGED <<wpc, todo, expected, global>>
        BY <1>12 DEF Compare, writer
      <3> QED BY <1>t, <3>1, <3>2, <3>3, <3>4, <3>5 DEF IInv
    <2> QED BY <2>1, <2>2
  <1>13. CASE GiveUp BY <1>8, <1>13 DEF GiveUp, writer
  <1>14. ASSUME UNCHANGED <<area, global, writer, expected, left, snap>>,
                rpc \in {"wait", "sleep"}, rpc' \in {"sleep", "asleep"},
                global = expected
         PROVE  IInv'
    <2>1. Current' = Current BY <1>14 DEF Current, Quiet, writer
    <2>2. Get(Memory)' = Get(Memory) BY <1>14 DEF Get, Memory, area
    <2> QED BY <1>t, <1>14, <2>1, <2>2 DEF IInv, writer
  <1>15. CASE Wait
    <2>1. CASE global = expected BY <1>14, <1>15, <2>1 DEF Wait
    <2>2. CASE global # expected BY <1>8, <1>15, <2>2 DEF Wait, writer
    <2> QED BY <2>1, <2>2
  <1>16. CASE Sleep
    <2>1. CASE global = expected BY <1>14, <1>16, <2>1 DEF Sleep
    <2>2. CASE global # expected BY <1>8, <1>16, <2>2 DEF Sleep, writer
    <2> QED BY <2>1, <2>2
  <1>17. CASE Call BY <1>8, <1>17 DEF Call, writer
  <1>18. CASE Return BY <1>8, <1>18 DEF Return, writer
  <1>19. CASE UNCHANGED vars BY <1>7, <1>19 DEF vars, writer, reader
  <1> QED BY <1>1, <1>2, <1>3, <1>4, <1>5, <1>6, <1>9, <1>10, <1>11, <1>12, <1>13,
             <1>15, <1>16, <1>17, <1>18, <1>19 DEF Next, SetStep, WaitStep

(* IInv always holds.                                                       *)
LEMMA AlwaysInv == Spec => []IInv
  <1>1. IInv /\ [Next]_vars => IInv' BY StepInv
  <1> QED BY InitInv, <1>1, PTL DEF Spec

(* The area, the writer and the reader keep their types: in particular no   *)
(* store of a value, its NUL included, leaves the value's cells.            *)
THEOREM PropAreaTypes == Spec => []TypeOK
  <1>1. IInv => TypeOK BY DEF IInv
  <1> QED BY AlwaysInv, <1>1, PTL

(* wait_property never sleeps through the value it waits for, whatever is   *)
(* set and in whatever order the stores become visible.                     *)
THEOREM PropAreaNoLostWake == Spec => []NoLostWake
  <1>1. IInv => NoLostWake BY DEF IInv, NoLostWake, Current, Quiet
  <1> QED BY AlwaysInv, <1>1, PTL

-----------------------------------------------------------------------------
(***************************************************************************)
(* What is in the area.  A property's record shows the value last set,     *)
(* except while a set is writing it: then the stores that have been made   *)
(* are those of the new value.                                             *)
(***************************************************************************)

Shows(p, v) ==
    /\ serial[p] = [len |-> Len(v), dirty |-> FALSE]
    /\ \A i \in 1..(Len(v) + 1) : cells[p][i] = Padded(v)[i]

Written(p) ==
    IF link[p] THEN held[p] \in Value /\ Shows(p, held[p])
               ELSE held[p] = None /\ serial[p].dirty = FALSE

SInv ==
    /\ held \in [Prop -> Value \cup {None}]
    /\ wpc \in {"backup", "write", "add"} => value \in Value
    /\ wpc = "backup" => todo \subseteq {<<"backup", 0>>}
    /\ \A p \in Prop : p # name \/ wpc \notin {"write", "add"} => Written(p)
    /\ wpc \in {"backup", "write"} => link[name]
    /\ wpc = "add" =>
          /\ ~link[name] /\ serial[name].dirty = FALSE /\ held[name] = None
          /\ <<"serial", 0>> \notin todo => serial[name].len = Len(value)
    /\ wpc \in {"write", "add"} =>
          \A i \in 1..(Len(value) + 1) :
              <<"cell", i>> \notin todo => cells[name][i] = Padded(value)[i]

(* A buffer that holds a value and its NUL reads as the value.              *)
LEMMA CStringIs ==
    ASSUME NEW v \in Value, NEW c \in Cells,
           \A i \in 1..(Len(v) + 1) : c[i] = Padded(v)[i]
    PROVE  CString(c, Len(v) + 1) = v
  <1> DEFINE n == Len(v) + 1
             ends == {i \in 1..n : c[i] = 0}
             P(k) == (\A i \in 1..k : i \notin ends) /\ (k = n \/ k + 1 \in ends)
  <1>1. v \in Seq(Nat \ {0}) /\ Len(v) \in Nat /\ Len(v) + 1 \in 1..Width
    OBVIOUS
  <1>2. \A i \in 1..Len(v) : c[i] = v[i] /\ v[i] # 0
    <2> SUFFICES ASSUME NEW i \in 1..Len(v) PROVE c[i] = v[i] /\ v[i] # 0
      OBVIOUS
    <2>1. i \in 1..(Len(v) + 1) /\ i \in Cell /\ i <= Len(v) BY <1>1 DEF Cell
    <2>2. c[i] = v[i] BY <2>1 DEF Padded
    <2>3. v[i] \in Nat \ {0} BY <1>1
    <2> QED BY <2>2, <2>3
  <1>3. c[n] = 0
    <2>1. n \in Cell /\ ~(n <= Len(v)) /\ n \in 1..(Len(v) + 1) BY <1>1 DEF Cell
    <2> QED BY <2>1 DEF Padded
  <1>4. n \in ends /\ \A i \in 1..Len(v) : i \notin ends BY <1>1, <1>2, <1>3
  <1>5. Len(v) \in 0..n /\ P(Len(v)) BY <1>1, <1>4
  <1>6. ASSUME NEW k \in 0..n, P(k) PROVE k = Len(v)
    <2>1. ~(n \in 1..k) BY <1>4, <1>6
    <2>2. k < n BY <1>1, <2>1
    <2>3. k + 1 \in ends BY <1>6, <2>2
    <2>4. ~(k + 1 \in 1..Len(v)) BY <1>4, <2>3
    <2> QED BY <1>1, <2>2, <2>4
  <1>7. (CHOOSE k \in 0..n : P(k)) = Len(v) BY <1>5, <1>6
  <1>8. CString(c, n) = [i \in 1..Len(v) |-> c[i]] BY <1>7 DEF CString
  <1>9. v = [i \in 1..Len(v) |-> v[i]] BY <1>1
  <1> QED BY <1>2, <1>8, <1>9

(* Between two sets a property reads as the value last set.                 *)
LEMMA GetIsHeld ==
    ASSUME TypeOK, SInv, wpc = "idle"
    PROVE  Get(Memory) = held[Name]
  <1>1. Written(Name) BY DEF SInv
  <1>2. /\ Memory.link = link[Name] /\ Memory.serial = serial[Name]
        /\ Memory.cells = cells[Name]
    BY DEF Memory
  <1>3. CASE link[Name]
    <2>1. held[Name] \in Value /\ Shows(Name, held[Name]) BY <1>1, <1>3 DEF Written
    <2>2. cells[Name] \in Cells BY DEF TypeOK
    <2>3. CString(cells[Name], Len(held[Name]) + 1) = held[Name]
      BY <2>1, <2>2, CStringIs DEF Shows
    <2>4. ~serial[Name].dirty /\ serial[Name].len = Len(held[Name])
      BY <2>1 DEF Shows
    <2> QED BY <1>2, <1>3, <2>3, <2>4 DEF Get
  <1>4. CASE ~link[Name] BY <1>1, <1>2, <1>4 DEF Written, Get
  <1> QED BY <1>3, <1>4

(* No property is set at first.                                             *)
LEMMA InitWritten == Init => SInv
  BY DEF Init, SInv, Written

(* Steps that leave the records alone and keep the writer where it is.      *)
LEMMA KeepsWritten ==
    ASSUME SInv, UNCHANGED <<link, serial, cells, held, writer>>
    PROVE  SInv'
  <1>1. ASSUME NEW p \in Prop PROVE Written(p)' = Written(p)
    BY DEF Written, Shows
  <1> QED BY <1>1 DEF SInv, writer

(* SInv is inductive: one case for each action of the writer.               *)
LEMMA StepWritten ==
    ASSUME IInv, TypeOK', SInv, [Next]_vars
    PROVE  SInv'
  <1>t. TypeOK BY DEF IInv
  <1>1. ASSUME NEW p \in Prop, NEW v \in Value, PropertySet(p, v) PROVE SInv'
    <2>1. UNCHANGED <<link, serial, cells, held>> /\ name' = p /\ value' = v
      BY <1>1 DEF PropertySet, area
    <2>2. \A q \in Prop : Written(q)
      BY <1>1 DEF PropertySet, SInv
    <2>3. \A q \in Prop : Written(q)' BY <2>1, <2>2 DEF Written, Shows
    <2>4. CASE link[p]
      <3>1. wpc' = "backup" /\ todo' = {<<"backup", 0>>}
        BY <1>1, <2>4 DEF PropertySet
      <3> QED BY <2>1, <2>3, <2>4, <3>1 DEF SInv
    <2>5. CASE ~link[p]
      <3>1. wpc' = "add" /\ todo' = ValueStores(v) BY <1>1, <2>5 DEF PropertySet
      <3>2. /\ <<"serial", 0>> \in todo'
            /\ \A i \in 1..(Len(v) + 1) : <<"cell", i>> \in todo'
        BY <3>1 DEF ValueStores
      <3>3. held[p] = None /\ serial[p].dirty = FALSE
        BY <2>2, <2>5 DEF Written
      <3> QED BY <2>1, <2>3, <2>5, <3>1, <3>2, <3>3 DEF SInv
    <2> QED BY <2>4, <2>5
  <1>2. ASSUME NEW l \in todo, Store(l) PROVE SInv'
    <2>0. /\ UNCHANGED <<link, held, wpc, name, value>> /\ todo' = todo \ {l}
          /\ name \in Prop /\ l \in Place
      BY <1>t, <1>2 DEF Store, TypeOK
    <2>1. wpc \in {"backup", "write", "add"} BY <1>t DEF IInv, TypeOK
    <2>2. value \in Value BY <2>1 DEF SInv
    <2>3. ASSUME NEW q \in Prop, q # name PROVE Written(q)'
      <3>1. Written(q) BY <2>3 DEF SInv
      <3>2. cells'[q] = cells[q] /\ serial'[q] = serial[q]
        BY <1>t, <1>2, <2>3 DEF Store, TypeOK
      <3> QED BY <2>0, <3>1, <3>2 DEF Written, Shows
    <2>4. CASE wpc = "backup"
      <3>1. l = <<"backup", 0>> BY <2>4 DEF SInv
      <3>2. UNCHANGED <<serial, cells>> BY <1>2, <3>1 DEF Store
      <3>3. \A q \in Prop : Written(q)'
        BY <2>0, <2>4, <3>2 DEF SInv, Written, Shows
      <3> QED BY <2>0, <2>2, <2>4, <3>3 DEF SInv
    <2>5. CASE wpc \in {"write", "add"}
      <3>1. ASSUME NEW i \in 1..(Len(value) + 1), <<"cell", i>> \notin todo'
            PROVE  cells'[name][i] = Padded(value)[i]
        <4>0. i \in Cell BY <2>2 DEF Cell
        <4>1. CASE l = <<"cell", i>>
          BY <1>t, <1>2, <2>0, <4>0, <4>1 DEF Store, TypeOK, Cells
        <4>2. CASE l # <<"cell", i>>
          <5>1. <<"cell", i>> \notin todo BY <2>0, <3>1, <4>2
          <5>2. cells[name][i] = Padded(value)[i] BY <2>5, <5>1 DEF SInv
          <5>3. cells'[name][i] = cells[name][i] \/ cells'[name][i] = Padded(value)[i]
            <6>1. CASE l[1] = "cell"
              BY <1>t, <1>2, <2>0, <4>0, <6>1 DEF Store, TypeOK, Cells
            <6>2. CASE l[1] # "cell" BY <1>2, <6>2 DEF Store
            <6> QED BY <6>1, <6>2
          <5> QED BY <5>2, <5>3
        <4> QED BY <4>1, <4>2
      <3>2. CASE wpc = "add"
        <4>1. ~link'[name] /\ held'[name] = None BY <2>0, <3>2 DEF SInv
        <4>2. serial'[name].dirty = FALSE
              /\ (<<"serial", 0>> \notin todo' => serial'[name].len = Len(value))
          <5>1. serial[name].dirty = FALSE BY <3>2 DEF SInv
          <5>2. CASE l[1] = "serial"
            <6>1. serial' = [serial EXCEPT ![name] = [@ EXCEPT !.len = Len(value)]]
              BY <1>2, <3>2, <5>2 DEF Store
            <6>2. serial'[name] = [serial[name] EXCEPT !.len = Len(value)]
              BY <1>t, <2>0, <6>1 DEF TypeOK
            <6> QED BY <1>t, <2>0, <5>1, <6>2 DEF TypeOK, Serial
          <5>3. CASE l[1] # "serial"
            <6>1. serial' = serial BY <1>2, <5>3 DEF Store
            <6>2. l # <<"serial", 0>> BY <5>3
            <6> QED BY <2>0, <3>2, <5>1, <6>1, <6>2 DEF SInv
          <5> QED BY <5>2, <5>3
        <4> QED BY <2>0, <2>2, <2>3, <3>1, <3>2, <4>1, <4>2 DEF SInv
      <3>3. CASE wpc = "write" BY <2>0, <2>2, <2>3, <3>1, <3>3 DEF SInv
      <3> QED BY <2>5, <3>2, <3>3
    <2> QED BY <2>1, <2>4, <2>5
  <1>3. CASE BackedUp
    <2>1. /\ UNCHANGED <<link, serial, cells, held, name, value>>
          /\ wpc = "backup" /\ wpc' = "write" /\ todo' = ValueStores(value)
      BY <1>3 DEF BackedUp, area
    <2>2. \A q \in Prop : Written(q)' BY <2>1 DEF SInv, Written, Shows
    <2>3. \A i \in 1..(Len(value) + 1) : <<"cell", i>> \in todo'
      BY <2>1 DEF ValueStores
    <2> QED BY <2>1, <2>2, <2>3 DEF SInv
  <1>4. ASSUME Publish \/ Link PROVE SInv'
    <2>0. /\ wpc \in {"write", "add"} /\ wpc' = "bump" /\ todo = {} /\ todo' = {}
          /\ UNCHANGED <<cells, name, value>> /\ name \in Prop /\ value \in Value
          /\ held' = [held EXCEPT ![name] = value]
      BY <1>t, <1>4 DEF Publish, Link, SInv, TypeOK
    <2>1. \A i \in 1..(Len(value) + 1) : cells'[name][i] = Padded(value)[i]
      BY <2>0 DEF SInv
    <2>2. serial'[name] = [len |-> Len(value), dirty |-> FALSE] /\ link'[name]
      <3>1. CASE Publish BY <1>t, <2>0, <3>1 DEF Publish, SInv, TypeOK
      <3>2. CASE Link
        <4>1. serial[name].len = Len(value) /\ serial[name].dirty = FALSE
          BY <2>0, <3>2 DEF Link, SInv
        <4>2. serial[name] \in Serial BY <1>t, <2>0 DEF TypeOK
        <4>3. serial[name] = [len |-> Len(value), dirty |-> FALSE]
          BY <4>1, <4>2 DEF Serial
        <4> QED BY <1>t, <2>0, <3>2, <4>3 DEF Link, TypeOK
      <3> QED BY <1>4, <3>1, <3>2
    <2>3. held'[name] = value BY <2>0 DEF SInv
    <2>4. ASSUME NEW q \in Prop, q = name PROVE Written(q)'
      <3>1. Len(value) < Width BY <2>0
      <3>2. serial'[q] = [len |-> Len(value), dirty |-> FALSE]
            /\ link'[q] /\ held'[q] = value
        BY <2>2, <2>3, <2>4
      <3>3. \A i \in 1..(Len(value) + 1) : cells'[q][i] = Padded(value)[i]
        BY <2>1, <2>4
      <3> QED BY <2>0, <3>1, <3>2, <3>3 DEF Written, Shows
    <2>5. ASSUME NEW q \in Prop, q # name PROVE Written(q)'
      <3>1. Written(q) BY <2>5 DEF SInv
      <3>2. /\ cells'[q] = cells[q] /\ serial'[q] = serial[q]
            /\ link'[q] = link[q] /\ held'[q] = held[q]
        BY <1>t, <1>4, <2>0, <2>5 DEF Publish, Link, TypeOK, SInv
      <3> QED BY <3>1, <3>2 DEF Written, Shows
    <2>6. \A q \in Prop : Written(q)' BY <2>0, <2>4, <2>5
    <2> QED BY <2>0, <2>6 DEF SInv
  <1>5. ASSUME Bump \/ WakeAll PROVE SInv'
    <2>1. /\ UNCHANGED <<link, serial, cells, held>>
          /\ wpc \in {"bump", "wake"} /\ wpc' \in {"wake", "idle"}
      BY <1>5 DEF Bump, WakeAll, area
    <2>2. \A q \in Prop : Written(q)' BY <2>1 DEF SInv, Written, Shows
    <2> QED BY <2>1, <2>2 DEF SInv
  <1>6. ASSUME UNCHANGED <<area, writer, held>> PROVE SInv'
    BY <1>6, KeepsWritten DEF area
  <1>7. CASE WaitStep \/ Call \/ GiveUp \/ Return \/ UNCHANGED vars
    BY <1>6, <1>7 DEF WaitStep, Load, Copy, Compare, Wait, Sleep, Call, GiveUp,
                      Return, vars
  <1> QED BY <1>1, <1>2, <1>3, <1>4, <1>5, <1>7 DEF Next, SetStep

(* SInv always holds.                                                       *)
LEMMA AlwaysWritten == Spec => []SInv
  <1>1. IInv /\ IInv' /\ SInv /\ [Next]_vars => SInv' BY StepWritten DEF IInv
  <1> QED BY AlwaysInv, InitWritten, <1>1, PTL DEF Spec

(* A copy of the area that no set overlapped reads as the value last set,   *)
(* whatever values were set before and whatever their lengths: lengths,     *)
(* dirty bits and NULs are consistent between two sets.                     *)
THEOREM PropAreaQuietRead == Spec => []QuietRead
  <1>1. ASSUME IInv, SInv PROVE QuietRead
    <2> SUFFICES ASSUME rpc = "compare", global = expected, wpc = "idle"
                 PROVE  Get(snap) = held[Name]
      BY DEF QuietRead
    <2>1. Current BY DEF Current, Quiet
    <2>2. left = {} BY <1>1 DEF IInv
    <2>3. \A l \in Place : Same(l) BY <1>1, <2>1, <2>2 DEF IInv
    <2>4. TypeOK BY <1>1 DEF IInv
    <2>5. snap = Memory BY <2>3, <2>4, SameAll
    <2> QED BY <1>1, <2>4, <2>5, GetIsHeld
  <1> QED BY AlwaysInv, AlwaysWritten, <1>1, PTL
=============================================================================
