------------------------------- MODULE PropArea -------------------------------
(***************************************************************************)
(* One property area in shared memory (aim-android-init/src/props/area.rs, *)
(* areas.rs): init's event loop is its only writer, and wait_property      *)
(* (aim-guest-init/src/props.rs) reads it from another thread through the  *)
(* area's file and sleeps on the global serial.                            *)
(*                                                                         *)
(* Memory is modelled store by store.  Between two release fences the      *)
(* stores of the writer reach the reader in any order, and the reader's    *)
(* read(2) of the file copies the words it will look at in any order: both *)
(* are plain accesses to memory that the other side is using.  A value is  *)
(* a sequence of cells ended by the cell 0, so that a mixture of two       *)
(* values can be told from either; the backup area is written and copied   *)
(* as one piece.                                                           *)
(***************************************************************************)
EXTENDS Naturals, Sequences, FiniteSets

CONSTANTS Prop,      \* properties of the area, none of them read-only
          Value,     \* the values that are set: sequences of positive cells
          Width,     \* PROP_VALUE_MAX: the cells of a prop_info's value
          Name,      \* the property that is waited for,
          Want,      \* and the value it is waited for to take
          MaxSets    \* bound: how many times properties are set

ASSUME PropAreaAssumption ==
    /\ Name \in Prop /\ Width \in Nat /\ MaxSets \in Nat
    /\ \A v \in Value \cup {Want} :
          v \in Seq(Nat \ {0}) /\ Len(v) \in 1..(Width - 1)

VARIABLES
    link,      \* whether the trie leads to the prop_info of a property
    serial,    \* the length and the dirty bit in a prop_info's serial
    cells,     \* the value cells of a prop_info
    backup,    \* the dirty backup area, shared by all properties
    global,    \* the serial of properties_serial
    wpc, name, value, todo,
               \* the writer: where it is, what it is setting, and the
               \* stores it has made that are not yet visible
    rpc, expected, left, snap,
               \* wait_property: where it is, the serial it loaded, what it
               \* has yet to copy, and the copy
    held       \* history: the value last set

area == <<link, serial, cells, backup>>
writer == <<wpc, name, value, todo>>
reader == <<rpc, expected, left, snap>>
vars == <<area, global, writer, reader, held>>

Cell == 1..Width
None == <<>>   \* no property, or one not found: no value is empty
Blank == [i \in Cell |-> 0]
Place == ({"cell"} \X Cell) \cup ({"link", "serial", "backup"} \X {0})
Padded(v) == [i \in Cell |-> IF i <= Len(v) THEN v[i] ELSE 0]

(* The bytes before the first NUL among the first n: what a reader makes   *)
(* of a buffer of n bytes.                                                 *)
CString(c, n) ==
    LET ends == {i \in 1..n : c[i] = 0}
        len == CHOOSE k \in 0..n : /\ \A i \in 1..k : i \notin ends
                                   /\ k = n \/ k + 1 \in ends
    IN  [i \in 1..len |-> c[i]]

(* PropAreaReader::get on a copy of the area.                              *)
Get(s) ==
    IF ~s.link THEN None
    ELSE CString(IF s.serial.dirty THEN s.backup ELSE s.cells,
                 s.serial.len + 1)

Memory == [link |-> link[Name], serial |-> serial[Name],
           cells |-> cells[Name], backup |-> backup]

NoCopy == [link |-> FALSE, serial |-> [len |-> 0, dirty |-> FALSE],
           cells |-> Blank, backup |-> Blank]

Init ==
    /\ link = [p \in Prop |-> FALSE]
    /\ serial = [p \in Prop |-> [len |-> 0, dirty |-> FALSE]]
    /\ cells = [p \in Prop |-> Blank] /\ backup = Blank /\ global = 0
    /\ wpc = "idle" /\ name = Name /\ value = None /\ todo = {}
    /\ rpc = "idle" /\ expected = 0 /\ left = {}
    /\ snap = NoCopy
    /\ held = [p \in Prop |-> None]
-----------------------------------------------------------------------------
(***************************************************************************)
(* The writer.                                                             *)
(***************************************************************************)

ValueStores(v) == {<<"serial", 0>>} \cup {<<"cell", i>> : i \in 1..(Len(v) + 1)}

(* PropertyService::property_set: a property that exists is updated, one    *)
(* that does not is added.                                                  *)
PropertySet(p, v) ==
    /\ wpc = "idle" /\ global < MaxSets
    /\ name' = p /\ value' = v
    /\ IF link[p]
       THEN wpc' = "backup" /\ todo' = {<<"backup", 0>>}
       ELSE wpc' = "add" /\ todo' = ValueStores(v)
    /\ UNCHANGED <<area, global, reader, held>>

(* A store of the writer becomes visible.                                   *)
Store(l) ==
    /\ l \in todo /\ todo' = todo \ {l}
    /\ backup' = IF l[1] = "backup"
                 THEN [i \in Cell |-> IF i <= serial[name].len + 1
                                      THEN cells[name][i] ELSE backup[i]]
                 ELSE backup
    /\ cells' = IF l[1] = "cell"
                THEN [cells EXCEPT ![name][l[2]] = Padded(value)[l[2]]]
                ELSE cells
    /\ serial' = IF l[1] # "serial" THEN serial
                 ELSE IF wpc = "add"
                 THEN [serial EXCEPT ![name].len = Len(value)]
                 ELSE [serial EXCEPT ![name].dirty = TRUE]
    /\ UNCHANGED <<link, global, wpc, name, value, reader, held>>

\* Mutant: the terminating NUL is not copied.
BackedUpNoNul ==
    /\ wpc = "backup" /\ todo = {}
    /\ wpc' = "write"
    /\ todo' = ValueStores(value) \ {<<"cell", Len(value) + 1>>}
    /\ UNCHANGED <<area, global, name, value, reader, held>>

(* update_value past its first fence: the old value is safe in the backup   *)
(* area, the serial is made dirty and the new value written over the old.   *)
BackedUp ==
    /\ wpc = "backup" /\ todo = {}
    /\ wpc' = "write" /\ todo' = ValueStores(value)
    /\ UNCHANGED <<area, global, name, value, reader, held>>

(* update_value past its second fence: the new serial, clean.               *)
Publish ==
    /\ wpc = "write" /\ todo = {}
    /\ serial' = [serial EXCEPT ![name] = [len |-> Len(value), dirty |-> FALSE]]
    /\ held' = [held EXCEPT ![name] = value]
    /\ wpc' = "bump"
    /\ UNCHANGED <<link, cells, backup, global, name, value, todo, reader>>

(* find_property's release store of the new prop_info's offset.             *)
Link ==
    /\ wpc = "add" /\ todo = {}
    /\ link' = [link EXCEPT ![name] = TRUE]
    /\ held' = [held EXCEPT ![name] = value]
    /\ wpc' = "bump"
    /\ UNCHANGED <<serial, cells, backup, global, name, value, todo, reader>>

(* bump_global_serial: the store, then the wake of every sleeper.           *)
Bump ==
    /\ wpc = "bump" /\ wpc' = "wake" /\ global' = global + 1
    /\ UNCHANGED <<area, name, value, todo, reader, held>>

WakeAll ==
    /\ wpc = "wake" /\ wpc' = "idle" /\ name' = Name /\ value' = None
    /\ rpc' = IF rpc = "asleep" THEN "load" ELSE rpc
    /\ UNCHANGED <<area, global, todo, expected, left, snap, held>>
-----------------------------------------------------------------------------
(***************************************************************************)
(* wait_property.                                                          *)
(***************************************************************************)

Call ==
    /\ rpc = "idle" /\ rpc' = "load"
    /\ UNCHANGED <<area, global, writer, expected, left, snap, held>>

(* The serial is loaded before the property is read.                        *)
Load ==
    /\ rpc = "load" /\ rpc' = "copy"
    /\ expected' = global /\ left' = Place
    /\ UNCHANGED <<area, global, writer, snap, held>>

(* read_property: fs::read copies the file, a word at a time.               *)
Copy(l) ==
    /\ rpc = "copy" /\ l \in left /\ left' = left \ {l}
    /\ rpc' = IF left' = {} THEN "compare" ELSE "copy"
    /\ snap' = CASE l[1] = "link" -> [snap EXCEPT !.link = link[Name]]
                 [] l[1] = "serial" -> [snap EXCEPT !.serial = serial[Name]]
                 [] l[1] = "backup" -> [snap EXCEPT !.backup = backup]
                 [] l[1] = "cell" -> [snap EXCEPT !.cells[l[2]] = cells[Name][l[2]]]
    /\ UNCHANGED <<area, global, writer, expected, held>>

\* Mutant: the serial is loaded when the wait begins.
CompareLoads ==
    /\ rpc = "compare"
    /\ rpc' = IF Get(snap) = Want THEN "idle" ELSE "wait"
    /\ expected' = global
    /\ snap' = NoCopy
    /\ UNCHANGED <<area, global, writer, left, held>>

(* The comparison.  The deadline comes after it: a call whose deadline has  *)
(* passed gives up.                                                         *)
Compare ==
    /\ rpc = "compare"
    /\ rpc' = IF Get(snap) = Want THEN "idle" ELSE "wait"
    /\ snap' = NoCopy
    /\ UNCHANGED <<area, global, writer, expected, left, held>>

GiveUp ==
    /\ rpc = "compare" /\ Get(snap) # Want /\ rpc' = "idle"
    /\ snap' = NoCopy
    /\ UNCHANGED <<area, global, writer, expected, left, held>>

\* Mutant: the kernel does not compare.
SleepBlindly ==
    /\ rpc = "sleep" /\ rpc' = "asleep"
    /\ UNCHANGED <<area, global, writer, expected, left, snap, held>>

(* wait_shared: a look at the word, then the kernel compares it again and   *)
(* sleeps in one step.                                                      *)
Wait ==
    /\ rpc = "wait"
    /\ rpc' = IF global = expected THEN "sleep" ELSE "load"
    /\ UNCHANGED <<area, global, writer, expected, left, snap, held>>

Sleep ==
    /\ rpc = "sleep"
    /\ rpc' = IF global = expected THEN "asleep" ELSE "load"
    /\ UNCHANGED <<area, global, writer, expected, left, snap, held>>

(* ETIMEDOUT, EINTR, or a wait that returns for no reason.                  *)
Return ==
    /\ rpc = "asleep" /\ rpc' = "load"
    /\ UNCHANGED <<area, global, writer, expected, left, snap, held>>

SetStep == (\E l \in todo : Store(l)) \/ BackedUp \/ Publish \/ Link \/ Bump
           \/ WakeAll
WaitStep == Load \/ (\E l \in left : Copy(l)) \/ Compare \/ Wait \/ Sleep

Next ==
    \/ \E p \in Prop, v \in Value : PropertySet(p, v)
    \/ SetStep \/ WaitStep
    \/ Call \/ GiveUp \/ Return

Spec == Init /\ [][Next]_vars

(* The event loop finishes a set it began and the waiting thread runs; no   *)
(* deadline need ever pass, and no set need ever begin.                     *)
FairSpec == Spec /\ WF_vars(SetStep) /\ WF_vars(WaitStep)
-----------------------------------------------------------------------------
Cells == [Cell -> Nat]
Serial == [len : 0..Width, dirty : BOOLEAN]

\* The type invariant.
TypeOK ==
    /\ link \in [Prop -> BOOLEAN] /\ serial \in [Prop -> Serial]
    /\ cells \in [Prop -> Cells] /\ backup \in Cells /\ global \in Nat
    /\ wpc \in {"idle", "backup", "write", "add", "bump", "wake"}
    /\ name \in Prop /\ value \in Value \cup {None} /\ todo \subseteq Place
    /\ rpc \in {"idle", "load", "copy", "compare", "wait", "sleep", "asleep"}
    /\ expected \in Nat /\ left \subseteq Place
    /\ snap \in [link : BOOLEAN, serial : Serial, cells : Cells, backup : Cells]

(* wait_property never sleeps through what it waits for: while it sleeps    *)
(* and no set is under way, the property does not have the wanted value.    *)
(* The serial was loaded before the copy, whatever the copy caught of a set *)
(* is followed by that set's bump, and the kernel compares before it sleeps. *)
NoLostWake == rpc = "asleep" /\ wpc = "idle" => Get(Memory) # Want

(* A read that no set overlapped returns what was last set: the lengths,    *)
(* the dirty bits, the NULs and the backup area that all properties share   *)
(* are consistent whenever the writer is between two sets.                  *)
QuietRead ==
    rpc = "compare" /\ global = expected /\ wpc = "idle" =>
        Get(snap) = held[Name]

(* A call of wait_property returns if the property comes to have the wanted *)
(* value and keeps it, though no deadline passes and no further set comes   *)
(* to wake it.                                                              *)
WaitEnds == <>[](Get(Memory) = Want) => []<>(rpc = "idle")
=============================================================================
