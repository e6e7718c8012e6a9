---------------------------- MODULE ScriptsProofs ----------------------------
(***************************************************************************)
(* What Scripts guarantees for any number of files, callers and changes.   *)
(***************************************************************************)
EXTENDS Scripts, FiniteSetTheorems, TLAPS

---------------------------------------------------------------------------
(* The inductive invariant of NoOrphan.                                    *)

Inside == {"create", "on_create", "run", "stuck", "host"}
ListType ==
    /\ used \in 0..MaxEngines
    /\ reg \subseteq 1..used /\ old \subseteq 1..used /\ fresh \subseteq 1..used
    /\ wpc \in {"idle", "scan", "swap", "next", "lock", "destroy", "stuck", "host"}
FlagType == closed \in [Engines -> BOOLEAN] /\ live \in [Engines -> BOOLEAN]
LockType == lock \in [Engines -> Callers \cup {"free", "watcher"}]
CallType ==
    /\ todo \in [Callers -> SUBSET (1..used)]
    /\ at \in [Callers -> {"idle", "store", "next"} \cup Inside]
Types == ListType /\ FlagType /\ LockType /\ CallType

\* What is on the lists at each point of the watcher.
ListInv ==
    /\ reg \cap old = {} /\ fresh \cap (reg \cup old) = {}
    /\ wpc \in {"idle", "scan", "swap"} => old = {}
    /\ wpc # "swap" => fresh = {}

\* The engine that is being destroyed is closed, and without an instance while
\* on-destroy runs.
DestroyInv ==
    /\ wpc \in {"lock", "destroy", "stuck", "host"} => old # {} /\ closed[First(old)]
    /\ wpc \in {"destroy", "stuck", "host"} => lock[First(old)] = "watcher" /\ ~live[First(old)]

\* A guest runs with its engine's mutex held, and its engine not yet destroyed.
GuestInv ==
    \A c \in Callers : at[c] \in Inside =>
        todo[c] # {} /\ lock[Current(c)] = c /\ Current(c) \in reg \cup old

\* An engine on a caller's list that the watcher is done with is closed.
StaleInv == \A c \in Callers : \A e \in todo[c] : e \in reg \cup old \/ closed[e]

IInv == Types /\ ListInv /\ DestroyInv /\ GuestInv /\ StaleInv /\ NoOrphan

---------------------------------------------------------------------------
(* First.                                                                  *)

LEMMA FirstIn == ASSUME NEW S \in SUBSET Nat, S # {} PROVE First(S) \in S
<1>. DEFINE R == OpToRel(<, Nat)
<1>1. IsWellFoundedOn(R, Nat)
  BY NatLessThanWellFounded
<1>2. PICK e \in S : \A f \in S : <<f, e>> \notin R
  <2>. HIDE DEF R
  <2>. QED
    BY <1>1, WFMin
<1>3. \A f \in S : e <= f
  <2>. SUFFICES ASSUME NEW f \in S, f < e PROVE FALSE
    OBVIOUS
  <2>1. <<f, e>> \in Nat \X Nat /\ <<f, e>>[1] < <<f, e>>[2]
    OBVIOUS
  <2>2. <<f, e>> \in R
    BY <2>1, Zenon DEF OpToRel
  <2>. QED
    BY <1>2, <2>2
<1>. QED
  BY <1>3 DEF First

\* The engine at the head of a list is on it.
LEMMA Heads ==
  ASSUME Types
  PROVE  /\ old # {} => First(old) \in old /\ First(old) \in Engines
         /\ \A c \in Callers : todo[c] # {} => Current(c) \in todo[c] /\ Current(c) \in Engines
<1>1. old \in SUBSET Nat /\ 1..used \subseteq Engines
  BY EnginesAssumption DEF Types, ListType, Engines
<1>2. \A c \in Callers : todo[c] \subseteq 1..used /\ todo[c] \in SUBSET Nat
  BY <1>1 DEF Types, CallType, ListType
<1>. QED
  BY <1>1, <1>2, FirstIn DEF Current, Types, ListType

---------------------------------------------------------------------------
LEMMA InitIInv == Init => IInv
<1>. SUFFICES ASSUME Init PROVE IInv
  OBVIOUS
<1>1. Types
  BY EnginesAssumption DEF Init, Types, Inside, ListType, FlagType, LockType, CallType
<1>. QED
  BY <1>1 DEF Init, IInv, Inside, ListInv, DestroyInv, GuestInv, StaleInv, NoOrphan

LEMMA NextIInv == IInv /\ [Next]_vars => IInv'
<1>. SUFFICES ASSUME IInv, [Next]_vars PROVE IInv'
  OBVIOUS
<1>. USE CallersAssumption
     DEF IInv, Types, Inside, fileVars, watchVars, engineVars, callVars, Next1, Unlock, Done, MakeDir
<1>1. ASSUME NEW p \in Paths, EditFile(p) PROVE IInv'
  BY <1>1, Heads DEF EditFile, ListType, FlagType, LockType, CallType, ListInv, DestroyInv,
         GuestInv, StaleInv, NoOrphan, Current
<1>2. CASE Recv
  BY <1>2, Heads DEF Recv, ListType, FlagType, LockType, CallType, ListInv, DestroyInv,
         GuestInv, StaleInv, NoOrphan, Current
<1>3. CASE Scan
  <2>. DEFINE good == {p \in Paths : Loadable(p)}
  <2>0. Cardinality(good) \in Nat
    BY PathsAssumption, FS_Subset, FS_CardinalityType
  <2>10. /\ used' = used + Cardinality(good) /\ used' <= MaxEngines
         /\ fresh' = used + 1 .. used + Cardinality(good)
         /\ wpc' = "swap" /\ UNCHANGED <<reg, old>>
    BY <1>3 DEF Scan
  <2>. HIDE DEF good
  <2>1. ListType'
    BY <2>0, <2>10, EnginesAssumption DEF ListType
  <2>2. FlagType'
    BY <1>3, Heads DEF Scan, FlagType
  <2>3. LockType'
    BY <1>3, Heads DEF Scan, LockType
  <2>4. CallType'
    <3>1. 1..used \subseteq 1..used'
      BY <2>0, <2>10 DEF ListType
    <3>2. UNCHANGED <<todo, at>>
      BY <1>3 DEF Scan
    <3>. QED
      BY <3>1, <3>2 DEF CallType
  <2>5. ListInv'
    BY <1>3, Heads DEF Scan, ListInv, ListType
  <2>6. DestroyInv'
    BY <1>3, Heads DEF Scan, DestroyInv, ListInv, LockType, FlagType, GuestInv
  <2>7. GuestInv'
    BY <1>3, Heads DEF Scan, GuestInv, ListInv, DestroyInv, LockType, CallType, Current
  <2>8. StaleInv'
    BY <1>3, Heads DEF Scan, StaleInv, ListInv, DestroyInv, CallType, FlagType, ListType
  <2>9. NoOrphan'
    BY <1>3, Heads DEF Scan, NoOrphan, ListInv, DestroyInv, GuestInv, LockType, FlagType, Current
  <2>. QED
    BY <2>1, <2>2, <2>3, <2>4, <2>5, <2>6, <2>7, <2>8, <2>9
<1>4. CASE Swap
  <2>1. ListType'
    BY <1>4, Heads DEF Swap, ListType
  <2>2. FlagType'
    BY <1>4, Heads DEF Swap, FlagType
  <2>3. LockType'
    BY <1>4, Heads DEF Swap, LockType
  <2>4. CallType'
    BY <1>4, Heads DEF Swap, CallType, ListType
  <2>5. ListInv'
    BY <1>4, Heads DEF Swap, ListInv, ListType
  <2>6. DestroyInv'
    BY <1>4, Heads DEF Swap, DestroyInv, ListInv, LockType, FlagType, GuestInv
  <2>7. GuestInv'
    BY <1>4, Heads DEF Swap, GuestInv, ListInv, DestroyInv, LockType, CallType, Current
  <2>8. StaleInv'
    BY <1>4, Heads DEF Swap, StaleInv, ListInv, DestroyInv, CallType, FlagType, ListType
  <2>9. NoOrphan'
    BY <1>4, Heads DEF Swap, NoOrphan, ListInv, DestroyInv, GuestInv, LockType, FlagType, Current
  <2>. QED
    BY <2>1, <2>2, <2>3, <2>4, <2>5, <2>6, <2>7, <2>8, <2>9
<1>5. CASE Close
  <2>1. ListType'
    BY <1>5, Heads DEF Close, ListType
  <2>2. FlagType'
    BY <1>5, Heads DEF Close, FlagType
  <2>3. LockType'
    BY <1>5, Heads DEF Close, LockType
  <2>4. CallType'
    BY <1>5, Heads DEF Close, CallType, ListType
  <2>5. ListInv'
    BY <1>5, Heads DEF Close, ListInv, ListType
  <2>6. DestroyInv'
    BY <1>5, Heads DEF Close, DestroyInv, ListInv, LockType, FlagType, GuestInv
  <2>7. GuestInv'
    BY <1>5, Heads DEF Close, GuestInv, ListInv, DestroyInv, LockType, CallType, Current
  <2>8. StaleInv'
    BY <1>5, Heads DEF Close, StaleInv, ListInv, DestroyInv, CallType, FlagType, ListType
  <2>9. NoOrphan'
    BY <1>5, Heads DEF Close, NoOrphan, ListInv, DestroyInv, GuestInv, LockType, FlagType, Current
  <2>. QED
    BY <2>1, <2>2, <2>3, <2>4, <2>5, <2>6, <2>7, <2>8, <2>9
<1>6. CASE Reloaded
  BY <1>6, Heads DEF Reloaded, ListType, FlagType, LockType, CallType, ListInv, DestroyInv,
         GuestInv, StaleInv, NoOrphan, Current
<1>7. CASE Take
  <2>1. ListType'
    BY <1>7, Heads DEF Take, ListType
  <2>2. FlagType'
    BY <1>7, Heads DEF Take, FlagType
  <2>3. LockType'
    BY <1>7, Heads DEF Take, LockType
  <2>4. CallType'
    BY <1>7, Heads DEF Take, CallType, ListType
  <2>5. ListInv'
    BY <1>7, Heads DEF Take, ListInv, ListType
  <2>6. DestroyInv'
    BY <1>7, Heads DEF Take, DestroyInv, ListInv, LockType, FlagType, GuestInv
  <2>7. GuestInv'
    BY <1>7, Heads DEF Take, GuestInv, ListInv, DestroyInv, LockType, CallType, Current
  <2>8. StaleInv'
    BY <1>7, Heads DEF Take, StaleInv, ListInv, DestroyInv, CallType, FlagType, ListType
  <2>9. NoOrphan'
    BY <1>7, Heads DEF Take, NoOrphan, ListInv, DestroyInv, GuestInv, LockType, FlagType, Current
  <2>. QED
    BY <2>1, <2>2, <2>3, <2>4, <2>5, <2>6, <2>7, <2>8, <2>9
<1>8. CASE Destroyed
  <2>1. ListType'
    BY <1>8, Heads DEF Destroyed, ListType
  <2>2. FlagType'
    BY <1>8, Heads DEF Destroyed, FlagType
  <2>3. LockType'
    BY <1>8, Heads DEF Destroyed, LockType
  <2>4. CallType'
    BY <1>8, Heads DEF Destroyed, CallType, ListType
  <2>5. ListInv'
    BY <1>8, Heads DEF Destroyed, ListInv, ListType
  <2>6. DestroyInv'
    BY <1>8, Heads DEF Destroyed, DestroyInv, ListInv, LockType, FlagType, GuestInv
  <2>7. GuestInv'
    BY <1>8, Heads DEF Destroyed, GuestInv, ListInv, DestroyInv, LockType, CallType, Current
  <2>8. StaleInv'
    BY <1>8, Heads DEF Destroyed, StaleInv, ListInv, DestroyInv, CallType, FlagType, ListType
  <2>9. NoOrphan'
    BY <1>8, Heads DEF Destroyed, NoOrphan, ListInv, DestroyInv, GuestInv, LockType, FlagType,
           Current
  <2>. QED
    BY <2>1, <2>2, <2>3, <2>4, <2>5, <2>6, <2>7, <2>8, <2>9
<1>9. CASE DestroyLoops
  <2>1. ListType'
    BY <1>9, Heads DEF DestroyLoops, ListType
  <2>2. FlagType'
    BY <1>9, Heads DEF DestroyLoops, FlagType
  <2>3. LockType'
    BY <1>9, Heads DEF DestroyLoops, LockType
  <2>4. CallType'
    BY <1>9, Heads DEF DestroyLoops, CallType, ListType
  <2>5. ListInv'
    BY <1>9, Heads DEF DestroyLoops, ListInv, ListType
  <2>6. DestroyInv'
    BY <1>9, Heads DEF DestroyLoops, DestroyInv, ListInv, LockType, FlagType, GuestInv
  <2>7. GuestInv'
    BY <1>9, Heads DEF DestroyLoops, GuestInv, ListInv, DestroyInv, LockType, CallType, Current
  <2>8. StaleInv'
    BY <1>9, Heads DEF DestroyLoops, StaleInv, ListInv, DestroyInv, CallType, FlagType, ListType
  <2>9. NoOrphan'
    BY <1>9, Heads DEF DestroyLoops, NoOrphan, ListInv, DestroyInv, GuestInv, LockType,
           FlagType, Current
  <2>. QED
    BY <2>1, <2>2, <2>3, <2>4, <2>5, <2>6, <2>7, <2>8, <2>9
<1>10. ASSUME NEW c \in Callers, Deadline(c) PROVE IInv'
  <2>1. ListType'
    BY <1>10, Heads DEF Deadline, ListType
  <2>2. FlagType'
    BY <1>10, Heads DEF Deadline, FlagType
  <2>3. LockType'
    BY <1>10, Heads DEF Deadline, LockType
  <2>4. CallType'
    BY <1>10, Heads DEF Deadline, CallType, ListType
  <2>5. ListInv'
    BY <1>10, Heads DEF Deadline, ListInv, ListType
  <2>6. DestroyInv'
    BY <1>10, Heads DEF Deadline, DestroyInv, ListInv, LockType, FlagType, GuestInv
  <2>7. GuestInv'
    BY <1>10, Heads DEF Deadline, GuestInv, ListInv, DestroyInv, LockType, CallType, Current
  <2>8. StaleInv'
    BY <1>10, Heads DEF Deadline, StaleInv, ListInv, DestroyInv, CallType, FlagType, ListType
  <2>9. NoOrphan'
    BY <1>10, Heads DEF Deadline, NoOrphan, ListInv, DestroyInv, GuestInv, LockType, FlagType,
           Current
  <2>. QED
    BY <2>1, <2>2, <2>3, <2>4, <2>5, <2>6, <2>7, <2>8, <2>9
<1>11. ASSUME NEW c \in Callers, PacketHooks(c) \/ EventHooks(c) \/ PageHooks(c) PROVE IInv'
  <2>1. ListType'
    BY <1>11, Heads DEF PacketHooks, EventHooks, PageHooks, Begin, ListType
  <2>2. FlagType'
    BY <1>11, Heads DEF PacketHooks, EventHooks, PageHooks, Begin, FlagType
  <2>3. LockType'
    BY <1>11, Heads DEF PacketHooks, EventHooks, PageHooks, Begin, LockType
  <2>4. CallType'
    BY <1>11, Heads DEF PacketHooks, EventHooks, PageHooks, Begin, CallType, ListType
  <2>5. ListInv'
    BY <1>11, Heads DEF PacketHooks, EventHooks, PageHooks, Begin, ListInv, ListType
  <2>6. DestroyInv'
    BY <1>11, Heads DEF PacketHooks, EventHooks, PageHooks, Begin, DestroyInv, ListInv,
           LockType, FlagType, GuestInv
  <2>7. GuestInv'
    BY <1>11, Heads DEF PacketHooks, EventHooks, PageHooks, Begin, GuestInv, ListInv,
           DestroyInv, LockType, CallType, Current
  <2>8. StaleInv'
    BY <1>11, Heads DEF PacketHooks, EventHooks, PageHooks, Begin, StaleInv, ListInv,
           DestroyInv, CallType, FlagType, ListType
  <2>9. NoOrphan'
    BY <1>11, Heads DEF PacketHooks, EventHooks, PageHooks, Begin, NoOrphan, ListInv,
           DestroyInv, GuestInv, LockType, FlagType, Current
  <2>. QED
    BY <2>1, <2>2, <2>3, <2>4, <2>5, <2>6, <2>7, <2>8, <2>9
<1>12. ASSUME NEW c \in Callers, NEW p \in Paths, NEW v \in Values, Update(c, p, v) PROVE IInv'
  <2>1. ListType'
    BY <1>12, Heads DEF Update, ListType
  <2>2. FlagType'
    BY <1>12, Heads DEF Update, FlagType
  <2>3. LockType'
    BY <1>12, Heads DEF Update, LockType
  <2>4. CallType'
    BY <1>12, Heads DEF Update, CallType, ListType
  <2>5. ListInv'
    BY <1>12, Heads DEF Update, ListInv, ListType
  <2>6. DestroyInv'
    BY <1>12, Heads DEF Update, DestroyInv, ListInv, LockType, FlagType, GuestInv
  <2>7. GuestInv'
    BY <1>12, Heads DEF Update, GuestInv, ListInv, DestroyInv, LockType, CallType, Current
  <2>8. StaleInv'
    BY <1>12, Heads DEF Update, StaleInv, ListInv, DestroyInv, CallType, FlagType, ListType
  <2>9. NoOrphan'
    BY <1>12, Heads DEF Update, NoOrphan, ListInv, DestroyInv, GuestInv, LockType, FlagType,
           Current
  <2>. QED
    BY <2>1, <2>2, <2>3, <2>4, <2>5, <2>6, <2>7, <2>8, <2>9
<1>13. ASSUME NEW c \in Callers, SetJson(c) PROVE IInv'
  BY <1>13, Heads DEF SetJson, ListType, FlagType, LockType, CallType, ListInv, DestroyInv,
         GuestInv, StaleInv, NoOrphan, Current
<1>14. ASSUME NEW c \in Callers, Refused(c) PROVE IInv'
  <2>1. ListType'
    BY <1>14, Heads DEF Refused, ListType
  <2>2. FlagType'
    BY <1>14, Heads DEF Refused, FlagType
  <2>3. LockType'
    BY <1>14, Heads DEF Refused, LockType
  <2>4. CallType'
    BY <1>14, Heads DEF Refused, CallType, ListType
  <2>5. ListInv'
    BY <1>14, Heads DEF Refused, ListInv, ListType
  <2>6. DestroyInv'
    BY <1>14, Heads DEF Refused, DestroyInv, ListInv, LockType, FlagType, GuestInv
  <2>7. GuestInv'
    BY <1>14, Heads DEF Refused, GuestInv, ListInv, DestroyInv, LockType, CallType, Current
  <2>8. StaleInv'
    BY <1>14, Heads DEF Refused, StaleInv, ListInv, DestroyInv, CallType, FlagType, ListType
  <2>9. NoOrphan'
    BY <1>14, Heads DEF Refused, NoOrphan, ListInv, DestroyInv, GuestInv, LockType, FlagType,
           Current
  <2>. QED
    BY <2>1, <2>2, <2>3, <2>4, <2>5, <2>6, <2>7, <2>8, <2>9
<1>15. ASSUME NEW c \in Callers, Enter(c) PROVE IInv'
  <2>1. ListType'
    BY <1>15, Heads DEF Enter, ListType
  <2>2. FlagType'
    BY <1>15, Heads DEF Enter, FlagType
  <2>3. LockType'
    BY <1>15, Heads DEF Enter, LockType
  <2>4. CallType'
    BY <1>15, Heads DEF Enter, CallType, ListType
  <2>5. ListInv'
    BY <1>15, Heads DEF Enter, ListInv, ListType
  <2>6. DestroyInv'
    BY <1>15, Heads DEF Enter, DestroyInv, ListInv, LockType, FlagType, GuestInv
  <2>7. GuestInv'
    BY <1>15, Heads DEF Enter, GuestInv, StaleInv, ListInv, DestroyInv, LockType, CallType,
           Current
  <2>8. StaleInv'
    BY <1>15, Heads DEF Enter, StaleInv, ListInv, DestroyInv, CallType, FlagType, ListType
  <2>9. NoOrphan'
    BY <1>15, Heads DEF Enter, NoOrphan, ListInv, DestroyInv, GuestInv, LockType, FlagType,
           Current
  <2>. QED
    BY <2>1, <2>2, <2>3, <2>4, <2>5, <2>6, <2>7, <2>8, <2>9
<1>16. ASSUME NEW c \in Callers, Create(c) PROVE IInv'
  <2>1. ListType'
    BY <1>16, Heads DEF Create, ListType
  <2>2. FlagType'
    BY <1>16, Heads DEF Create, FlagType
  <2>3. LockType'
    BY <1>16, Heads DEF Create, LockType
  <2>4. CallType'
    BY <1>16, Heads DEF Create, CallType, ListType
  <2>5. ListInv'
    BY <1>16, Heads DEF Create, ListInv, ListType
  <2>6. DestroyInv'
    BY <1>16, Heads DEF Create, DestroyInv, ListInv, LockType, FlagType, GuestInv
  <2>7. GuestInv'
    BY <1>16, Heads DEF Create, GuestInv, ListInv, DestroyInv, LockType, CallType, Current
  <2>8. StaleInv'
    BY <1>16, Heads DEF Create, StaleInv, ListInv, DestroyInv, CallType, FlagType, ListType
  <2>9. NoOrphan'
    BY <1>16, Heads DEF Create, NoOrphan, ListInv, DestroyInv, GuestInv, LockType, FlagType,
           Current
  <2>. QED
    BY <2>1, <2>2, <2>3, <2>4, <2>5, <2>6, <2>7, <2>8, <2>9
<1>17. ASSUME NEW c \in Callers, Returns(c) PROVE IInv'
  <2>1. ListType'
    BY <1>17, Heads DEF Returns, ListType
  <2>2. FlagType'
    BY <1>17, Heads DEF Returns, FlagType
  <2>3. LockType'
    BY <1>17, Heads DEF Returns, LockType
  <2>4. CallType'
    BY <1>17, Heads DEF Returns, CallType, ListType
  <2>5. ListInv'
    BY <1>17, Heads DEF Returns, ListInv, ListType
  <2>6. DestroyInv'
    BY <1>17, Heads DEF Returns, DestroyInv, ListInv, LockType, FlagType, GuestInv
  <2>7. GuestInv'
    BY <1>17, Heads DEF Returns, GuestInv, ListInv, DestroyInv, LockType, CallType, Current
  <2>8. StaleInv'
    BY <1>17, Heads DEF Returns, StaleInv, ListInv, DestroyInv, CallType, FlagType, ListType
  <2>9. NoOrphan'
    BY <1>17, Heads DEF Returns, NoOrphan, ListInv, DestroyInv, GuestInv, LockType, FlagType,
           Current
  <2>. QED
    BY <2>1, <2>2, <2>3, <2>4, <2>5, <2>6, <2>7, <2>8, <2>9
<1>18. ASSUME NEW c \in Callers, Traps(c) PROVE IInv'
  <2>1. ListType'
    BY <1>18, Heads DEF Traps, ListType
  <2>2. FlagType'
    BY <1>18, Heads DEF Traps, FlagType
  <2>3. LockType'
    BY <1>18, Heads DEF Traps, LockType
  <2>4. CallType'
    BY <1>18, Heads DEF Traps, CallType, ListType
  <2>5. ListInv'
    BY <1>18, Heads DEF Traps, ListInv, ListType
  <2>6. DestroyInv'
    BY <1>18, Heads DEF Traps, DestroyInv, ListInv, LockType, FlagType, GuestInv
  <2>7. GuestInv'
    BY <1>18, Heads DEF Traps, GuestInv, ListInv, DestroyInv, LockType, CallType, Current
  <2>8. StaleInv'
    BY <1>18, Heads DEF Traps, StaleInv, ListInv, DestroyInv, CallType, FlagType, ListType
  <2>9. NoOrphan'
    BY <1>18, Heads DEF Traps, NoOrphan, ListInv, DestroyInv, GuestInv, LockType, FlagType,
           Current
  <2>. QED
    BY <2>1, <2>2, <2>3, <2>4, <2>5, <2>6, <2>7, <2>8, <2>9
<1>19. ASSUME NEW c \in Callers, Decides(c) PROVE IInv'
  <2>1. ListType'
    BY <1>19, Heads DEF Decides, ListType
  <2>2. FlagType'
    BY <1>19, Heads DEF Decides, FlagType
  <2>3. LockType'
    BY <1>19, Heads DEF Decides, LockType
  <2>4. CallType'
    BY <1>19, Heads DEF Decides, CallType, ListType
  <2>5. ListInv'
    BY <1>19, Heads DEF Decides, ListInv, ListType
  <2>6. DestroyInv'
    BY <1>19, Heads DEF Decides, DestroyInv, ListInv, LockType, FlagType, GuestInv
  <2>7. GuestInv'
    BY <1>19, Heads DEF Decides, GuestInv, ListInv, DestroyInv, LockType, CallType, Current
  <2>8. StaleInv'
    BY <1>19, Heads DEF Decides, StaleInv, ListInv, DestroyInv, CallType, FlagType, ListType
  <2>9. NoOrphan'
    BY <1>19, Heads DEF Decides, NoOrphan, ListInv, DestroyInv, GuestInv, LockType, FlagType,
           Current
  <2>. QED
    BY <2>1, <2>2, <2>3, <2>4, <2>5, <2>6, <2>7, <2>8, <2>9
<1>20. ASSUME NEW c \in Callers, Finish(c) PROVE IInv'
  <2>1. ListType'
    BY <1>20, Heads DEF Finish, ListType
  <2>2. FlagType'
    BY <1>20, Heads DEF Finish, FlagType
  <2>3. LockType'
    BY <1>20, Heads DEF Finish, LockType
  <2>4. CallType'
    BY <1>20, Heads DEF Finish, CallType, ListType
  <2>5. ListInv'
    BY <1>20, Heads DEF Finish, ListInv, ListType
  <2>6. DestroyInv'
    BY <1>20, Heads DEF Finish, DestroyInv, ListInv, LockType, FlagType, GuestInv
  <2>7. GuestInv'
    BY <1>20, Heads DEF Finish, GuestInv, ListInv, DestroyInv, LockType, CallType, Current
  <2>8. StaleInv'
    BY <1>20, Heads DEF Finish, StaleInv, ListInv, DestroyInv, CallType, FlagType, ListType
  <2>9. NoOrphan'
    BY <1>20, Heads DEF Finish, NoOrphan, ListInv, DestroyInv, GuestInv, LockType, FlagType,
           Current
  <2>. QED
    BY <2>1, <2>2, <2>3, <2>4, <2>5, <2>6, <2>7, <2>8, <2>9
<1>21. ASSUME NEW c \in Callers, HookLoops(c) PROVE IInv'
  <2>1. ListType'
    BY <1>21, Heads DEF HookLoops, Runs, ListType
  <2>2. FlagType'
    BY <1>21, Heads DEF HookLoops, Runs, FlagType
  <2>3. LockType'
    BY <1>21, Heads DEF HookLoops, Runs, LockType
  <2>4. CallType'
    BY <1>21, Heads DEF HookLoops, Runs, CallType, ListType
  <2>5. ListInv'
    BY <1>21, Heads DEF HookLoops, Runs, ListInv, ListType
  <2>6. DestroyInv'
    BY <1>21, Heads DEF HookLoops, Runs, DestroyInv, ListInv, LockType, FlagType, GuestInv
  <2>7. GuestInv'
    BY <1>21, Heads DEF HookLoops, Runs, GuestInv, ListInv, DestroyInv, LockType, CallType, Current
  <2>8. StaleInv'
    BY <1>21, Heads DEF HookLoops, Runs, StaleInv, ListInv, DestroyInv, CallType, FlagType, ListType
  <2>9. NoOrphan'
    BY <1>21, Heads DEF HookLoops, Runs, NoOrphan, ListInv, DestroyInv, GuestInv, LockType, FlagType,
           Current
  <2>. QED
    BY <2>1, <2>2, <2>3, <2>4, <2>5, <2>6, <2>7, <2>8, <2>9
<1>23. ASSUME NEW c \in Callers, Instantiate(c) PROVE IInv'
  <2>1. ListType'
    BY <1>23, Heads DEF Instantiate, ListType
  <2>2. FlagType'
    BY <1>23, Heads DEF Instantiate, FlagType
  <2>3. LockType'
    BY <1>23, Heads DEF Instantiate, LockType
  <2>4. CallType'
    BY <1>23, Heads DEF Instantiate, CallType, ListType
  <2>5. ListInv'
    BY <1>23, Heads DEF Instantiate, ListInv, ListType
  <2>6. DestroyInv'
    BY <1>23, Heads DEF Instantiate, DestroyInv, ListInv, LockType, FlagType, GuestInv
  <2>7. GuestInv'
    BY <1>23, Heads DEF Instantiate, GuestInv, ListInv, DestroyInv, LockType, CallType, Current
  <2>8. StaleInv'
    BY <1>23, Heads DEF Instantiate, StaleInv, ListInv, DestroyInv, CallType, FlagType, ListType
  <2>9. NoOrphan'
    BY <1>23, Heads DEF Instantiate, NoOrphan, ListInv, DestroyInv, GuestInv, LockType, FlagType,
           Current
  <2>. QED
    BY <2>1, <2>2, <2>3, <2>4, <2>5, <2>6, <2>7, <2>8, <2>9
<1>24. ASSUME NEW c \in Callers, HookAsks(c) PROVE IInv'
  <2>1. ListType'
    BY <1>24, Heads DEF HookAsks, Runs, ListType
  <2>2. FlagType'
    BY <1>24, Heads DEF HookAsks, Runs, FlagType
  <2>3. LockType'
    BY <1>24, Heads DEF HookAsks, Runs, LockType
  <2>4. CallType'
    BY <1>24, Heads DEF HookAsks, Runs, CallType, ListType
  <2>5. ListInv'
    BY <1>24, Heads DEF HookAsks, Runs, ListInv, ListType
  <2>6. DestroyInv'
    BY <1>24, Heads DEF HookAsks, Runs, DestroyInv, ListInv, LockType, FlagType, GuestInv
  <2>7. GuestInv'
    BY <1>24, Heads DEF HookAsks, Runs, GuestInv, ListInv, DestroyInv, LockType, CallType, Current
  <2>8. StaleInv'
    BY <1>24, Heads DEF HookAsks, Runs, StaleInv, ListInv, DestroyInv, CallType, FlagType, ListType
  <2>9. NoOrphan'
    BY <1>24, Heads DEF HookAsks, Runs, NoOrphan, ListInv, DestroyInv, GuestInv, LockType, FlagType,
           Current
  <2>. QED
    BY <2>1, <2>2, <2>3, <2>4, <2>5, <2>6, <2>7, <2>8, <2>9
<1>25. ASSUME NEW c \in Callers, HookAnswered(c) PROVE IInv'
  <2>1. ListType'
    BY <1>25, Heads DEF HookAnswered, ListType
  <2>2. FlagType'
    BY <1>25, Heads DEF HookAnswered, FlagType
  <2>3. LockType'
    BY <1>25, Heads DEF HookAnswered, LockType
  <2>4. CallType'
    BY <1>25, Heads DEF HookAnswered, CallType, ListType
  <2>5. ListInv'
    BY <1>25, Heads DEF HookAnswered, ListInv, ListType
  <2>6. DestroyInv'
    BY <1>25, Heads DEF HookAnswered, DestroyInv, ListInv, LockType, FlagType, GuestInv
  <2>7. GuestInv'
    BY <1>25, Heads DEF HookAnswered, GuestInv, ListInv, DestroyInv, LockType, CallType, Current
  <2>8. StaleInv'
    BY <1>25, Heads DEF HookAnswered, StaleInv, ListInv, DestroyInv, CallType, FlagType, ListType
  <2>9. NoOrphan'
    BY <1>25, Heads DEF HookAnswered, NoOrphan, ListInv, DestroyInv, GuestInv, LockType, FlagType,
           Current
  <2>. QED
    BY <2>1, <2>2, <2>3, <2>4, <2>5, <2>6, <2>7, <2>8, <2>9
<1>26. CASE DestroyAsks
  <2>1. ListType'
    BY <1>26, Heads DEF DestroyAsks, ListType
  <2>2. FlagType'
    BY <1>26, Heads DEF DestroyAsks, FlagType
  <2>3. LockType'
    BY <1>26, Heads DEF DestroyAsks, LockType
  <2>4. CallType'
    BY <1>26, Heads DEF DestroyAsks, CallType, ListType
  <2>5. ListInv'
    BY <1>26, Heads DEF DestroyAsks, ListInv, ListType
  <2>6. DestroyInv'
    BY <1>26, Heads DEF DestroyAsks, DestroyInv, ListInv, LockType, FlagType, GuestInv
  <2>7. GuestInv'
    BY <1>26, Heads DEF DestroyAsks, GuestInv, ListInv, DestroyInv, LockType, CallType, Current
  <2>8. StaleInv'
    BY <1>26, Heads DEF DestroyAsks, StaleInv, ListInv, DestroyInv, CallType, FlagType, ListType
  <2>9. NoOrphan'
    BY <1>26, Heads DEF DestroyAsks, NoOrphan, ListInv, DestroyInv, GuestInv, LockType, FlagType,
           Current
  <2>. QED
    BY <2>1, <2>2, <2>3, <2>4, <2>5, <2>6, <2>7, <2>8, <2>9
<1>27. CASE DestroyAnswered
  <2>1. ListType'
    BY <1>27, Heads DEF DestroyAnswered, ListType
  <2>2. FlagType'
    BY <1>27, Heads DEF DestroyAnswered, FlagType
  <2>3. LockType'
    BY <1>27, Heads DEF DestroyAnswered, LockType
  <2>4. CallType'
    BY <1>27, Heads DEF DestroyAnswered, CallType, ListType
  <2>5. ListInv'
    BY <1>27, Heads DEF DestroyAnswered, ListInv, ListType
  <2>6. DestroyInv'
    BY <1>27, Heads DEF DestroyAnswered, DestroyInv, ListInv, LockType, FlagType, GuestInv
  <2>7. GuestInv'
    BY <1>27, Heads DEF DestroyAnswered, GuestInv, ListInv, DestroyInv, LockType, CallType, Current
  <2>8. StaleInv'
    BY <1>27, Heads DEF DestroyAnswered, StaleInv, ListInv, DestroyInv, CallType, FlagType, ListType
  <2>9. NoOrphan'
    BY <1>27, Heads DEF DestroyAnswered, NoOrphan, ListInv, DestroyInv, GuestInv, LockType, FlagType,
           Current
  <2>. QED
    BY <2>1, <2>2, <2>3, <2>4, <2>5, <2>6, <2>7, <2>8, <2>9
<1>22. CASE UNCHANGED vars
  BY <1>22, Heads DEF vars, ListType, FlagType, LockType, CallType, ListInv, DestroyInv,
         GuestInv, StaleInv, NoOrphan, Current
<1>. QED
  BY <1>1, <1>2, <1>3, <1>4, <1>5, <1>6, <1>7, <1>8, <1>9, <1>10, <1>11, <1>12, <1>13, <1>14,
         <1>15, <1>16, <1>17, <1>18, <1>19, <1>20, <1>21, <1>22, <1>23, <1>24, <1>25, <1>26, <1>27
     DEF Next, Watcher, Call, Callers

\* No guest instance outlives the destruction of its engine (NoOrphan), however
\* reloads fall between the steps of those who call it.
THEOREM NoneOutlivesItsEngine == Spec => []NoOrphan
<1>1. IInv => NoOrphan
  BY DEF IInv
<1>. QED
  BY <1>1, InitIInv, NextIInv, PTL DEF Spec

---------------------------------------------------------------------------
(* The registry and the directory.                                         *)

\* Numbering a set in its order reaches every number up to its size once.
LEMMA Ranks ==
  ASSUME NEW S \in SUBSET Nat, IsFiniteSet(S)
  PROVE  LET Rank(p) == Cardinality({q \in S : q <= p})
         IN  /\ \A p \in S : Rank(p) \in 1..Cardinality(S)
             /\ \A p, r \in S : Rank(p) = Rank(r) => p = r
             /\ \A n \in 1..Cardinality(S) : \E p \in S : Rank(p) = n
<1>. DEFINE Rank(p) == Cardinality({q \in S : q <= p})
            f == [p \in S |-> Rank(p)]
<1>1. \A p \in S : IsFiniteSet({q \in S : q <= p}) /\ Rank(p) \in Nat /\ Rank(p) <= Cardinality(S)
  BY FS_Subset, FS_CardinalityType
<1>2. Cardinality(S) \in Nat
  BY FS_CardinalityType
<1>3. \A p \in S : Rank(p) # 0
  <2>. SUFFICES ASSUME NEW p \in S, Cardinality({q \in S : q <= p}) = 0 PROVE FALSE
    OBVIOUS
  <2>1. {q \in S : q <= p} = {}
    BY <1>1, FS_EmptySet
  <2>. QED
    BY <2>1
<1>4. ASSUME NEW p \in S, NEW r \in S, p < r PROVE Rank(p) # Rank(r)
  <2>. DEFINE P == {q \in S : q <= p}
              R == {q \in S : q <= r}
  <2>1. P \in SUBSET R /\ r \in R /\ r \notin P
    <3>1. p \in Nat /\ r \in Nat /\ \A q \in S : q \in Nat
      OBVIOUS
    <3>2. \A q \in S : q <= p => q <= r
      BY <1>4, <3>1
    <3>3. ~(r <= p) /\ r <= r
      BY <1>4, <3>1
    <3>. QED
      BY <3>2, <3>3
  <2>2. IsFiniteSet(R)
    BY <1>1
  <2>. HIDE DEF P, R
  <2>3. Cardinality(P) # Cardinality(R)
    BY <2>1, <2>2, FS_Subset
  <2>. QED
    BY <2>3 DEF P, R
<1>5. \A p, r \in S : Rank(p) = Rank(r) => p = r
  <2>1. \A p, r \in S : p < r \/ r < p \/ p = r
    OBVIOUS
  <2>. HIDE DEF Rank
  <2>. QED
    BY <1>4, <2>1
<1>6. f \in Injection(S, 1..Cardinality(S))
  <2>1. \A p \in S : Rank(p) \in 1..Cardinality(S)
    BY <1>1, <1>2, <1>3
  <2>. HIDE DEF Rank
  <2>. QED
    BY <1>5, <2>1 DEF Injection, IsInjective
<1>7. IsFiniteSet(1..Cardinality(S)) /\ Cardinality(1..Cardinality(S)) = Cardinality(S)
  BY <1>2, FS_Interval
<1>8. f \in Surjection(S, 1..Cardinality(S))
  <2>. HIDE DEF f
  <2>. QED
    BY <1>6, <1>7, FS_Injection
<1>9. \A n \in 1..Cardinality(S) : \E p \in S : f[p] = n
  BY <1>8 DEF Surjection
<1>. QED
  BY <1>1, <1>2, <1>3, <1>5, <1>9

\* A list of engines that is that of the files.
Follows(S) ==
    /\ {pathOf[e] : e \in S} = {p \in Paths : Loadable(p)}
    /\ \A e \in S : code[e] = disk[pathOf[e]]

\* What was changed since the directory was read has left a notification.
FollowInv ==
    /\ watch \in Nat
    /\ \/ early \/ watch > 0 \/ wpc = "scan"
       \/ wpc = "swap" /\ Follows(fresh)
       \/ wpc # "swap" /\ Follows(reg)

LEMMA ScanFollows == ASSUME IInv, Scan PROVE Follows(fresh)'
<1>. DEFINE good == {p \in Paths : Loadable(p)}
            Rank(p) == Cardinality({q \in good : q <= p})
            Of(e) == CHOOSE p \in good : used + Rank(p) = e
<1>1. /\ good \in SUBSET Nat /\ IsFiniteSet(good) /\ Cardinality(good) \in Nat /\ used \in Nat
  <2>1. good \in SUBSET Paths
    OBVIOUS
  <2>2. used \in Nat
    BY EnginesAssumption DEF IInv, Types, ListType
  <2>. HIDE DEF good
  <2>. QED
    BY <2>1, <2>2, PathsAssumption, FS_Subset, FS_CardinalityType
<1>2. /\ \A p \in good : Rank(p) \in 1..Cardinality(good)
      /\ \A p, r \in good : Rank(p) = Rank(r) => p = r
      /\ \A n \in 1..Cardinality(good) : \E p \in good : Rank(p) = n
  <2>. HIDE DEF good
  <2>. QED
    BY <1>1, Ranks
<1>3. /\ used + Cardinality(good) <= MaxEngines
      /\ fresh' = used + 1 .. used + Cardinality(good)
      /\ pathOf' = [e \in Engines |-> IF e \in fresh' THEN Of(e) ELSE pathOf[e]]
      /\ code' = [e \in Engines |-> IF e \in fresh' THEN disk[Of(e)] ELSE code[e]]
      /\ disk' = disk
  BY DEF Scan, fileVars
<1>. HIDE DEF Rank
<1>4. \A e \in fresh' : Of(e) \in good /\ used + Rank(Of(e)) = e
  <2>. SUFFICES ASSUME NEW e \in fresh' PROVE \E p \in good : used + Rank(p) = e
    OBVIOUS
  <2>1. e - used \in 1..Cardinality(good) /\ used + (e - used) = e
    BY <1>1, <1>3
  <2>. QED
    BY <1>2, <2>1
<1>5. \A p \in good : used + Rank(p) \in fresh' /\ Of(used + Rank(p)) = p
  <2>. SUFFICES ASSUME NEW p \in good PROVE used + Rank(p) \in fresh' /\ Of(used + Rank(p)) = p
    OBVIOUS
  <2>1. used + Rank(p) \in fresh' /\ Rank(p) \in Nat
    BY <1>1, <1>2, <1>3
  <2>2. Of(used + Rank(p)) \in good /\ used + Rank(Of(used + Rank(p))) = used + Rank(p)
    BY <1>4, <2>1
  <2>. HIDE DEF Of
  <2>3. Rank(Of(used + Rank(p))) \in Nat
    <3>1. \A q \in good : Rank(q) \in Nat
      BY <1>1, <1>2
    <3>. HIDE DEF good
    <3>. QED
      BY <2>2, <3>1
  <2>4. Rank(Of(used + Rank(p))) = Rank(p)
    BY <1>1, <2>1, <2>2, <2>3
  <2>. QED
    BY <1>2, <2>1, <2>2, <2>4
<1>. HIDE DEF Of, good
<1>6. fresh' \subseteq Engines
  BY <1>1, <1>3, EnginesAssumption DEF Engines
<1>7. \A e \in fresh' : pathOf'[e] = Of(e) /\ code'[e] = disk'[pathOf'[e]]
  BY <1>3, <1>6
<1>8. {pathOf'[e] : e \in fresh'} = good
  BY <1>4, <1>5, <1>7
<1>9. good = {p \in Paths : Loadable(p)}'
  BY <1>3 DEF good, Loadable
<1>. QED
  BY <1>7, <1>8, <1>9 DEF Follows

LEMMA NextFollowInv == IInv /\ FollowInv /\ [Next]_vars => FollowInv'
<1>. SUFFICES ASSUME IInv, FollowInv, [Next]_vars PROVE FollowInv'
  OBVIOUS
<1>. USE DEF fileVars, watchVars, engineVars, callVars, Next1, Unlock, Done, MakeDir
<1>0. ASSUME watch' = watch \/ watch' = watch + 1,
             UNCHANGED <<disk, early, pathOf, code, reg, fresh>>,
             wpc' = wpc \/ (wpc \notin {"scan", "swap"} /\ wpc' \notin {"scan", "swap"})
      PROVE  FollowInv'
  BY <1>0 DEF FollowInv, Follows, Loadable
<1>1. ASSUME NEW p \in Paths, EditFile(p) PROVE FollowInv'
  BY <1>1 DEF EditFile, FollowInv
<1>2. CASE Recv
  BY <1>2 DEF Recv, FollowInv
<1>3. CASE Scan
  BY <1>3, ScanFollows DEF Scan, FollowInv
<1>4. CASE Swap
  BY <1>4 DEF Swap, FollowInv, Follows, Loadable
<1>5. CASE Close \/ Reloaded \/ Take \/ Destroyed
  BY <1>0, <1>5 DEF Close, Reloaded, Take, Destroyed
<1>6. CASE DestroyLoops \/ DestroyAsks \/ DestroyAnswered
  BY <1>0, <1>6 DEF DestroyLoops, DestroyAsks, DestroyAnswered
<1>7. ASSUME NEW c \in Callers, PacketHooks(c) \/ EventHooks(c) \/ PageHooks(c) PROVE FollowInv'
  BY <1>0, <1>7 DEF PacketHooks, EventHooks, PageHooks, Begin
<1>8. ASSUME NEW c \in Callers, NEW p \in Paths, NEW v \in Values, Update(c, p, v)
      PROVE  FollowInv'
  BY <1>0, <1>8 DEF Update
<1>9. ASSUME NEW c \in Callers, Call(c) PROVE FollowInv'
  <2>1. CASE Instantiate(c)
    BY <1>0, <2>1 DEF Instantiate
  <2>2. CASE ~Instantiate(c)
    BY <1>0, <1>9, <2>2 DEF Call, SetJson, Refused, Enter, Create, Returns, Traps, Decides, Finish
  <2>. QED
    BY <2>1, <2>2
<1>11. ASSUME NEW c \in Callers, HookLoops(c) \/ HookAsks(c) \/ HookAnswered(c) \/ Deadline(c)
       PROVE  FollowInv'
  BY <1>0, <1>11 DEF HookLoops, HookAsks, HookAnswered, Deadline
<1>10. CASE UNCHANGED vars
  BY <1>0, <1>10 DEF vars
<1>. QED
  BY <1>1, <1>2, <1>3, <1>4, <1>5, <1>6, <1>7, <1>8, <1>9, <1>10, <1>11
     DEF Next, Watcher, Callers

\* At rest, the registry lists the files that load with their present content
\* (RegistryFollowsFiles), whatever changed while they were being loaded.
THEOREM RegistryFollows == Spec => []RegistryFollowsFiles
<1>1. Init => FollowInv
  BY DEF Init, FollowInv
<1>2. FollowInv => RegistryFollowsFiles
  BY DEF FollowInv, Follows, RegistryFollowsFiles
<1>. QED
  BY <1>1, <1>2, InitIInv, NextIInv, NextFollowInv, PTL DEF Spec

=============================================================================
