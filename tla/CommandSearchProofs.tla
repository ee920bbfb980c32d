------------------------- MODULE CommandSearchProofs -------------------------
(***************************************************************************)
(* The binary search is right for sorted lists of every length: the        *)
(* position of the name, if it has one, never leaves l .. r - 1.           *)
(***************************************************************************)
EXTENDS CommandSearch, TLAPS

List == /\ size \in Nat
        /\ m_cmd_defs \in [0 .. size - 1 -> Nat]
        /\ name \in Nat
        /\ Sorted(m_cmd_defs)

Bounds == /\ l \in Nat /\ r \in Nat
          /\ l <= r /\ r <= size

(* What was cut off is too small on the left and too large on the right. *)
Cut == /\ \A i \in 0 .. size - 1 : i < l => m_cmd_defs[i] < name
       /\ \A i \in 0 .. size - 1 : i >= r => name < m_cmd_defs[i]

IInv == List /\ Bounds /\ Cut /\ FindsCommand

LEMMA InitInv == Init => IInv
<1> SUFFICES ASSUME Init PROVE IInv
  OBVIOUS
<1>1. size \in Nat /\ name \in Nat
  BY SizesAssumption, NamesAssumption DEF Init
<1>2. List
  BY <1>1, NamesAssumption DEF Init, List
<1>3. l = 0 /\ r = size /\ ~done
  BY DEF Init
<1>4. Bounds
  BY <1>1, <1>3 DEF Bounds
<1>5. Cut
  BY <1>1, <1>3 DEF Cut
<1>6. FindsCommand
  BY <1>3 DEF FindsCommand
<1> QED BY <1>2, <1>4, <1>5, <1>6 DEF IInv

LEMMA MidInside ==
    ASSUME IInv, l # r
    PROVE  mid \in 0 .. size - 1 /\ l <= mid /\ mid < r
  BY DEF IInv, Bounds, List, mid

LEMMA StepInv ==
    ASSUME IInv, [Next]_vars
    PROVE  IInv'
<1>1. CASE UNCHANGED vars
  BY <1>1 DEF vars, IInv, List, Bounds, Cut, FindsCommand, Sorted
<1>2. CASE Next
  <2>0. UNCHANGED <<m_cmd_defs, size, name>> /\ List'
    BY <1>2 DEF Next, IInv, List, Sorted
  <2>a. /\ size \in Nat /\ name \in Nat /\ l \in Nat /\ r \in Nat
        /\ DOMAIN m_cmd_defs = 0 .. size - 1
        /\ \A i \in 0 .. size - 1 : m_cmd_defs[i] \in Nat
    BY DEF IInv, List, Bounds
  <2>1. CASE Found
    <3>1. mid \in 0 .. size - 1
      BY <2>1, MidInside DEF Found
    <3>2. FindsCommand'
      BY <2>0, <2>1, <2>a, <3>1 DEF Found, Return, FindsCommand
    <3> QED BY <2>0, <2>1, <3>2 DEF Found, Return, IInv, Bounds, Cut
  <2>2. CASE GoLeft
    <3>1. mid \in 0 .. size - 1 /\ l <= mid /\ mid < r
      BY <2>2, MidInside DEF GoLeft
    <3>2. \A i \in 0 .. size - 1 : i >= mid => name < m_cmd_defs[i]
      <4> SUFFICES ASSUME NEW i \in 0 .. size - 1, i >= mid PROVE name < m_cmd_defs[i]
        OBVIOUS
      <4>1. i = mid \/ m_cmd_defs[mid] < m_cmd_defs[i]
        BY <2>a, <3>1 DEF IInv, List, Sorted
      <4> QED BY <2>2, <2>a, <3>1, <4>1 DEF GoLeft
    <3>3. l' = l /\ r' = mid /\ done' = done /\ index' = index
      BY <2>2 DEF GoLeft
    <3>4. Bounds'
      BY <2>0, <2>a, <3>1, <3>3 DEF IInv, Bounds
    <3>5. Cut'
      BY <2>0, <3>2, <3>3 DEF IInv, Cut
    <3>6. FindsCommand'
      BY <2>0, <3>3 DEF IInv, FindsCommand
    <3> QED BY <2>0, <3>4, <3>5, <3>6 DEF IInv
  <2>3. CASE GoRight
    <3>1. mid \in 0 .. size - 1 /\ l <= mid /\ mid < r
      BY <2>3, MidInside DEF GoRight
    <3>2. \A i \in 0 .. size - 1 : i < mid + 1 => m_cmd_defs[i] < name
      <4> SUFFICES ASSUME NEW i \in 0 .. size - 1, i < mid + 1 PROVE m_cmd_defs[i] < name
        OBVIOUS
      <4>1. i = mid \/ m_cmd_defs[i] < m_cmd_defs[mid]
        BY <2>a, <3>1 DEF IInv, List, Sorted
      <4> QED BY <2>3, <2>a, <3>1, <4>1 DEF GoRight
    <3>3. l' = mid + 1 /\ r' = r /\ done' = done /\ index' = index
      BY <2>3 DEF GoRight
    <3>4. Bounds'
      BY <2>0, <2>a, <3>1, <3>3 DEF IInv, Bounds
    <3>5. Cut'
      BY <2>0, <3>2, <3>3 DEF IInv, Cut
    <3>6. FindsCommand'
      BY <2>0, <3>3 DEF IInv, FindsCommand
    <3> QED BY <2>0, <3>4, <3>5, <3>6 DEF IInv
  <2>4. CASE NotFound
    <3>1. \A i \in 0 .. size - 1 : m_cmd_defs[i] # name
      BY <2>4, <2>a DEF NotFound, IInv, Cut
    <3>2. FindsCommand'
      BY <2>0, <2>4, <2>a, <3>1 DEF NotFound, Return, FindsCommand
    <3> QED BY <2>0, <2>4, <3>2 DEF NotFound, Return, IInv, Bounds, Cut
  <2> QED BY <1>2, <2>1, <2>2, <2>3, <2>4 DEF Next, Step
<1> QED BY <1>1, <1>2

(* The search in a sorted list gives the position of the command of that   *)
(* name, and -1 only when there is none.                                   *)
THEOREM SearchFindsCommand == Spec => []FindsCommand
<1>1. Spec => []IInv
  BY InitInv, StepInv, PTL DEF Spec
<1>2. IInv => FindsCommand
  BY DEF IInv
<1> QED BY <1>1, <1>2, PTL
=============================================================================
