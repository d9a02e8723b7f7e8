------------------------- MODULE WorkInProgressProofs -------------------------
(***************************************************************************)
(* The notice stays closed, for any number of tabs.                        *)
(*                                                                         *)
(* ClosedStaysClosed speaks of tabs that show the notice; a step that      *)
(* mounts a tab needs to know what the storage will say.  The invariant    *)
(* therefore adds that a tab loaded late finds the mark for as long as its *)
(* effect has not run.                                                     *)
(***************************************************************************)
EXTENDS WorkInProgress, TLAPS

ClosedIsDismissed == closedHere \subseteq mounted \cap dismissed
LateFindsMark ==
  \A t \in latecomers : IF t \in mounted THEN t \in dismissed ELSE stored /\ CanRead

Inv == TypeOK /\ ClosedIsDismissed /\ LateFindsMark

LEMMA InitInv == Init => Inv
<1> SUFFICES ASSUME Init PROVE Inv
  OBVIOUS
<1>1. TypeOK /\ ClosedIsDismissed
  BY DEF Init, TypeOK, ClosedIsDismissed
<1>2. LateFindsMark
  BY DEF Init, LateFindsMark
<1> QED BY <1>1, <1>2 DEF Inv

LEMMA StepInv == Inv /\ [Next]_vars => Inv'
<1> SUFFICES ASSUME Inv, [Next]_vars PROVE Inv'
  OBVIOUS
<1> USE DEF Inv, TypeOK, ClosedIsDismissed, LateFindsMark, Access, CanRead
<1>1. ASSUME NEW t \in Tabs, Reload(t) PROVE Inv'
  BY <1>1 DEF Reload
<1>2. ASSUME NEW t \in Tabs, ReadStorage(t) PROVE Inv'
  BY <1>2 DEF ReadStorage
<1>3. ASSUME NEW t \in Tabs, Dismiss(t) PROVE Inv'
  <2>1. /\ stored' = (stored \/ CanWrite) /\ dismissed' = dismissed \cup {t}
        /\ closedHere' = closedHere \cup {t} /\ t \in mounted
        /\ UNCHANGED <<access, mounted, latecomers>>
    BY <1>3 DEF Dismiss, Hides, Shown
  <2>2. TypeOK'
    BY <2>1 DEF CanWrite
  <2> QED BY <2>1, <2>2
<1>4. CASE AccessChanges
  BY <1>4 DEF AccessChanges
<1>5. CASE UNCHANGED vars
  BY <1>5 DEF vars
<1> QED BY <1>1, <1>2, <1>3, <1>4, <1>5 DEF Next

LEMMA SpecInv == Spec => []Inv
<1> QED BY InitInv, StepInv, PTL DEF Spec

\* The component's variables keep their types, for any set of tabs.
THEOREM NoticeTypeCorrect == Spec => []TypeOK
<1>1. Inv => TypeOK
  BY DEF Inv
<1> QED BY SpecInv, <1>1, PTL

\* Whatever the storage allows and whenever that changes, a closed notice is
\* gone from its view, and from every later page that can read the mark.
THEOREM ClosedNoticesStayClosed == Spec => []ClosedStaysClosed
<1>1. Inv => ClosedStaysClosed
  BY DEF Inv, ClosedIsDismissed, LateFindsMark, ClosedStaysClosed, Shown
<1> QED BY SpecInv, <1>1, PTL
=============================================================================
