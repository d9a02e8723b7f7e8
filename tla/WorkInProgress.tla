--------------------------- MODULE WorkInProgress ---------------------------
(***************************************************************************)
(* web/components/work-in-progress.tsx: the notice a visitor can close, in *)
(* several tabs of one browser, over reloads, and with a localStorage that *)
(* may be closed to the page or refuse to be written.                      *)
(*                                                                         *)
(* A tab renders nothing until its effect has read the storage.  React,    *)
(* the storage and the visitor are external; the second effect, which only *)
(* keeps the notice under the navigation bar, is layout.                   *)
(***************************************************************************)
CONSTANTS
  Tabs    \* tabs of the browser that have the page open

VARIABLES
  access,      \* what the page may do with localStorage
  stored,      \* localStorage holds "1" under storageKey
  mounted,     \* the tabs in which the component's state is TRUE
  dismissed,
  closedHere,  \* tabs whose notice was closed since they loaded; observes only
  latecomers   \* tabs that loaded when the mark could be read; observes only

vars == <<access, stored, mounted, dismissed, closedHere, latecomers>>

Access == {"open", "readonly", "closed"}
CanRead == access # "closed"
CanWrite == access = "open"

\* if (!mounted || dismissed) return null
Shown(t) == t \in mounted /\ t \notin dismissed

TypeOK ==
  /\ access \in Access /\ stored \in BOOLEAN
  /\ {mounted, dismissed, closedHere, latecomers} \subseteq SUBSET Tabs

\* The mark may be there from an earlier visit.
Init ==
  /\ access \in Access /\ stored \in BOOLEAN
  /\ mounted = {} /\ dismissed = {} /\ closedHere = {}
  /\ latecomers = IF stored /\ CanRead THEN Tabs ELSE {}

-----------------------------------------------------------------------------
\* The page is loaded anew, and the state of its view is gone.
Reload(t) ==
  /\ t \in mounted
  /\ mounted' = mounted \ {t} /\ dismissed' = dismissed \ {t}
  /\ closedHere' = closedHere \ {t}
  /\ latecomers' = IF stored /\ CanRead THEN latecomers \cup {t} ELSE latecomers \ {t}
  /\ UNCHANGED <<access, stored>>

\* The effect: getItem, which throws if the storage is closed.
ReadStorage(t) ==
  /\ t \notin mounted
  /\ mounted' = mounted \cup {t}
  /\ dismissed' = IF CanRead /\ stored THEN dismissed \cup {t} ELSE dismissed \ {t}
  /\ UNCHANGED <<access, stored, closedHere, latecomers>>

\* As if the notice went only when the mark could be written.
HidesIfWritten == CanWrite
Hides == TRUE

\* dismiss: setItem, which throws unless the storage can be written; the
\* notice goes all the same.
Dismiss(t) ==
  /\ Shown(t)
  /\ stored' = (stored \/ CanWrite)
  /\ dismissed' = IF Hides THEN dismissed \cup {t} ELSE dismissed
  /\ closedHere' = closedHere \cup {t}
  /\ UNCHANGED <<access, mounted, latecomers>>

\* The visitor changes what sites may store, or the storage is full or not;
\* not between the load of a page and its effect.
AccessChanges ==
  /\ mounted = Tabs
  /\ access' \in Access
  /\ UNCHANGED <<stored, mounted, dismissed, closedHere, latecomers>>

Next ==
  \/ \E t \in Tabs : Reload(t) \/ ReadStorage(t) \/ Dismiss(t)
  \/ AccessChanges

Spec == Init /\ [][Next]_vars

-----------------------------------------------------------------------------
(* Properties *)

\* A notice closed in this view of the page does not come back, even if
\* nothing could be stored; and one closed in any tab is not shown, not for a
\* moment, to a page loaded after that which may read the storage.
ClosedStaysClosed ==
  \A t \in Tabs : Shown(t) => t \notin closedHere /\ t \notin latecomers
=============================================================================
