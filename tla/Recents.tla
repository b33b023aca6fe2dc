------------------------------ MODULE Recents -------------------------------
(***************************************************************************)
(* The recent searches of a browser: use-localstorage.js and addRecents of *)
(* the home page and of the job list (Modules/Home, Modules/ListJob).  The *)
(* searches are one item of the browser's local storage, which all tabs    *)
(* share; a component reads it when it is mounted and from then on works   *)
(* on its own copy, of which every change overwrites the whole item.       *)
(***************************************************************************)
EXTENDS Naturals, Sequences

CONSTANTS
  Tabs,
  RecentSearches,  (* keyword and address, not both empty                  *)
  MaxFailed        (* bound: writes that find the storage full             *)

ASSUME RecentsAssumption == MaxFailed \in Nat

VARIABLES
  stored,   (* local storage: the recent searches, the newest first        *)
  display,  (* what a tab displays: "home", "list", or something else      *)
  copy,     (* the searches the component of a tab was mounted with and    *)
            (* has changed since: useLocalStorage's storedValue            *)
  failed,   (* writes that have failed                                     *)
  made,     (* history: the searches as if all tabs had worked on one list *)
  behind,   (* history: the tabs that have a copy since before a write of  *)
            (* another, or of their own that failed                        *)
  stale     (* history: such a tab has made a search, or a write has       *)
            (* failed, since the searches were last deleted                *)

recentsVars == <<stored, display, copy, failed, made, behind, stale>>

MaxRecents == 3
Elements(items) == {items[i] : i \in DOMAIN items}
Distinct(items) == \A i, k \in DOMAIN items : items[i] = items[k] => i = k

RecentsTypeOK ==
  /\ stored \in Seq(RecentSearches)
  /\ display \in [Tabs -> {"home", "list", "other"}]
  /\ copy \in [Tabs -> Seq(RecentSearches)]
  /\ failed \in 0..MaxFailed
  /\ made \in Seq(RecentSearches)
  /\ behind \subseteq Tabs
  /\ stale \in BOOLEAN

RecentsInit ==
  /\ stored = <<>>
  /\ display = [t \in Tabs |-> "other"]
  /\ copy = [t \in Tabs |-> <<>>]
  /\ failed = 0
  /\ made = <<>>
  /\ behind = {}
  /\ stale = FALSE
----------------------------------------------------------------------------
(* What addRecents makes of the searches; and what it would make of them   *)
(* without its look for the search.                                        *)
Drop(items) == IF Len(items) > 2 THEN SubSeq(items, 1, Len(items) - 1) ELSE items
AddAnyway(items, s) == <<s>> \o Drop(items)
AddRecents(items, s) == IF s \in Elements(items) THEN items ELSE <<s>> \o Drop(items)

(* A component reads the item when it is mounted: what it gets is what is  *)
(* stored, and not the copy an earlier component of the tab left.          *)
OldCopy(t, item) == copy[t]
MountedWith(t, item) == item

(* setItem, which throws when the storage is full; setValue catches that   *)
(* when the component has its new copy already.                            *)
Write(items) ==
  \/ stored' = items /\ UNCHANGED failed
  \/ failed < MaxFailed /\ failed' = failed + 1 /\ UNCHANGED stored

WriteFails == failed' # failed
Mounted == {u \in Tabs : display[u] # "other"}
Overtaken(t) == IF WriteFails THEN behind \union {t} ELSE Mounted \ {t}

(* The tab comes to another page, or to the same one again.                *)
Visit(t, p) ==
  /\ display' = [display EXCEPT ![t] = p]
  /\ copy' = [copy EXCEPT ![t] = IF p = "other" THEN <<>> ELSE MountedWith(t, stored)]
  /\ behind' = behind \ {t}
  /\ UNCHANGED <<stored, failed, made, stale>>

(* onPressSubmit: the list stays and keeps its copy; the home page goes on *)
(* to the list, which is mounted with what is stored by then.              *)
SubmitSearch(t, s) ==
  /\ display[t] # "other"
  /\ LET items == AddRecents(copy[t], s)
         after == IF s \in Elements(copy[t]) THEN behind ELSE Overtaken(t)
     IN /\ IF s \in Elements(copy[t]) THEN UNCHANGED <<stored, failed>> ELSE Write(items)
        /\ IF display[t] = "list"
             THEN copy' = [copy EXCEPT ![t] = items] /\ behind' = after
             ELSE copy' = [copy EXCEPT ![t] = MountedWith(t, stored')] /\ behind' = after \ {t}
  /\ display' = [display EXCEPT ![t] = "list"]
  /\ made' = AddRecents(made, s)
  /\ stale' = (stale \/ t \in behind \/ WriteFails)

(* onPressDelete of the home page's table.                                 *)
Delete(t) ==
  /\ display[t] = "home"
  /\ Write(<<>>)
  /\ copy' = [copy EXCEPT ![t] = <<>>]
  /\ behind' = Overtaken(t)
  /\ made' = <<>>
  /\ stale' = WriteFails
  /\ UNCHANGED display

RecentsNext ==
  \E t \in Tabs :
    \/ \E p \in {"home", "list", "other"} : Visit(t, p)
    \/ \E s \in RecentSearches : SubmitSearch(t, s)
    \/ Delete(t)

RecentsSpec == RecentsInit /\ [][RecentsNext]_recentsVars
----------------------------------------------------------------------------
(* However tabs overwrite one another's searches, what is stored, and what *)
(* any tab shows, is at most three searches, each of them once (Home 37-46,*)
(* ListJob 117-126, which look only at their own copy).                    *)
ThreeDifferent ==
  \A items \in {stored} \union {copy[t] : t \in Tabs} :
    Len(items) <= MaxRecents /\ Distinct(items)

(* The storage is one list, to which each search of any tab is added and   *)
(* from which what the user deletes is gone, until a search is made in a   *)
(* tab that another has overtaken, or a write fails; then searches are     *)
(* lost or come back, and only a deletion makes it one list again          *)
(* (use-localstorage.js 7-22).                                             *)
OneListUntilStale == ~stale => stored = made
============================================================================
