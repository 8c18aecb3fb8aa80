---------------------- MODULE ProjectLifecycle_proofs ----------------------
(***************************************************************************)
(* Proofs about ProjectLifecycle, for any set of files and any bounds: no  *)
(* handler takes a message that was not sent, and no project is shown that *)
(* the user was not offered.                                               *)
(***************************************************************************)
EXTENDS ProjectLifecycle, FiniteSetTheorems, TLAPS

(* The three message counters.                                             *)
Boxes == [Files -> Nat]

LEMMA Posted ==
    ASSUME NEW box \in Boxes, NEW f \in Files
    PROVE  /\ Post(box, f) \in Boxes
           /\ \A g \in Files : Post(box, f)[g] > 0 => box[g] > 0 \/ g = f
BY DEF Boxes, Post

LEMMA Taken ==
    ASSUME NEW box \in Boxes, NEW f \in Files, box[f] > 0
    PROVE  /\ Take(box, f) \in Boxes
           /\ \A g \in Files : Take(box, f)[g] > 0 => box[g] > 0
BY DEF Boxes, Take

-----------------------------------------------------------------------------
(* What the project shown, the file waited for and every message on its    *)
(* way name has been offered.                                              *)
Sent(box) == \A f \in Files : box[f] > 0 => f \in offered

Named ==
    /\ phase = "Dashboard" => project \in offered
    /\ phase = "Watching" => file \in offered
    /\ Sent(selected) /\ Sent(loaded) /\ Sent(removed)

Screened == /\ phase \in Phases
            /\ items \in SUBSET Files
            /\ project \in Files \cup {NoFile}
            /\ file \in Files \cup {NoFile}

Boxed == selected \in Boxes /\ loaded \in Boxes /\ removed \in Boxes

(* The part of TypeOK that the screens and their messages change, and what *)
(* they name.                                                              *)
ScreensInv == Screened /\ Boxed /\ offered \subseteq Files /\ Named

Outside ==
    /\ disk \in [Files -> Contents]
    /\ changes \in 0..MaxChanges
    /\ noticed \in BOOLEAN
    /\ todo \in Listings /\ found \in Listings /\ scanning \in BOOLEAN
    /\ snapshot \in Listings \cup {NoListing}
    /\ next \in [told : BOOLEAN, files : Listings]
    /\ picks \in 0..MaxSelects

LifecycleInv == Outside /\ ScreensInv

LEMMA LifecycleTyped == LifecycleInv => TypeOK
BY DEF LifecycleInv, Outside, ScreensInv, Screened, Boxed, Boxes, Listings, TypeOK

-----------------------------------------------------------------------------
(* THE DIRECTORY AND ITS WATCHER                                           *)

LEMMA OutsideNext ==
    ASSUME Outside, Next PROVE Outside'
<1> USE Bounds DEF Outside
<1>1. CASE StartScan \/ Scanned
  BY <1>1 DEF StartScan, Scanned, Listings, dir, scan
<1>9. ASSUME NEW f \in Files, Stat(f) PROVE Outside'
  BY <1>9 DEF Stat, Listings, dir, scan
<1>2. CASE NextReturns
  <2>1. snapshot \in Listings
    BY <1>2 DEF NextReturns
  <2>2. next' \in [told : BOOLEAN, files : Listings]
    BY <1>2, <2>1, Zenon DEF NextReturns
  <2> QED
    BY <1>2, <2>2 DEF NextReturns, dir, scan
<1>3. CASE HandleFileAvailabilityChanged
  <2>1. next' \in [told : BOOLEAN, files : Listings]
    BY <1>3 DEF HandleFileAvailabilityChanged, Listings
  <2> QED
    BY <1>3, <2>1 DEF HandleFileAvailabilityChanged, dir, scan
<1>4. ASSUME NEW f \in Files, Change(f) PROVE Outside'
  <2>1. disk' \in [Files -> Contents]
    BY <1>4 DEF Change
  <2> QED
    BY <1>4, <2>1 DEF Change, scan
<1>5. ASSUME NEW f \in Files, Select(f) PROVE Outside'
  BY <1>5 DEF Select, dir, scan
<1>6. ASSUME NEW f \in Files, HandleFileSelected(f) PROVE Outside'
  BY <1>6 DEF HandleFileSelected, dir, scan
<1>7. ASSUME NEW f \in Files, HandleProjectLoaded(f) PROVE Outside'
  BY <1>7 DEF HandleProjectLoaded, dir, scan
<1>8. ASSUME NEW f \in Files, HandleFileRemoved(f) PROVE Outside'
  BY <1>8 DEF HandleFileRemoved, dir, scan
<1> QED
  BY <1>1, <1>2, <1>3, <1>4, <1>5, <1>6, <1>7, <1>8, <1>9 DEF Next

-----------------------------------------------------------------------------
(* THE HANDLERS                                                            *)

(* A listing: of a file alone, of the dashboard's, of the one waited for.  *)
LEMMA ListedKeeps ==
    ASSUME ScreensInv, NEW files \in SUBSET Files,
           StartupListed(files) \/ DashboardListed(files) \/ WatchingListed(files)
    PROVE  ScreensInv'
<1> USE DEF ScreensInv, Screened, Boxed, Named, Sent
<1>1. CASE StartupListed(files)
  <2>1. CASE Cardinality(files) = 1
    <3> DEFINE f == CHOOSE f \in files : TRUE
    <3>1. files # {}
      BY <2>1, FS_EmptySet
    <3>2. f \in Files
      BY <3>1
    <3>3. /\ selected' = Post(selected, f)
          /\ offered' = offered \cup {f}
          /\ UNCHANGED <<items, phase, project, file, loaded, removed>>
      BY <1>1, <2>1 DEF StartupListed
    <3> HIDE DEF f
    <3> QED
      BY <3>2, <3>3, Posted
  <2>2. CASE Cardinality(files) # 1
    BY <1>1, <2>2 DEF StartupListed
  <2> QED
    BY <2>1, <2>2
<1>2. CASE DashboardListed(files)
  <2>1. CASE project \in files
    BY <1>2, <2>1 DEF DashboardListed, screen
  <2>2. CASE project \notin files
    <3>1. project \in Files
      BY <1>2 DEF DashboardListed
    <3> QED
      BY <1>2, <2>2, <3>1, Posted DEF DashboardListed, screen
  <2> QED
    BY <2>1, <2>2
<1>3. CASE WatchingListed(files)
  <2>1. CASE file \in files /\ Parses(file)
    BY <1>3, <2>1, Posted DEF WatchingListed, screen
  <2>2. CASE ~(file \in files /\ Parses(file))
    BY <1>3, <2>2 DEF WatchingListed, screen
  <2> QED
    BY <2>1, <2>2
<1> QED
  BY <1>1, <1>2, <1>3

LEMMA MessageKeeps ==
    ASSUME ScreensInv, NEW f \in Files,
           Select(f) \/ HandleFileSelected(f) \/ HandleProjectLoaded(f) \/ HandleFileRemoved(f)
    PROVE  ScreensInv'
<1> USE DEF ScreensInv, Screened, Boxed, Named, Sent
<1>1. CASE Select(f)
  BY <1>1, Posted DEF Select, screen
<1>2. CASE HandleFileSelected(f)
  <2>1. CASE phase = "Startup" /\ Parses(f)
    BY <1>2, <2>1, Posted, Taken DEF HandleFileSelected, screen
  <2>2. CASE ~(phase = "Startup" /\ Parses(f))
    BY <1>2, <2>2, Taken DEF HandleFileSelected, screen
  <2> QED
    BY <2>1, <2>2
<1>3. CASE HandleProjectLoaded(f)
  BY <1>3, Taken DEF HandleProjectLoaded, Phases
<1>4. CASE HandleFileRemoved(f)
  BY <1>4, Taken DEF HandleFileRemoved, Phases
<1> QED
  BY <1>1, <1>2, <1>3, <1>4

LEMMA LifecycleNext == LifecycleInv /\ [Next]_vars => LifecycleInv'
<1> SUFFICES ASSUME LifecycleInv, [Next]_vars PROVE LifecycleInv'
  OBVIOUS
<1> USE DEF LifecycleInv
<1>1. CASE Next
  <2>1. Outside'
    BY <1>1, OutsideNext
  <2>2. CASE StartScan \/ Scanned \/ NextReturns
                 \/ \E f \in Files : Change(f) \/ Stat(f)
    <3>1. UNCHANGED <<screen, inbox, offered>>
      BY <2>2 DEF StartScan, Stat, Scanned, NextReturns, Change
    <3> QED
      BY <2>1, <3>1
        DEF screen, inbox, ScreensInv, Screened, Boxed, Named, Sent
  <2>3. CASE HandleFileAvailabilityChanged
    <3>1. next.files \in SUBSET Files
      BY DEF Outside, Listings
    <3> QED
      BY <2>1, <2>3, <3>1, ListedKeeps DEF HandleFileAvailabilityChanged
  <2>4. ASSUME NEW f \in Files,
               Select(f) \/ HandleFileSelected(f) \/ HandleProjectLoaded(f)
                 \/ HandleFileRemoved(f)
        PROVE  LifecycleInv'
    BY <2>1, <2>4, MessageKeeps
  <2> QED
    BY <1>1, <2>2, <2>3, <2>4 DEF Next
<1>2. CASE UNCHANGED vars
  BY <1>2 DEF vars, dir, scan, screen, inbox, Outside, ScreensInv, Screened, Boxed, Named, Sent
<1> QED
  BY <1>1, <1>2

LEMMA LifecycleInit == Init => LifecycleInv
<1> SUFFICES ASSUME Init PROVE LifecycleInv
  OBVIOUS
<1>1. Outside
  <2>1. next \in [told : BOOLEAN, files : Listings]
    BY DEF Init, Listings
  <2>2. todo \in Listings /\ found \in Listings
    BY DEF Init, Listings
  <2>3. /\ disk \in [Files -> Contents] /\ noticed \in BOOLEAN /\ scanning \in BOOLEAN
        /\ snapshot \in Listings \cup {NoListing}
    BY DEF Init
  <2>4. changes \in 0..MaxChanges /\ picks \in 0..MaxSelects
    BY Bounds DEF Init
  <2> QED
    BY <2>1, <2>2, <2>3, <2>4 DEF Outside
<1>2. Boxed /\ \A f \in Files : selected[f] = 0 /\ loaded[f] = 0 /\ removed[f] = 0
  BY DEF Init, Boxed, Boxes, NoMessage
<1>3. Screened /\ offered \subseteq Files
  BY DEF Init, Screened, Phases
<1>4. Named
  BY <1>2 DEF Init, Named, Sent
<1> QED
  BY <1>1, <1>2, <1>3, <1>4 DEF LifecycleInv, ScreensInv

(* A message is handled at most as often as it was sent, a listing holds   *)
(* compose files only and the screens name such files.                     *)
THEOREM MessagesCounted == Spec => []TypeOK
BY LifecycleInit, LifecycleNext, LifecycleTyped, PTL DEF Spec

(* Whatever the order in which FileSelected, ProjectLoaded, FileRemoved    *)
(* and the listings arrive, the project of a dashboard is one that the     *)
(* user picked, or that a listing held alone.                              *)
THEOREM OfferedOnly == Spec => []OnlyOffered
<1>1. LifecycleInv => OnlyOffered
  BY DEF LifecycleInv, ScreensInv, Named, OnlyOffered
<1> QED
  BY <1>1, LifecycleInit, LifecycleNext, PTL DEF Spec
=============================================================================
