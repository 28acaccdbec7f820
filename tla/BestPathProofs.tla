---------------------------- MODULE BestPathProofs ----------------------------
(***************************************************************************)
(* Theorems about BestPath, for any attributes and any number of paths:    *)
(* each comparison is a strict weak order.                                 *)
(***************************************************************************)
EXTENDS BestPath, TLAPS

\* Each attribute compared is a number, but for a MED that is not there.
LEMMA AttributesAreNumbers ==
  ASSUME NEW r \in Route
  PROVE  /\ LocalPrefOf(r) \in Nat /\ r.number_of_as \in Nat
         /\ Rank(r.origin) \in Nat
         /\ r.med \in Nat \/ r.med = Unset
BY BestPathConstants DEF Route, LocalPrefOf, Rank, Origins

\* compare_route_med orders the paths as if no MED were a MED below 0.
LEMMA MedOrders ==
  ASSUME NEW a \in Route, NEW b \in Route
  PROVE  LET M(r) == IF r.med = Unset THEN 0 ELSE r.med + 1 IN
         /\ M(a) \in Nat /\ M(b) \in Nat
         /\ CompareMed(a, b) = Higher(M(b), M(a))
BY AttributesAreNumbers, BestPathConstants DEF CompareMed, Higher

\* Each comparison orders any set of routes: it orders numbers.
LEMMA LocalPrefOrder ==
  ASSUME NEW rs, rs \subseteq Route PROVE StrictWeakOrder(CompareLocalPref, rs)
BY AttributesAreNumbers DEF StrictWeakOrder, CompareLocalPref, Higher

\* The same: the shorter path first.
LEMMA AsPathOrder ==
  ASSUME NEW rs, rs \subseteq Route PROVE StrictWeakOrder(CompareAsPath, rs)
BY AttributesAreNumbers DEF StrictWeakOrder, CompareAsPath, Higher

\* The same: IGP, EGP, Incomplete from the lowest rank up.
LEMMA OriginOrder ==
  ASSUME NEW rs, rs \subseteq Route PROVE StrictWeakOrder(CompareOrigin, rs)
BY AttributesAreNumbers DEF StrictWeakOrder, CompareOrigin, Higher

\* The same: by the numbers of MedOrders.
LEMMA MedOrder ==
  ASSUME NEW rs, rs \subseteq Route PROVE StrictWeakOrder(CompareMed, rs)
BY MedOrders DEF StrictWeakOrder, Higher

-----------------------------------------------------------------------------

\* What is scanned are routes, and stays the same.
LEMMA PathsAreRoutes == ScanSpec => [](paths \in Seq(Route))
<1>1. ScanInit => paths \in Seq(Route)
  <2> SUFFICES ASSUME ScanInit PROVE paths \in Seq(Route)
    OBVIOUS
  <2>1. PICK n \in 1..MaxPaths : paths \in [1..n -> Route]
    BY DEF ScanInit
  <2> QED
    BY <2>1, BestPathConstants
<1>2. paths \in Seq(Route) /\ [ScanNext]_scanVars => (paths \in Seq(Route))'
  BY DEF ScanNext, Consider, Finish, scanVars
<1> QED
  BY <1>1, <1>2, PTL DEF ScanSpec

\* Each of the four comparisons is a strict weak order on the paths of a prefix.
THEOREM OrdersAreStrict == ScanSpec => []ComparisonsAreOrders
<1>1. paths \in Seq(Route) => ComparisonsAreOrders
  <2> SUFFICES ASSUME paths \in Seq(Route) PROVE ComparisonsAreOrders
    OBVIOUS
  <2>1. {paths[i] : i \in DOMAIN paths} \subseteq Route
    OBVIOUS
  <2> QED
    BY <2>1, LocalPrefOrder, AsPathOrder, OriginOrder, MedOrder
    DEF ComparisonsAreOrders
<1> QED
  BY <1>1, PathsAreRoutes, PTL
=============================================================================
